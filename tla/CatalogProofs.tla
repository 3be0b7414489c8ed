--------------------------- MODULE CatalogProofs ---------------------------
(***************************************************************************)
(* Theorems about Catalog.tla, for any names, column lists and number of   *)
(* pages.                                                                  *)
(***************************************************************************)
EXTENDS Catalog, TLAPS

(***************************************************************************)
(* The inductive invariant.                                                *)
(***************************************************************************)

(* What a call can be doing, and to which table. *)
CallOK ==
  \/ call = Down
  \/ call = Idle
  \/ /\ call.op \in {"load", "save"} /\ call.name = None
     /\ call.step = "none" /\ call.todo \subseteq dirs
  \/ call.op = "save" /\ call.name \in dirs /\ call.step = "close" /\ call.todo \subseteq dirs
  \/ call.op = "create" /\ call.name \in Name \ dirs /\ call.step = "directory"
  \/ call.op = "create" /\ call.name \in dirs \ spoilt
       /\ call.step \in {"index", "root", "tree", "open", "close"}
  \/ call.op = "insert" /\ call.name \in dirs
       /\ call.step \in {"open", "close", "page", "place", "index", "tree", "wreck"}
  \/ call.op = "drop" /\ call.name \in dirs /\ call.step = "remove"

(* Which tables are known. *)
Expected ==
  IF call.op = "down" THEN {}
  ELSE IF call.op = "load" THEN dirs \ call.todo
  ELSE IF call.op = "create" THEN dirs \cup {call.name}
  ELSE dirs

KnownOK == \A n \in Name : Known(n) <=> n \in Expected

(* A name without a directory has no files. *)
FilesOK == \A n \in Name \ dirs : meta[n] = None /\ pages[n] = {} /\ index[n] = None

(* How far a CREATE has come. *)
CreateOK ==
  call.op = "create" =>
    LET n == call.name
    IN  /\ tables[n].cols \in Columns /\ tables[n].pages = 0
        /\ tables[n].indexed <=> call.step \in {"open", "close"}
        /\ pages[n] = {}
        /\ meta[n] = IF call.step = "close" THEN Truncated ELSE None
        /\ index[n] = CASE call.step \in {"directory", "index"} -> None
                        [] call.step = "root" -> "damaged"
                        [] call.step = "tree" -> "torn"
                        [] OTHER -> "empty"

(* An insert that adds a page has counted it; one that turns to the index  *)
(* has its page; one that splits a node has the index open, and an index   *)
(* with files missing belongs to a spoilt table.                           *)
InsertOK ==
  call.op = "insert" =>
    /\ tables[call.name].pages > 0
    /\ call.step \in {"place", "index"} => pages[call.name] # {}
    /\ call.step \in {"tree", "wreck"} => index[call.name] = "torn"
    /\ call.step = "tree" => pages[call.name] # {}
    /\ call.step = "wreck" => call.name \in spoilt

(* A whole table: what is on disk, and what the program knows of it. *)
Busy(n, steps) == call.name = n /\ call.step \in steps

DiskOK(n) ==
  /\ \/ meta[n] \in Saved /\ meta[n].cols \in Columns /\ pages[n] \subseteq 0 .. meta[n].pages - 1
     \/ meta[n] = Truncated /\ Busy(n, {"close"})
  /\ \/ index[n] = "empty"
     \/ index[n] = "used" /\ pages[n] # {}
     \/ index[n] = "torn" /\ pages[n] # {} /\ Busy(n, {"tree"})

MemoryOK(n) ==
  Known(n) =>
    /\ tables[n].cols \in Columns
    /\ tables[n].indexed
    /\ pages[n] \subseteq 0 .. tables[n].pages - 1
    /\ meta[n] # Truncated => meta[n].cols = tables[n].cols
    /\ ~Busy(n, {"open", "close"}) => meta[n].pages = tables[n].pages

WholeOK == \A n \in Name : Whole(n) => DiskOK(n) /\ MemoryOK(n)

IInv == TypeOK /\ CallOK /\ KnownOK /\ FilesOK /\ CreateOK /\ InsertOK /\ WholeOK

(***************************************************************************)
(* What start-up reads, and what is known of a table.                      *)
(***************************************************************************)
LEMMA ParsedRead ==
  ASSUME TypeOK, NEW n \in Name, NEW t \in Parsed(n)
  PROVE  /\ t \in Table /\ t # None
         /\ meta[n] \in Saved =>
              t = [cols |-> meta[n].cols, pages |-> meta[n].pages, indexed |-> TRUE]
<1>1. meta[n] \in Saved \cup {None, Truncated} /\ MaxPages \in Nat
  BY PageBound DEF TypeOK
<1>2. CASE meta[n] = None
  <2>1. t = [cols |-> NoCols, pages |-> 0, indexed |-> FALSE]
    BY <1>2 DEF Parsed
  <2>2. t \in Table
    BY <1>1, <2>1 DEF Table
  <2> QED BY <1>2, <2>2, NoneIsNothing
<1>3. CASE meta[n] # None /\ meta[n] = Truncated
  <2>1. t \in Table
    BY <1>1, <1>3 DEF Parsed, Table
  <2>2. meta[n] \notin Saved
    BY <1>3, NoneIsNothing DEF Truncated, Saved
  <2> QED BY <2>1, <2>2, NoneIsNothing
<1>4. CASE meta[n] # None /\ meta[n] # Truncated
  BY <1>1, <1>4, NoneIsNothing DEF Parsed, Table, Saved
<1> QED BY <1>2, <1>3, <1>4

LEMMA KnownTable ==
  ASSUME TypeOK, NEW n \in Name, Known(n)
  PROVE  tables[n] \in Table
BY DEF TypeOK, Known

LEMMA NameOfCall ==
  ASSUME TypeOK, CallOK, call.op \in {"create", "insert", "drop"}
  PROVE  call.name \in Name
BY DEF TypeOK, CallOK, Down, Idle, Doing

LEMMA StartUpKeeps ==
  ASSUME IInv, StartUp
  PROVE  IInv'
<1> USE DEF IInv
<1>1. TypeOK'
  BY PageBound, NoneIsNothing DEF StartUp, disk, Doing, Down, Idle, Known, OpenMetadata, CloseMetadata, TypeOK, CallOK, KnownOK, Expected, CallType, Table, Saved, Truncated, IndexState, PageIds
<1>2. CallOK'
  BY NoneIsNothing DEF StartUp, disk, Doing, Down, Idle, Known, OpenMetadata, CloseMetadata, TypeOK, CallOK, KnownOK, Expected
<1>3. KnownOK'
  BY NoneIsNothing DEF StartUp, disk, Doing, Down, Idle, Known, OpenMetadata, CloseMetadata, TypeOK, CallOK, KnownOK, Expected, Table
<1>4. FilesOK'
  BY NoneIsNothing DEF StartUp, disk, Doing, Down, Idle, Known, OpenMetadata, CloseMetadata, TypeOK, CallOK, KnownOK, Expected, FilesOK
<1>5. CreateOK'
  BY NoneIsNothing DEF StartUp, disk, Doing, Down, Idle, Known, OpenMetadata, CloseMetadata, TypeOK, CallOK, CreateOK, FilesOK, Table, Truncated
<1>6. InsertOK'
  BY NoneIsNothing, PageBound DEF StartUp, disk, Doing, Down, Idle, Known, OpenMetadata, CloseMetadata, TypeOK, CallOK, InsertOK, Table, PageIds
<1>7. WholeOK'
  BY NoneIsNothing, PageBound DEF StartUp, disk, Doing, Down, Idle, Known, OpenMetadata, CloseMetadata, TypeOK, CallOK, WholeOK, Whole, DiskOK, MemoryOK, Busy, KnownOK, Expected, CreateOK, InsertOK, FilesOK, Table, Saved, Truncated, PageIds
<1> QED BY <1>1, <1>2, <1>3, <1>4, <1>5, <1>6, <1>7

LEMMA ReadTableKeeps ==
  ASSUME IInv, NEW n \in Name, ReadTable(n)
  PROVE  IInv'
<1> USE DEF IInv
<1>0. PICK t \in Parsed(n) : tables' = [tables EXCEPT ![n] = t]
  BY DEF ReadTable
<1>0a. /\ t \in Table /\ t # None
       /\ meta[n] \in Saved =>
            t = [cols |-> meta[n].cols, pages |-> meta[n].pages, indexed |-> TRUE]
  BY ParsedRead
<1>1. TypeOK'
  BY <1>0, <1>0a, PageBound, NoneIsNothing DEF ReadTable, disk, Doing, Down, Idle, Known, OpenMetadata, CloseMetadata, TypeOK, CallOK, KnownOK, Expected, CallType, Table, Saved, Truncated, IndexState, PageIds
<1>2. CallOK'
  BY <1>0, <1>0a, NoneIsNothing DEF ReadTable, disk, Doing, Down, Idle, Known, OpenMetadata, CloseMetadata, TypeOK, CallOK, KnownOK, Expected
<1>3. KnownOK'
  BY <1>0, <1>0a, NoneIsNothing DEF ReadTable, disk, Doing, Down, Idle, Known, OpenMetadata, CloseMetadata, TypeOK, CallOK, KnownOK, Expected, Table
<1>4. FilesOK'
  BY <1>0, <1>0a, NoneIsNothing DEF ReadTable, disk, Doing, Down, Idle, Known, OpenMetadata, CloseMetadata, TypeOK, CallOK, KnownOK, Expected, FilesOK
<1>5. CreateOK'
  BY <1>0, <1>0a, NoneIsNothing DEF ReadTable, disk, Doing, Down, Idle, Known, OpenMetadata, CloseMetadata, TypeOK, CallOK, CreateOK, FilesOK, Table, Truncated
<1>6. InsertOK'
  BY <1>0, <1>0a, NoneIsNothing, PageBound DEF ReadTable, disk, Doing, Down, Idle, Known, OpenMetadata, CloseMetadata, TypeOK, CallOK, InsertOK, Table, PageIds
<1>7. WholeOK'
  BY <1>0, <1>0a, NoneIsNothing, PageBound DEF ReadTable, disk, Doing, Down, Idle, Known, OpenMetadata, CloseMetadata, TypeOK, CallOK, WholeOK, Whole, DiskOK, MemoryOK, Busy, KnownOK, Expected, CreateOK, InsertOK, FilesOK, Table, Saved, Truncated, PageIds
<1> QED BY <1>1, <1>2, <1>3, <1>4, <1>5, <1>6, <1>7

LEMMA ReadThrowsKeeps ==
  ASSUME IInv, NEW n \in Name, ReadThrows(n)
  PROVE  IInv'
<1> USE DEF IInv
<1>1. TypeOK'
  BY PageBound, NoneIsNothing DEF ReadThrows, disk, Doing, Down, Idle, Known, OpenMetadata, CloseMetadata, TypeOK, CallOK, KnownOK, Expected, CallType, Table, Saved, Truncated, IndexState, PageIds
<1>2. CallOK'
  BY NoneIsNothing DEF ReadThrows, disk, Doing, Down, Idle, Known, OpenMetadata, CloseMetadata, TypeOK, CallOK, KnownOK, Expected
<1>3. KnownOK'
  BY NoneIsNothing DEF ReadThrows, disk, Doing, Down, Idle, Known, OpenMetadata, CloseMetadata, TypeOK, CallOK, KnownOK, Expected, Table
<1>4. FilesOK'
  BY NoneIsNothing DEF ReadThrows, disk, Doing, Down, Idle, Known, OpenMetadata, CloseMetadata, TypeOK, CallOK, KnownOK, Expected, FilesOK
<1>5. CreateOK'
  BY NoneIsNothing DEF ReadThrows, disk, Doing, Down, Idle, Known, OpenMetadata, CloseMetadata, TypeOK, CallOK, CreateOK, FilesOK, Table, Truncated
<1>6. InsertOK'
  BY NoneIsNothing, PageBound DEF ReadThrows, disk, Doing, Down, Idle, Known, OpenMetadata, CloseMetadata, TypeOK, CallOK, InsertOK, Table, PageIds
<1>7. WholeOK'
  BY NoneIsNothing, PageBound DEF ReadThrows, disk, Doing, Down, Idle, Known, OpenMetadata, CloseMetadata, TypeOK, CallOK, WholeOK, Whole, DiskOK, MemoryOK, Busy, KnownOK, Expected, CreateOK, InsertOK, FilesOK, Table, Saved, Truncated, PageIds
<1> QED BY <1>1, <1>2, <1>3, <1>4, <1>5, <1>6, <1>7

LEMMA EndLoadKeeps ==
  ASSUME IInv, EndLoad
  PROVE  IInv'
<1> USE DEF IInv
<1>1. TypeOK'
  BY PageBound, NoneIsNothing DEF EndLoad, disk, Doing, Down, Idle, Known, OpenMetadata, CloseMetadata, TypeOK, CallOK, KnownOK, Expected, CallType, Table, Saved, Truncated, IndexState, PageIds
<1>2. CallOK'
  BY NoneIsNothing DEF EndLoad, disk, Doing, Down, Idle, Known, OpenMetadata, CloseMetadata, TypeOK, CallOK, KnownOK, Expected
<1>3. KnownOK'
  BY NoneIsNothing DEF EndLoad, disk, Doing, Down, Idle, Known, OpenMetadata, CloseMetadata, TypeOK, CallOK, KnownOK, Expected, Table
<1>4. FilesOK'
  BY NoneIsNothing DEF EndLoad, disk, Doing, Down, Idle, Known, OpenMetadata, CloseMetadata, TypeOK, CallOK, KnownOK, Expected, FilesOK
<1>5. CreateOK'
  BY NoneIsNothing DEF EndLoad, disk, Doing, Down, Idle, Known, OpenMetadata, CloseMetadata, TypeOK, CallOK, CreateOK, FilesOK, Table, Truncated
<1>6. InsertOK'
  BY NoneIsNothing, PageBound DEF EndLoad, disk, Doing, Down, Idle, Known, OpenMetadata, CloseMetadata, TypeOK, CallOK, InsertOK, Table, PageIds
<1>7. WholeOK'
  BY NoneIsNothing, PageBound DEF EndLoad, disk, Doing, Down, Idle, Known, OpenMetadata, CloseMetadata, TypeOK, CallOK, WholeOK, Whole, DiskOK, MemoryOK, Busy, KnownOK, Expected, CreateOK, InsertOK, FilesOK, Table, Saved, Truncated, PageIds
<1> QED BY <1>1, <1>2, <1>3, <1>4, <1>5, <1>6, <1>7

LEMMA SaveTableKeeps ==
  ASSUME IInv, NEW n \in Name, SaveTable(n)
  PROVE  IInv'
<1> USE DEF IInv
<1>1. TypeOK'
  BY PageBound, NoneIsNothing DEF SaveTable, disk, Doing, Down, Idle, Known, OpenMetadata, CloseMetadata, TypeOK, CallOK, KnownOK, Expected, CallType, Table, Saved, Truncated, IndexState, PageIds
<1>2. CallOK'
  BY NoneIsNothing DEF SaveTable, disk, Doing, Down, Idle, Known, OpenMetadata, CloseMetadata, TypeOK, CallOK, KnownOK, Expected
<1>3. KnownOK'
  BY NoneIsNothing DEF SaveTable, disk, Doing, Down, Idle, Known, OpenMetadata, CloseMetadata, TypeOK, CallOK, KnownOK, Expected, Table
<1>4. FilesOK'
  BY NoneIsNothing DEF SaveTable, disk, Doing, Down, Idle, Known, OpenMetadata, CloseMetadata, TypeOK, CallOK, KnownOK, Expected, FilesOK
<1>5. CreateOK'
  BY NoneIsNothing DEF SaveTable, disk, Doing, Down, Idle, Known, OpenMetadata, CloseMetadata, TypeOK, CallOK, CreateOK, FilesOK, Table, Truncated
<1>6. InsertOK'
  BY NoneIsNothing, PageBound DEF SaveTable, disk, Doing, Down, Idle, Known, OpenMetadata, CloseMetadata, TypeOK, CallOK, InsertOK, Table, PageIds
<1>7. WholeOK'
  BY NoneIsNothing, PageBound DEF SaveTable, disk, Doing, Down, Idle, Known, OpenMetadata, CloseMetadata, TypeOK, CallOK, WholeOK, Whole, DiskOK, MemoryOK, Busy, KnownOK, Expected, CreateOK, InsertOK, FilesOK, Table, Saved, Truncated, PageIds
<1> QED BY <1>1, <1>2, <1>3, <1>4, <1>5, <1>6, <1>7

LEMMA EndSaveKeeps ==
  ASSUME IInv, EndSave
  PROVE  IInv'
<1> USE DEF IInv
<1>1. TypeOK'
  BY PageBound, NoneIsNothing DEF EndSave, disk, Doing, Down, Idle, Known, OpenMetadata, CloseMetadata, TypeOK, CallOK, KnownOK, Expected, CallType, Table, Saved, Truncated, IndexState, PageIds
<1>2. CallOK'
  BY NoneIsNothing DEF EndSave, disk, Doing, Down, Idle, Known, OpenMetadata, CloseMetadata, TypeOK, CallOK, KnownOK, Expected
<1>3. KnownOK'
  BY NoneIsNothing DEF EndSave, disk, Doing, Down, Idle, Known, OpenMetadata, CloseMetadata, TypeOK, CallOK, KnownOK, Expected, Table
<1>4. FilesOK'
  BY NoneIsNothing DEF EndSave, disk, Doing, Down, Idle, Known, OpenMetadata, CloseMetadata, TypeOK, CallOK, KnownOK, Expected, FilesOK
<1>5. CreateOK'
  BY NoneIsNothing DEF EndSave, disk, Doing, Down, Idle, Known, OpenMetadata, CloseMetadata, TypeOK, CallOK, CreateOK, FilesOK, Table, Truncated
<1>6. InsertOK'
  BY NoneIsNothing, PageBound DEF EndSave, disk, Doing, Down, Idle, Known, OpenMetadata, CloseMetadata, TypeOK, CallOK, InsertOK, Table, PageIds
<1>7. WholeOK'
  BY NoneIsNothing, PageBound DEF EndSave, disk, Doing, Down, Idle, Known, OpenMetadata, CloseMetadata, TypeOK, CallOK, WholeOK, Whole, DiskOK, MemoryOK, Busy, KnownOK, Expected, CreateOK, InsertOK, FilesOK, Table, Saved, Truncated, PageIds
<1> QED BY <1>1, <1>2, <1>3, <1>4, <1>5, <1>6, <1>7

LEMMA EndStartUpKeeps ==
  ASSUME IInv, EndStartUp
  PROVE  IInv'
<1> USE DEF IInv
<1>1. TypeOK'
  BY PageBound, NoneIsNothing DEF EndStartUp, disk, Doing, Down, Idle, Known, OpenMetadata, CloseMetadata, TypeOK, CallOK, KnownOK, Expected, CallType, Table, Saved, Truncated, IndexState, PageIds
<1>2. CallOK'
  BY NoneIsNothing DEF EndStartUp, disk, Doing, Down, Idle, Known, OpenMetadata, CloseMetadata, TypeOK, CallOK, KnownOK, Expected
<1>3. KnownOK'
  BY NoneIsNothing DEF EndStartUp, disk, Doing, Down, Idle, Known, OpenMetadata, CloseMetadata, TypeOK, CallOK, KnownOK, Expected, Table
<1>4. FilesOK'
  BY NoneIsNothing DEF EndStartUp, disk, Doing, Down, Idle, Known, OpenMetadata, CloseMetadata, TypeOK, CallOK, KnownOK, Expected, FilesOK
<1>5. CreateOK'
  BY NoneIsNothing DEF EndStartUp, disk, Doing, Down, Idle, Known, OpenMetadata, CloseMetadata, TypeOK, CallOK, CreateOK, FilesOK, Table, Truncated
<1>6. InsertOK'
  BY NoneIsNothing, PageBound DEF EndStartUp, disk, Doing, Down, Idle, Known, OpenMetadata, CloseMetadata, TypeOK, CallOK, InsertOK, Table, PageIds
<1>7. WholeOK'
  BY NoneIsNothing, PageBound DEF EndStartUp, disk, Doing, Down, Idle, Known, OpenMetadata, CloseMetadata, TypeOK, CallOK, WholeOK, Whole, DiskOK, MemoryOK, Busy, KnownOK, Expected, CreateOK, InsertOK, FilesOK, Table, Saved, Truncated, PageIds
<1> QED BY <1>1, <1>2, <1>3, <1>4, <1>5, <1>6, <1>7

LEMMA BeginCreateKeeps ==
  ASSUME IInv, NEW n \in Name, NEW c \in Columns, BeginCreate(n, c)
  PROVE  IInv'
<1> USE DEF IInv
<1>0. [cols |-> c, pages |-> 0, indexed |-> FALSE] \in Table \ {None}
  <2>1. [cols |-> c, pages |-> 0, indexed |-> FALSE] \in Table
    BY PageBound DEF Table
  <2> QED BY <2>1, NoneIsNothing
<1>1. TypeOK'
  BY <1>0, PageBound, NoneIsNothing DEF BeginCreate, disk, Doing, Down, Idle, Known, OpenMetadata, CloseMetadata, TypeOK, CallOK, KnownOK, Expected, CallType, Table, Saved, Truncated, IndexState, PageIds
<1>2. CallOK'
  BY <1>0, NoneIsNothing DEF BeginCreate, disk, Doing, Down, Idle, Known, OpenMetadata, CloseMetadata, TypeOK, CallOK, KnownOK, Expected
<1>3. KnownOK'
  BY <1>0, NoneIsNothing DEF BeginCreate, disk, Doing, Down, Idle, Known, OpenMetadata, CloseMetadata, TypeOK, CallOK, KnownOK, Expected, Table
<1>4. FilesOK'
  BY <1>0, NoneIsNothing DEF BeginCreate, disk, Doing, Down, Idle, Known, OpenMetadata, CloseMetadata, TypeOK, CallOK, KnownOK, Expected, FilesOK
<1>5. CreateOK'
  BY <1>0, NoneIsNothing DEF BeginCreate, disk, Doing, Down, Idle, Known, OpenMetadata, CloseMetadata, TypeOK, CallOK, CreateOK, FilesOK, Table, Truncated, KnownOK, Expected
<1>6. InsertOK'
  BY <1>0, NoneIsNothing, PageBound DEF BeginCreate, disk, Doing, Down, Idle, Known, OpenMetadata, CloseMetadata, TypeOK, CallOK, InsertOK, Table, PageIds
<1>7. WholeOK'
  BY <1>0, NoneIsNothing, PageBound DEF BeginCreate, disk, Doing, Down, Idle, Known, OpenMetadata, CloseMetadata, TypeOK, CallOK, WholeOK, Whole, DiskOK, MemoryOK, Busy, KnownOK, Expected, CreateOK, InsertOK, FilesOK, Table, Saved, Truncated, PageIds
<1> QED BY <1>1, <1>2, <1>3, <1>4, <1>5, <1>6, <1>7

LEMMA MakeDirectoryKeeps ==
  ASSUME IInv, MakeDirectory
  PROVE  IInv'
<1> USE DEF IInv
<1>1. TypeOK'
  BY PageBound, NoneIsNothing DEF MakeDirectory, disk, Doing, Down, Idle, Known, OpenMetadata, CloseMetadata, TypeOK, CallOK, KnownOK, Expected, CallType, Table, Saved, Truncated, IndexState, PageIds
<1>2. CallOK'
  BY NoneIsNothing DEF MakeDirectory, disk, Doing, Down, Idle, Known, OpenMetadata, CloseMetadata, TypeOK, CallOK, KnownOK, Expected
<1>3. KnownOK'
  BY NoneIsNothing DEF MakeDirectory, disk, Doing, Down, Idle, Known, OpenMetadata, CloseMetadata, TypeOK, CallOK, KnownOK, Expected, Table
<1>4. FilesOK'
  BY NoneIsNothing DEF MakeDirectory, disk, Doing, Down, Idle, Known, OpenMetadata, CloseMetadata, TypeOK, CallOK, KnownOK, Expected, FilesOK
<1>5. CreateOK'
  BY NoneIsNothing DEF MakeDirectory, disk, Doing, Down, Idle, Known, OpenMetadata, CloseMetadata, TypeOK, CallOK, CreateOK, FilesOK, Table, Truncated
<1>6. InsertOK'
  BY NoneIsNothing, PageBound DEF MakeDirectory, disk, Doing, Down, Idle, Known, OpenMetadata, CloseMetadata, TypeOK, CallOK, InsertOK, Table, PageIds
<1>7. WholeOK'
  BY NoneIsNothing, PageBound DEF MakeDirectory, disk, Doing, Down, Idle, Known, OpenMetadata, CloseMetadata, TypeOK, CallOK, WholeOK, Whole, DiskOK, MemoryOK, Busy, KnownOK, Expected, CreateOK, InsertOK, FilesOK, Table, Saved, Truncated, PageIds
<1> QED BY <1>1, <1>2, <1>3, <1>4, <1>5, <1>6, <1>7

LEMMA MakeRootKeeps ==
  ASSUME IInv, MakeRoot
  PROVE  IInv'
<1> USE DEF IInv
<1>1. TypeOK'
  BY PageBound, NoneIsNothing DEF MakeRoot, disk, Doing, Down, Idle, Known, OpenMetadata, CloseMetadata, TypeOK, CallOK, KnownOK, Expected, CallType, Table, Saved, Truncated, IndexState, PageIds
<1>2. CallOK'
  BY NoneIsNothing DEF MakeRoot, disk, Doing, Down, Idle, Known, OpenMetadata, CloseMetadata, TypeOK, CallOK, KnownOK, Expected
<1>3. KnownOK'
  BY NoneIsNothing DEF MakeRoot, disk, Doing, Down, Idle, Known, OpenMetadata, CloseMetadata, TypeOK, CallOK, KnownOK, Expected, Table
<1>4. FilesOK'
  BY NoneIsNothing DEF MakeRoot, disk, Doing, Down, Idle, Known, OpenMetadata, CloseMetadata, TypeOK, CallOK, KnownOK, Expected, FilesOK
<1>5. CreateOK'
  BY NoneIsNothing DEF MakeRoot, disk, Doing, Down, Idle, Known, OpenMetadata, CloseMetadata, TypeOK, CallOK, CreateOK, FilesOK, Table, Truncated
<1>6. InsertOK'
  BY NoneIsNothing, PageBound DEF MakeRoot, disk, Doing, Down, Idle, Known, OpenMetadata, CloseMetadata, TypeOK, CallOK, InsertOK, Table, PageIds
<1>7. WholeOK'
  BY NoneIsNothing, PageBound DEF MakeRoot, disk, Doing, Down, Idle, Known, OpenMetadata, CloseMetadata, TypeOK, CallOK, WholeOK, Whole, DiskOK, MemoryOK, Busy, KnownOK, Expected, CreateOK, InsertOK, FilesOK, Table, Saved, Truncated, PageIds
<1> QED BY <1>1, <1>2, <1>3, <1>4, <1>5, <1>6, <1>7

LEMMA OpenIndexKeeps ==
  ASSUME IInv, OpenIndex
  PROVE  IInv'
<1> USE DEF IInv
<1>1. TypeOK'
  BY PageBound, NoneIsNothing DEF OpenIndex, disk, Doing, Down, Idle, Known, OpenMetadata, CloseMetadata, TypeOK, CallOK, KnownOK, Expected, CallType, Table, Saved, Truncated, IndexState, PageIds
<1>2. CallOK'
  BY NoneIsNothing DEF OpenIndex, disk, Doing, Down, Idle, Known, OpenMetadata, CloseMetadata, TypeOK, CallOK, KnownOK, Expected
<1>3. KnownOK'
  BY NoneIsNothing DEF OpenIndex, disk, Doing, Down, Idle, Known, OpenMetadata, CloseMetadata, TypeOK, CallOK, KnownOK, Expected, Table
<1>4. FilesOK'
  BY NoneIsNothing DEF OpenIndex, disk, Doing, Down, Idle, Known, OpenMetadata, CloseMetadata, TypeOK, CallOK, KnownOK, Expected, FilesOK
<1>5. CreateOK'
  BY NoneIsNothing DEF OpenIndex, disk, Doing, Down, Idle, Known, OpenMetadata, CloseMetadata, TypeOK, CallOK, CreateOK, FilesOK, Table, Truncated
<1>6. InsertOK'
  BY NoneIsNothing, PageBound DEF OpenIndex, disk, Doing, Down, Idle, Known, OpenMetadata, CloseMetadata, TypeOK, CallOK, InsertOK, Table, PageIds
<1>7. WholeOK'
  BY NoneIsNothing, PageBound DEF OpenIndex, disk, Doing, Down, Idle, Known, OpenMetadata, CloseMetadata, TypeOK, CallOK, WholeOK, Whole, DiskOK, MemoryOK, Busy, KnownOK, Expected, CreateOK, InsertOK, FilesOK, Table, Saved, Truncated, PageIds
<1> QED BY <1>1, <1>2, <1>3, <1>4, <1>5, <1>6, <1>7

LEMMA MakeIndexKeeps ==
  ASSUME IInv, MakeIndex
  PROVE  IInv'
<1> USE DEF IInv
<1>0. call.name \in Name /\ tables[call.name] \in Table /\ [tables[call.name] EXCEPT !.indexed = TRUE] \in Table \ {None}
  <2>1. call.name \in Name
    BY NameOfCall DEF MakeIndex, Down, Idle, Doing
  <2>2. tables[call.name] \in Table
    BY <2>1, KnownTable DEF KnownOK, Expected, CallOK, MakeIndex, Down, Idle, Doing
  <2>3. [tables[call.name] EXCEPT !.indexed = TRUE] \in Table
    BY <2>2 DEF Table
  <2> QED BY <2>1, <2>2, <2>3, NoneIsNothing
<1>1. TypeOK'
  BY <1>0, PageBound, NoneIsNothing DEF MakeIndex, disk, Doing, Down, Idle, Known, OpenMetadata, CloseMetadata, TypeOK, CallOK, KnownOK, Expected, CallType, Table, Saved, Truncated, IndexState, PageIds
<1>2. CallOK'
  BY <1>0, NoneIsNothing DEF MakeIndex, disk, Doing, Down, Idle, Known, OpenMetadata, CloseMetadata, TypeOK, CallOK, KnownOK, Expected
<1>3. KnownOK'
  BY <1>0, NoneIsNothing DEF MakeIndex, disk, Doing, Down, Idle, Known, OpenMetadata, CloseMetadata, TypeOK, CallOK, KnownOK, Expected, Table
<1>4. FilesOK'
  BY <1>0, NoneIsNothing DEF MakeIndex, disk, Doing, Down, Idle, Known, OpenMetadata, CloseMetadata, TypeOK, CallOK, KnownOK, Expected, FilesOK
<1>5. CreateOK'
  BY <1>0, NoneIsNothing DEF MakeIndex, disk, Doing, Down, Idle, Known, OpenMetadata, CloseMetadata, TypeOK, CallOK, CreateOK, FilesOK, Table, Truncated
<1>6. InsertOK'
  BY <1>0, NoneIsNothing, PageBound DEF MakeIndex, disk, Doing, Down, Idle, Known, OpenMetadata, CloseMetadata, TypeOK, CallOK, InsertOK, Table, PageIds
<1>7. WholeOK'
  BY <1>0, NoneIsNothing, PageBound DEF MakeIndex, disk, Doing, Down, Idle, Known, OpenMetadata, CloseMetadata, TypeOK, CallOK, WholeOK, Whole, DiskOK, MemoryOK, Busy, KnownOK, Expected, CreateOK, InsertOK, FilesOK, Table, Saved, Truncated, PageIds
<1> QED BY <1>1, <1>2, <1>3, <1>4, <1>5, <1>6, <1>7

LEMMA OpenNewKeeps ==
  ASSUME IInv, OpenNew
  PROVE  IInv'
<1> USE DEF IInv
<1>1. TypeOK'
  BY PageBound, NoneIsNothing DEF OpenNew, disk, Doing, Down, Idle, Known, OpenMetadata, CloseMetadata, TypeOK, CallOK, KnownOK, Expected, CallType, Table, Saved, Truncated, IndexState, PageIds
<1>2. CallOK'
  BY NoneIsNothing DEF OpenNew, disk, Doing, Down, Idle, Known, OpenMetadata, CloseMetadata, TypeOK, CallOK, KnownOK, Expected
<1>3. KnownOK'
  BY NoneIsNothing DEF OpenNew, disk, Doing, Down, Idle, Known, OpenMetadata, CloseMetadata, TypeOK, CallOK, KnownOK, Expected, Table
<1>4. FilesOK'
  BY NoneIsNothing DEF OpenNew, disk, Doing, Down, Idle, Known, OpenMetadata, CloseMetadata, TypeOK, CallOK, KnownOK, Expected, FilesOK
<1>5. CreateOK'
  BY NoneIsNothing DEF OpenNew, disk, Doing, Down, Idle, Known, OpenMetadata, CloseMetadata, TypeOK, CallOK, CreateOK, FilesOK, Table, Truncated
<1>6. InsertOK'
  BY NoneIsNothing, PageBound DEF OpenNew, disk, Doing, Down, Idle, Known, OpenMetadata, CloseMetadata, TypeOK, CallOK, InsertOK, Table, PageIds
<1>7. WholeOK'
  BY NoneIsNothing, PageBound DEF OpenNew, disk, Doing, Down, Idle, Known, OpenMetadata, CloseMetadata, TypeOK, CallOK, WholeOK, Whole, DiskOK, MemoryOK, Busy, KnownOK, Expected, CreateOK, InsertOK, FilesOK, Table, Saved, Truncated, PageIds
<1> QED BY <1>1, <1>2, <1>3, <1>4, <1>5, <1>6, <1>7

LEMMA EndCreateKeeps ==
  ASSUME IInv, EndCreate
  PROVE  IInv'
<1> USE DEF IInv
<1>1. TypeOK'
  BY PageBound, NoneIsNothing DEF EndCreate, disk, Doing, Down, Idle, Known, OpenMetadata, CloseMetadata, TypeOK, CallOK, KnownOK, Expected, CallType, Table, Saved, Truncated, IndexState, PageIds
<1>2. CallOK'
  BY NoneIsNothing DEF EndCreate, disk, Doing, Down, Idle, Known, OpenMetadata, CloseMetadata, TypeOK, CallOK, KnownOK, Expected
<1>3. KnownOK'
  BY NoneIsNothing DEF EndCreate, disk, Doing, Down, Idle, Known, OpenMetadata, CloseMetadata, TypeOK, CallOK, KnownOK, Expected, Table
<1>4. FilesOK'
  BY NoneIsNothing DEF EndCreate, disk, Doing, Down, Idle, Known, OpenMetadata, CloseMetadata, TypeOK, CallOK, KnownOK, Expected, FilesOK
<1>5. CreateOK'
  BY NoneIsNothing DEF EndCreate, disk, Doing, Down, Idle, Known, OpenMetadata, CloseMetadata, TypeOK, CallOK, CreateOK, FilesOK, Table, Truncated
<1>6. InsertOK'
  BY NoneIsNothing, PageBound DEF EndCreate, disk, Doing, Down, Idle, Known, OpenMetadata, CloseMetadata, TypeOK, CallOK, InsertOK, Table, PageIds
<1>7. WholeOK'
  BY NoneIsNothing, PageBound DEF EndCreate, disk, Doing, Down, Idle, Known, OpenMetadata, CloseMetadata, TypeOK, CallOK, WholeOK, Whole, DiskOK, MemoryOK, Busy, KnownOK, Expected, CreateOK, InsertOK, FilesOK, Table, Saved, Truncated, PageIds
<1> QED BY <1>1, <1>2, <1>3, <1>4, <1>5, <1>6, <1>7

LEMMA InsertRowKeeps ==
  ASSUME IInv, NEW n \in Name, NEW i \in PageIds, InsertRow(n, i)
  PROVE  IInv'
<1> USE DEF IInv
<1>1. TypeOK'
  BY PageBound, NoneIsNothing DEF InsertRow, TakesRows, disk, Doing, Down, Idle, Known, OpenMetadata, CloseMetadata, TypeOK, CallOK, KnownOK, Expected, CallType, Table, Saved, Truncated, IndexState, PageIds
<1>2. CallOK'
  BY NoneIsNothing DEF InsertRow, TakesRows, disk, Doing, Down, Idle, Known, OpenMetadata, CloseMetadata, TypeOK, CallOK, KnownOK, Expected
<1>3. KnownOK'
  BY NoneIsNothing DEF InsertRow, TakesRows, disk, Doing, Down, Idle, Known, OpenMetadata, CloseMetadata, TypeOK, CallOK, KnownOK, Expected, Table
<1>4. FilesOK'
  BY NoneIsNothing DEF InsertRow, TakesRows, disk, Doing, Down, Idle, Known, OpenMetadata, CloseMetadata, TypeOK, CallOK, KnownOK, Expected, FilesOK
<1>5. CreateOK'
  BY NoneIsNothing DEF InsertRow, TakesRows, disk, Doing, Down, Idle, Known, OpenMetadata, CloseMetadata, TypeOK, CallOK, CreateOK, FilesOK, Table, Truncated
<1>6. InsertOK'
  BY NoneIsNothing, PageBound DEF InsertRow, TakesRows, disk, Doing, Down, Idle, Known, OpenMetadata, CloseMetadata, TypeOK, CallOK, InsertOK, Table, PageIds
<1>7. WholeOK'
  BY NoneIsNothing, PageBound DEF InsertRow, TakesRows, disk, Doing, Down, Idle, Known, OpenMetadata, CloseMetadata, TypeOK, CallOK, WholeOK, Whole, DiskOK, MemoryOK, Busy, KnownOK, Expected, CreateOK, InsertOK, FilesOK, Table, Saved, Truncated, PageIds
<1> QED BY <1>1, <1>2, <1>3, <1>4, <1>5, <1>6, <1>7

LEMMA BeginGrowKeeps ==
  ASSUME IInv, NEW n \in Name, BeginGrow(n)
  PROVE  IInv'
<1> USE DEF IInv
<1>0. tables[n] \in Table /\ [tables[n] EXCEPT !.pages = @ + 1] \in Table \ {None}
  <2>1. tables[n] \in Table
    BY KnownTable DEF BeginGrow, TakesRows, Known
  <2>2. [tables[n] EXCEPT !.pages = @ + 1] \in Table
    BY <2>1, PageBound DEF Table, BeginGrow, TakesRows, Known
  <2> QED BY <2>1, <2>2, NoneIsNothing
<1>1. TypeOK'
  BY <1>0, PageBound, NoneIsNothing DEF BeginGrow, TakesRows, disk, Doing, Down, Idle, Known, OpenMetadata, CloseMetadata, TypeOK, CallOK, KnownOK, Expected, CallType, Table, Saved, Truncated, IndexState, PageIds
<1>2. CallOK'
  BY <1>0, NoneIsNothing DEF BeginGrow, TakesRows, disk, Doing, Down, Idle, Known, OpenMetadata, CloseMetadata, TypeOK, CallOK, KnownOK, Expected
<1>3. KnownOK'
  BY <1>0, NoneIsNothing DEF BeginGrow, TakesRows, disk, Doing, Down, Idle, Known, OpenMetadata, CloseMetadata, TypeOK, CallOK, KnownOK, Expected, Table
<1>4. FilesOK'
  BY <1>0, NoneIsNothing DEF BeginGrow, TakesRows, disk, Doing, Down, Idle, Known, OpenMetadata, CloseMetadata, TypeOK, CallOK, KnownOK, Expected, FilesOK
<1>5. CreateOK'
  BY <1>0, NoneIsNothing DEF BeginGrow, TakesRows, disk, Doing, Down, Idle, Known, OpenMetadata, CloseMetadata, TypeOK, CallOK, CreateOK, FilesOK, Table, Truncated
<1>6. InsertOK'
  BY <1>0, NoneIsNothing, PageBound DEF BeginGrow, TakesRows, disk, Doing, Down, Idle, Known, OpenMetadata, CloseMetadata, TypeOK, CallOK, InsertOK, Table, PageIds
<1>7. WholeOK'
  BY <1>0, NoneIsNothing, PageBound DEF BeginGrow, TakesRows, disk, Doing, Down, Idle, Known, OpenMetadata, CloseMetadata, TypeOK, CallOK, WholeOK, Whole, DiskOK, MemoryOK, Busy, KnownOK, Expected, CreateOK, InsertOK, FilesOK, Table, Saved, Truncated, PageIds
<1> QED BY <1>1, <1>2, <1>3, <1>4, <1>5, <1>6, <1>7

LEMMA OpenGrownKeeps ==
  ASSUME IInv, OpenGrown
  PROVE  IInv'
<1> USE DEF IInv
<1>1. TypeOK'
  BY PageBound, NoneIsNothing DEF OpenGrown, disk, Doing, Down, Idle, Known, OpenMetadata, CloseMetadata, TypeOK, CallOK, KnownOK, Expected, CallType, Table, Saved, Truncated, IndexState, PageIds
<1>2. CallOK'
  BY NoneIsNothing DEF OpenGrown, disk, Doing, Down, Idle, Known, OpenMetadata, CloseMetadata, TypeOK, CallOK, KnownOK, Expected
<1>3. KnownOK'
  BY NoneIsNothing DEF OpenGrown, disk, Doing, Down, Idle, Known, OpenMetadata, CloseMetadata, TypeOK, CallOK, KnownOK, Expected, Table
<1>4. FilesOK'
  BY NoneIsNothing DEF OpenGrown, disk, Doing, Down, Idle, Known, OpenMetadata, CloseMetadata, TypeOK, CallOK, KnownOK, Expected, FilesOK
<1>5. CreateOK'
  BY NoneIsNothing DEF OpenGrown, disk, Doing, Down, Idle, Known, OpenMetadata, CloseMetadata, TypeOK, CallOK, CreateOK, FilesOK, Table, Truncated
<1>6. InsertOK'
  BY NoneIsNothing, PageBound DEF OpenGrown, disk, Doing, Down, Idle, Known, OpenMetadata, CloseMetadata, TypeOK, CallOK, InsertOK, Table, PageIds
<1>7. WholeOK'
  BY NoneIsNothing, PageBound DEF OpenGrown, disk, Doing, Down, Idle, Known, OpenMetadata, CloseMetadata, TypeOK, CallOK, WholeOK, Whole, DiskOK, MemoryOK, Busy, KnownOK, Expected, CreateOK, InsertOK, FilesOK, Table, Saved, Truncated, PageIds
<1> QED BY <1>1, <1>2, <1>3, <1>4, <1>5, <1>6, <1>7

LEMMA CloseGrownKeeps ==
  ASSUME IInv, CloseGrown
  PROVE  IInv'
<1> USE DEF IInv
<1>1. TypeOK'
  BY PageBound, NoneIsNothing DEF CloseGrown, disk, Doing, Down, Idle, Known, OpenMetadata, CloseMetadata, TypeOK, CallOK, KnownOK, Expected, CallType, Table, Saved, Truncated, IndexState, PageIds
<1>2. CallOK'
  BY NoneIsNothing DEF CloseGrown, disk, Doing, Down, Idle, Known, OpenMetadata, CloseMetadata, TypeOK, CallOK, KnownOK, Expected
<1>3. KnownOK'
  BY NoneIsNothing DEF CloseGrown, disk, Doing, Down, Idle, Known, OpenMetadata, CloseMetadata, TypeOK, CallOK, KnownOK, Expected, Table
<1>4. FilesOK'
  BY NoneIsNothing DEF CloseGrown, disk, Doing, Down, Idle, Known, OpenMetadata, CloseMetadata, TypeOK, CallOK, KnownOK, Expected, FilesOK
<1>5. CreateOK'
  BY NoneIsNothing DEF CloseGrown, disk, Doing, Down, Idle, Known, OpenMetadata, CloseMetadata, TypeOK, CallOK, CreateOK, FilesOK, Table, Truncated
<1>6. InsertOK'
  BY NoneIsNothing, PageBound DEF CloseGrown, disk, Doing, Down, Idle, Known, OpenMetadata, CloseMetadata, TypeOK, CallOK, InsertOK, Table, PageIds
<1>7. WholeOK'
  BY NoneIsNothing, PageBound DEF CloseGrown, disk, Doing, Down, Idle, Known, OpenMetadata, CloseMetadata, TypeOK, CallOK, WholeOK, Whole, DiskOK, MemoryOK, Busy, KnownOK, Expected, CreateOK, InsertOK, FilesOK, Table, Saved, Truncated, PageIds
<1> QED BY <1>1, <1>2, <1>3, <1>4, <1>5, <1>6, <1>7

LEMMA CreatePageKeeps ==
  ASSUME IInv, CreatePage
  PROVE  IInv'
<1> USE DEF IInv
<1>0. call.name \in Name /\ tables[call.name] \in Table /\ tables[call.name].pages - 1 \in PageIds
  <2>1. call.name \in Name
    BY NameOfCall DEF CreatePage, Down, Idle, Doing
  <2>2. tables[call.name] \in Table
    BY <2>1, KnownTable DEF KnownOK, Expected, CallOK, CreatePage, Down, Idle, Doing
  <2>3. tables[call.name].pages - 1 \in PageIds
    BY <2>2, PageBound DEF InsertOK, Table, PageIds, CreatePage, Down, Idle, Doing
  <2> QED BY <2>1, <2>2, <2>3
<1>1. TypeOK'
  BY <1>0, PageBound, NoneIsNothing DEF CreatePage, disk, Doing, Down, Idle, Known, OpenMetadata, CloseMetadata, TypeOK, CallOK, KnownOK, Expected, CallType, Table, Saved, Truncated, IndexState, PageIds
<1>2. CallOK'
  BY <1>0, NoneIsNothing DEF CreatePage, disk, Doing, Down, Idle, Known, OpenMetadata, CloseMetadata, TypeOK, CallOK, KnownOK, Expected
<1>3. KnownOK'
  BY <1>0, NoneIsNothing DEF CreatePage, disk, Doing, Down, Idle, Known, OpenMetadata, CloseMetadata, TypeOK, CallOK, KnownOK, Expected, Table
<1>4. FilesOK'
  BY <1>0, NoneIsNothing DEF CreatePage, disk, Doing, Down, Idle, Known, OpenMetadata, CloseMetadata, TypeOK, CallOK, KnownOK, Expected, FilesOK
<1>5. CreateOK'
  BY <1>0, NoneIsNothing DEF CreatePage, disk, Doing, Down, Idle, Known, OpenMetadata, CloseMetadata, TypeOK, CallOK, CreateOK, FilesOK, Table, Truncated
<1>6. InsertOK'
  <2>1. call' = [call EXCEPT !.step = "place"] /\ tables' = tables
    BY DEF CreatePage
  <2>2. call'.step = "place" /\ call'.name = call.name
    BY <2>1 DEF TypeOK, CallType
  <2>3. pages'[call.name] # {}
    BY <1>0 DEF CreatePage, TypeOK
  <2>4. tables[call.name].pages > 0
    BY DEF InsertOK, CreatePage
  <2> QED BY <2>1, <2>2, <2>3, <2>4 DEF InsertOK
<1>7. WholeOK'
  BY <1>0, NoneIsNothing, PageBound DEF CreatePage, disk, Doing, Down, Idle, Known, OpenMetadata, CloseMetadata, TypeOK, CallOK, WholeOK, Whole, DiskOK, MemoryOK, Busy, KnownOK, Expected, CreateOK, InsertOK, FilesOK, Table, Saved, Truncated, PageIds
<1> QED BY <1>1, <1>2, <1>3, <1>4, <1>5, <1>6, <1>7

LEMMA PlaceInNewPageKeeps ==
  ASSUME IInv, PlaceInNewPage
  PROVE  IInv'
<1> USE DEF IInv
<1>0. call.name \in Name /\ call.name \in dirs
  BY NameOfCall DEF CallOK, PlaceInNewPage, Down, Idle, Doing
<1>1. TypeOK'
  BY <1>0, PageBound, NoneIsNothing DEF PlaceInNewPage, disk, Doing, Down, Idle, Known, OpenMetadata, CloseMetadata, TypeOK, CallOK, KnownOK, Expected, CallType, Table, Saved, Truncated, IndexState, PageIds
<1>2. CallOK'
  BY <1>0, NoneIsNothing DEF PlaceInNewPage, disk, Doing, Down, Idle, Known, OpenMetadata, CloseMetadata, TypeOK, CallOK, KnownOK, Expected
<1>3. KnownOK'
  BY <1>0, NoneIsNothing DEF PlaceInNewPage, disk, Doing, Down, Idle, Known, OpenMetadata, CloseMetadata, TypeOK, CallOK, KnownOK, Expected, Table
<1>4. FilesOK'
  BY <1>0, NoneIsNothing DEF PlaceInNewPage, disk, Doing, Down, Idle, Known, OpenMetadata, CloseMetadata, TypeOK, CallOK, KnownOK, Expected, FilesOK
<1>5. CreateOK'
  BY <1>0, NoneIsNothing DEF PlaceInNewPage, disk, Doing, Down, Idle, Known, OpenMetadata, CloseMetadata, TypeOK, CallOK, CreateOK, FilesOK, Table, Truncated
<1>6. InsertOK'
  BY <1>0, NoneIsNothing, PageBound DEF PlaceInNewPage, disk, Doing, Down, Idle, Known, OpenMetadata, CloseMetadata, TypeOK, CallOK, InsertOK, Table, PageIds
<1>7. WholeOK'
  BY <1>0, NoneIsNothing, PageBound DEF PlaceInNewPage, disk, Doing, Down, Idle, Known, OpenMetadata, CloseMetadata, TypeOK, CallOK, WholeOK, Whole, DiskOK, MemoryOK, Busy, KnownOK, Expected, CreateOK, InsertOK, FilesOK, Table, Saved, Truncated, PageIds
<1> QED BY <1>1, <1>2, <1>3, <1>4, <1>5, <1>6, <1>7

LEMMA PlaceFailsKeeps ==
  ASSUME IInv, PlaceFails
  PROVE  IInv'
<1> USE DEF IInv
<1>0. call.name \in Name /\ call.name \in dirs
  BY NameOfCall DEF CallOK, PlaceFails, Down, Idle, Doing
<1>1. TypeOK'
  BY <1>0, PageBound, NoneIsNothing DEF PlaceFails, disk, Doing, Down, Idle, Known, OpenMetadata, CloseMetadata, TypeOK, CallOK, KnownOK, Expected, CallType, Table, Saved, Truncated, IndexState, PageIds
<1>2. CallOK'
  BY <1>0, NoneIsNothing DEF PlaceFails, disk, Doing, Down, Idle, Known, OpenMetadata, CloseMetadata, TypeOK, CallOK, KnownOK, Expected
<1>3. KnownOK'
  BY <1>0, NoneIsNothing DEF PlaceFails, disk, Doing, Down, Idle, Known, OpenMetadata, CloseMetadata, TypeOK, CallOK, KnownOK, Expected, Table
<1>4. FilesOK'
  BY <1>0, NoneIsNothing DEF PlaceFails, disk, Doing, Down, Idle, Known, OpenMetadata, CloseMetadata, TypeOK, CallOK, KnownOK, Expected, FilesOK
<1>5. CreateOK'
  BY <1>0, NoneIsNothing DEF PlaceFails, disk, Doing, Down, Idle, Known, OpenMetadata, CloseMetadata, TypeOK, CallOK, CreateOK, FilesOK, Table, Truncated
<1>6. InsertOK'
  BY <1>0, NoneIsNothing, PageBound DEF PlaceFails, disk, Doing, Down, Idle, Known, OpenMetadata, CloseMetadata, TypeOK, CallOK, InsertOK, Table, PageIds
<1>7. WholeOK'
  BY <1>0, NoneIsNothing, PageBound DEF PlaceFails, disk, Doing, Down, Idle, Known, OpenMetadata, CloseMetadata, TypeOK, CallOK, WholeOK, Whole, DiskOK, MemoryOK, Busy, KnownOK, Expected, CreateOK, InsertOK, FilesOK, Table, Saved, Truncated, PageIds
<1> QED BY <1>1, <1>2, <1>3, <1>4, <1>5, <1>6, <1>7

LEMMA IndexRowKeeps ==
  ASSUME IInv, IndexRow
  PROVE  IInv'
<1> USE DEF IInv
<1>0. call.name \in Name /\ call.name \in dirs
  BY NameOfCall DEF CallOK, IndexRow, Down, Idle, Doing
<1>1. TypeOK'
  BY <1>0, PageBound, NoneIsNothing DEF IndexRow, disk, Doing, Down, Idle, Known, OpenMetadata, CloseMetadata, TypeOK, CallOK, KnownOK, Expected, CallType, Table, Saved, Truncated, IndexState, PageIds
<1>2. CallOK'
  BY <1>0, NoneIsNothing DEF IndexRow, disk, Doing, Down, Idle, Known, OpenMetadata, CloseMetadata, TypeOK, CallOK, KnownOK, Expected
<1>3. KnownOK'
  BY <1>0, NoneIsNothing DEF IndexRow, disk, Doing, Down, Idle, Known, OpenMetadata, CloseMetadata, TypeOK, CallOK, KnownOK, Expected, Table
<1>4. FilesOK'
  BY <1>0, NoneIsNothing DEF IndexRow, disk, Doing, Down, Idle, Known, OpenMetadata, CloseMetadata, TypeOK, CallOK, KnownOK, Expected, FilesOK
<1>5. CreateOK'
  BY <1>0, NoneIsNothing DEF IndexRow, disk, Doing, Down, Idle, Known, OpenMetadata, CloseMetadata, TypeOK, CallOK, CreateOK, FilesOK, Table, Truncated
<1>6. InsertOK'
  BY <1>0, NoneIsNothing, PageBound DEF IndexRow, disk, Doing, Down, Idle, Known, OpenMetadata, CloseMetadata, TypeOK, CallOK, InsertOK, Table, PageIds
<1>7. WholeOK'
  BY <1>0, NoneIsNothing, PageBound DEF IndexRow, disk, Doing, Down, Idle, Known, OpenMetadata, CloseMetadata, TypeOK, CallOK, WholeOK, Whole, DiskOK, MemoryOK, Busy, KnownOK, Expected, CreateOK, InsertOK, FilesOK, Table, Saved, Truncated, PageIds
<1> QED BY <1>1, <1>2, <1>3, <1>4, <1>5, <1>6, <1>7

LEMMA IndexSplitsKeeps ==
  ASSUME IInv, IndexSplits
  PROVE  IInv'
<1> USE DEF IInv
<1>0. call.name \in Name /\ call.name \in dirs
  BY NameOfCall DEF CallOK, IndexSplits, Down, Idle, Doing
<1>1. TypeOK'
  BY <1>0, PageBound, NoneIsNothing DEF IndexSplits, disk, Doing, Down, Idle, Known, OpenMetadata, CloseMetadata, TypeOK, CallOK, KnownOK, Expected, CallType, Table, Saved, Truncated, IndexState, PageIds
<1>2. CallOK'
  BY <1>0, NoneIsNothing DEF IndexSplits, disk, Doing, Down, Idle, Known, OpenMetadata, CloseMetadata, TypeOK, CallOK, KnownOK, Expected
<1>3. KnownOK'
  BY <1>0, NoneIsNothing DEF IndexSplits, disk, Doing, Down, Idle, Known, OpenMetadata, CloseMetadata, TypeOK, CallOK, KnownOK, Expected, Table
<1>4. FilesOK'
  BY <1>0, NoneIsNothing DEF IndexSplits, disk, Doing, Down, Idle, Known, OpenMetadata, CloseMetadata, TypeOK, CallOK, KnownOK, Expected, FilesOK
<1>5. CreateOK'
  BY <1>0, NoneIsNothing DEF IndexSplits, disk, Doing, Down, Idle, Known, OpenMetadata, CloseMetadata, TypeOK, CallOK, CreateOK, FilesOK, Table, Truncated
<1>6. InsertOK'
  BY <1>0, NoneIsNothing, PageBound DEF IndexSplits, disk, Doing, Down, Idle, Known, OpenMetadata, CloseMetadata, TypeOK, CallOK, InsertOK, WholeOK, Whole, DiskOK, Table, PageIds
<1>7. WholeOK'
  BY <1>0, NoneIsNothing, PageBound DEF IndexSplits, disk, Doing, Down, Idle, Known, OpenMetadata, CloseMetadata, TypeOK, CallOK, WholeOK, Whole, DiskOK, MemoryOK, Busy, KnownOK, Expected, CreateOK, InsertOK, FilesOK, Table, Saved, Truncated, PageIds
<1> QED BY <1>1, <1>2, <1>3, <1>4, <1>5, <1>6, <1>7

LEMMA IndexThrowsKeeps ==
  ASSUME IInv, IndexThrows
  PROVE  IInv'
<1> USE DEF IInv
<1>0. call.name \in Name /\ call.name \in dirs
  BY NameOfCall DEF CallOK, IndexThrows, Down, Idle, Doing
<1>1. TypeOK'
  BY <1>0, PageBound, NoneIsNothing DEF IndexThrows, disk, Doing, Down, Idle, Known, OpenMetadata, CloseMetadata, TypeOK, CallOK, KnownOK, Expected, CallType, Table, Saved, Truncated, IndexState, PageIds
<1>2. CallOK'
  BY <1>0, NoneIsNothing DEF IndexThrows, disk, Doing, Down, Idle, Known, OpenMetadata, CloseMetadata, TypeOK, CallOK, KnownOK, Expected
<1>3. KnownOK'
  BY <1>0, NoneIsNothing DEF IndexThrows, disk, Doing, Down, Idle, Known, OpenMetadata, CloseMetadata, TypeOK, CallOK, KnownOK, Expected, Table
<1>4. FilesOK'
  BY <1>0, NoneIsNothing DEF IndexThrows, disk, Doing, Down, Idle, Known, OpenMetadata, CloseMetadata, TypeOK, CallOK, KnownOK, Expected, FilesOK
<1>5. CreateOK'
  BY <1>0, NoneIsNothing DEF IndexThrows, disk, Doing, Down, Idle, Known, OpenMetadata, CloseMetadata, TypeOK, CallOK, CreateOK, FilesOK, Table, Truncated
<1>6. InsertOK'
  BY <1>0, NoneIsNothing, PageBound DEF IndexThrows, disk, Doing, Down, Idle, Known, OpenMetadata, CloseMetadata, TypeOK, CallOK, InsertOK, Table, PageIds
<1>7. WholeOK'
  BY <1>0, NoneIsNothing, PageBound DEF IndexThrows, disk, Doing, Down, Idle, Known, OpenMetadata, CloseMetadata, TypeOK, CallOK, WholeOK, Whole, DiskOK, MemoryOK, Busy, KnownOK, Expected, CreateOK, InsertOK, FilesOK, Table, Saved, Truncated, PageIds
<1> QED BY <1>1, <1>2, <1>3, <1>4, <1>5, <1>6, <1>7

LEMMA EndInsertKeeps ==
  ASSUME IInv, EndInsert
  PROVE  IInv'
<1> USE DEF IInv
<1>0. call.name \in Name /\ call.name \in dirs
  BY NameOfCall DEF CallOK, EndInsert, Down, Idle, Doing
<1>1. TypeOK'
  BY <1>0, PageBound, NoneIsNothing DEF EndInsert, disk, Doing, Down, Idle, Known, OpenMetadata, CloseMetadata, TypeOK, CallOK, KnownOK, Expected, CallType, Table, Saved, Truncated, IndexState, PageIds
<1>2. CallOK'
  BY <1>0, NoneIsNothing DEF EndInsert, disk, Doing, Down, Idle, Known, OpenMetadata, CloseMetadata, TypeOK, CallOK, KnownOK, Expected
<1>3. KnownOK'
  BY <1>0, NoneIsNothing DEF EndInsert, disk, Doing, Down, Idle, Known, OpenMetadata, CloseMetadata, TypeOK, CallOK, KnownOK, Expected, Table
<1>4. FilesOK'
  BY <1>0, NoneIsNothing DEF EndInsert, disk, Doing, Down, Idle, Known, OpenMetadata, CloseMetadata, TypeOK, CallOK, KnownOK, Expected, FilesOK
<1>5. CreateOK'
  BY <1>0, NoneIsNothing DEF EndInsert, disk, Doing, Down, Idle, Known, OpenMetadata, CloseMetadata, TypeOK, CallOK, CreateOK, FilesOK, Table, Truncated
<1>6. InsertOK'
  BY <1>0, NoneIsNothing, PageBound DEF EndInsert, disk, Doing, Down, Idle, Known, OpenMetadata, CloseMetadata, TypeOK, CallOK, InsertOK, Table, PageIds
<1>7. WholeOK'
  BY <1>0, NoneIsNothing, PageBound DEF EndInsert, disk, Doing, Down, Idle, Known, OpenMetadata, CloseMetadata, TypeOK, CallOK, WholeOK, Whole, DiskOK, MemoryOK, Busy, KnownOK, Expected, CreateOK, InsertOK, FilesOK, Table, Saved, Truncated, PageIds
<1> QED BY <1>1, <1>2, <1>3, <1>4, <1>5, <1>6, <1>7

LEMMA DivideByZeroKeeps ==
  ASSUME IInv, NEW n \in Name, DivideByZero(n)
  PROVE  IInv'
<1> USE DEF IInv
<1>1. TypeOK'
  BY PageBound, NoneIsNothing DEF DivideByZero, disk, Doing, Down, Idle, Known, OpenMetadata, CloseMetadata, TypeOK, CallOK, KnownOK, Expected, CallType, Table, Saved, Truncated, IndexState, PageIds
<1>2. CallOK'
  BY NoneIsNothing DEF DivideByZero, disk, Doing, Down, Idle, Known, OpenMetadata, CloseMetadata, TypeOK, CallOK, KnownOK, Expected
<1>3. KnownOK'
  BY NoneIsNothing DEF DivideByZero, disk, Doing, Down, Idle, Known, OpenMetadata, CloseMetadata, TypeOK, CallOK, KnownOK, Expected, Table
<1>4. FilesOK'
  BY NoneIsNothing DEF DivideByZero, disk, Doing, Down, Idle, Known, OpenMetadata, CloseMetadata, TypeOK, CallOK, KnownOK, Expected, FilesOK
<1>5. CreateOK'
  BY NoneIsNothing DEF DivideByZero, disk, Doing, Down, Idle, Known, OpenMetadata, CloseMetadata, TypeOK, CallOK, CreateOK, FilesOK, Table, Truncated
<1>6. InsertOK'
  BY NoneIsNothing, PageBound DEF DivideByZero, disk, Doing, Down, Idle, Known, OpenMetadata, CloseMetadata, TypeOK, CallOK, InsertOK, Table, PageIds
<1>7. WholeOK'
  BY NoneIsNothing, PageBound DEF DivideByZero, disk, Doing, Down, Idle, Known, OpenMetadata, CloseMetadata, TypeOK, CallOK, WholeOK, Whole, DiskOK, MemoryOK, Busy, KnownOK, Expected, CreateOK, InsertOK, FilesOK, Table, Saved, Truncated, PageIds
<1> QED BY <1>1, <1>2, <1>3, <1>4, <1>5, <1>6, <1>7

LEMMA BeginDropKeeps ==
  ASSUME IInv, NEW n \in Name, BeginDrop(n)
  PROVE  IInv'
<1> USE DEF IInv
<1>1. TypeOK'
  BY PageBound, NoneIsNothing DEF BeginDrop, disk, Doing, Down, Idle, Known, OpenMetadata, CloseMetadata, TypeOK, CallOK, KnownOK, Expected, CallType, Table, Saved, Truncated, IndexState, PageIds
<1>2. CallOK'
  BY NoneIsNothing DEF BeginDrop, disk, Doing, Down, Idle, Known, OpenMetadata, CloseMetadata, TypeOK, CallOK, KnownOK, Expected
<1>3. KnownOK'
  BY NoneIsNothing DEF BeginDrop, disk, Doing, Down, Idle, Known, OpenMetadata, CloseMetadata, TypeOK, CallOK, KnownOK, Expected, Table
<1>4. FilesOK'
  BY NoneIsNothing DEF BeginDrop, disk, Doing, Down, Idle, Known, OpenMetadata, CloseMetadata, TypeOK, CallOK, KnownOK, Expected, FilesOK
<1>5. CreateOK'
  BY NoneIsNothing DEF BeginDrop, disk, Doing, Down, Idle, Known, OpenMetadata, CloseMetadata, TypeOK, CallOK, CreateOK, FilesOK, Table, Truncated
<1>6. InsertOK'
  BY NoneIsNothing, PageBound DEF BeginDrop, disk, Doing, Down, Idle, Known, OpenMetadata, CloseMetadata, TypeOK, CallOK, InsertOK, Table, PageIds
<1>7. WholeOK'
  BY NoneIsNothing, PageBound DEF BeginDrop, disk, Doing, Down, Idle, Known, OpenMetadata, CloseMetadata, TypeOK, CallOK, WholeOK, Whole, DiskOK, MemoryOK, Busy, KnownOK, Expected, CreateOK, InsertOK, FilesOK, Table, Saved, Truncated, PageIds
<1> QED BY <1>1, <1>2, <1>3, <1>4, <1>5, <1>6, <1>7

LEMMA RemoveMetadataKeeps ==
  ASSUME IInv, RemoveMetadata
  PROVE  IInv'
<1> USE DEF IInv
<1>1. TypeOK'
  BY PageBound, NoneIsNothing DEF RemoveMetadata, disk, Doing, Down, Idle, Known, OpenMetadata, CloseMetadata, TypeOK, CallOK, KnownOK, Expected, CallType, Table, Saved, Truncated, IndexState, PageIds
<1>2. CallOK'
  BY NoneIsNothing DEF RemoveMetadata, disk, Doing, Down, Idle, Known, OpenMetadata, CloseMetadata, TypeOK, CallOK, KnownOK, Expected
<1>3. KnownOK'
  BY NoneIsNothing DEF RemoveMetadata, disk, Doing, Down, Idle, Known, OpenMetadata, CloseMetadata, TypeOK, CallOK, KnownOK, Expected, Table
<1>4. FilesOK'
  BY NoneIsNothing DEF RemoveMetadata, disk, Doing, Down, Idle, Known, OpenMetadata, CloseMetadata, TypeOK, CallOK, KnownOK, Expected, FilesOK
<1>5. CreateOK'
  BY NoneIsNothing DEF RemoveMetadata, disk, Doing, Down, Idle, Known, OpenMetadata, CloseMetadata, TypeOK, CallOK, CreateOK, FilesOK, Table, Truncated
<1>6. InsertOK'
  BY NoneIsNothing, PageBound DEF RemoveMetadata, disk, Doing, Down, Idle, Known, OpenMetadata, CloseMetadata, TypeOK, CallOK, InsertOK, Table, PageIds
<1>7. WholeOK'
  BY NoneIsNothing, PageBound DEF RemoveMetadata, disk, Doing, Down, Idle, Known, OpenMetadata, CloseMetadata, TypeOK, CallOK, WholeOK, Whole, DiskOK, MemoryOK, Busy, KnownOK, Expected, CreateOK, InsertOK, FilesOK, Table, Saved, Truncated, PageIds
<1> QED BY <1>1, <1>2, <1>3, <1>4, <1>5, <1>6, <1>7

LEMMA RemovePageKeeps ==
  ASSUME IInv, NEW i \in PageIds, RemovePage(i)
  PROVE  IInv'
<1> USE DEF IInv
<1>1. TypeOK'
  BY PageBound, NoneIsNothing DEF RemovePage, disk, Doing, Down, Idle, Known, OpenMetadata, CloseMetadata, TypeOK, CallOK, KnownOK, Expected, CallType, Table, Saved, Truncated, IndexState, PageIds
<1>2. CallOK'
  BY NoneIsNothing DEF RemovePage, disk, Doing, Down, Idle, Known, OpenMetadata, CloseMetadata, TypeOK, CallOK, KnownOK, Expected
<1>3. KnownOK'
  BY NoneIsNothing DEF RemovePage, disk, Doing, Down, Idle, Known, OpenMetadata, CloseMetadata, TypeOK, CallOK, KnownOK, Expected, Table
<1>4. FilesOK'
  BY NoneIsNothing DEF RemovePage, disk, Doing, Down, Idle, Known, OpenMetadata, CloseMetadata, TypeOK, CallOK, KnownOK, Expected, FilesOK
<1>5. CreateOK'
  BY NoneIsNothing DEF RemovePage, disk, Doing, Down, Idle, Known, OpenMetadata, CloseMetadata, TypeOK, CallOK, CreateOK, FilesOK, Table, Truncated
<1>6. InsertOK'
  BY NoneIsNothing, PageBound DEF RemovePage, disk, Doing, Down, Idle, Known, OpenMetadata, CloseMetadata, TypeOK, CallOK, InsertOK, Table, PageIds
<1>7. WholeOK'
  BY NoneIsNothing, PageBound DEF RemovePage, disk, Doing, Down, Idle, Known, OpenMetadata, CloseMetadata, TypeOK, CallOK, WholeOK, Whole, DiskOK, MemoryOK, Busy, KnownOK, Expected, CreateOK, InsertOK, FilesOK, Table, Saved, Truncated, PageIds
<1> QED BY <1>1, <1>2, <1>3, <1>4, <1>5, <1>6, <1>7

LEMMA RemoveIndexKeeps ==
  ASSUME IInv, RemoveIndex
  PROVE  IInv'
<1> USE DEF IInv
<1>1. TypeOK'
  BY PageBound, NoneIsNothing DEF RemoveIndex, disk, Doing, Down, Idle, Known, OpenMetadata, CloseMetadata, TypeOK, CallOK, KnownOK, Expected, CallType, Table, Saved, Truncated, IndexState, PageIds
<1>2. CallOK'
  BY NoneIsNothing DEF RemoveIndex, disk, Doing, Down, Idle, Known, OpenMetadata, CloseMetadata, TypeOK, CallOK, KnownOK, Expected
<1>3. KnownOK'
  BY NoneIsNothing DEF RemoveIndex, disk, Doing, Down, Idle, Known, OpenMetadata, CloseMetadata, TypeOK, CallOK, KnownOK, Expected, Table
<1>4. FilesOK'
  BY NoneIsNothing DEF RemoveIndex, disk, Doing, Down, Idle, Known, OpenMetadata, CloseMetadata, TypeOK, CallOK, KnownOK, Expected, FilesOK
<1>5. CreateOK'
  BY NoneIsNothing DEF RemoveIndex, disk, Doing, Down, Idle, Known, OpenMetadata, CloseMetadata, TypeOK, CallOK, CreateOK, FilesOK, Table, Truncated
<1>6. InsertOK'
  BY NoneIsNothing, PageBound DEF RemoveIndex, disk, Doing, Down, Idle, Known, OpenMetadata, CloseMetadata, TypeOK, CallOK, InsertOK, Table, PageIds
<1>7. WholeOK'
  BY NoneIsNothing, PageBound DEF RemoveIndex, disk, Doing, Down, Idle, Known, OpenMetadata, CloseMetadata, TypeOK, CallOK, WholeOK, Whole, DiskOK, MemoryOK, Busy, KnownOK, Expected, CreateOK, InsertOK, FilesOK, Table, Saved, Truncated, PageIds
<1> QED BY <1>1, <1>2, <1>3, <1>4, <1>5, <1>6, <1>7

LEMMA EndDropKeeps ==
  ASSUME IInv, EndDrop
  PROVE  IInv'
<1> USE DEF IInv
<1>1. TypeOK'
  BY PageBound, NoneIsNothing DEF EndDrop, disk, Doing, Down, Idle, Known, OpenMetadata, CloseMetadata, TypeOK, CallOK, KnownOK, Expected, CallType, Table, Saved, Truncated, IndexState, PageIds
<1>2. CallOK'
  BY NoneIsNothing DEF EndDrop, disk, Doing, Down, Idle, Known, OpenMetadata, CloseMetadata, TypeOK, CallOK, KnownOK, Expected
<1>3. KnownOK'
  BY NoneIsNothing DEF EndDrop, disk, Doing, Down, Idle, Known, OpenMetadata, CloseMetadata, TypeOK, CallOK, KnownOK, Expected, Table
<1>4. FilesOK'
  BY NoneIsNothing DEF EndDrop, disk, Doing, Down, Idle, Known, OpenMetadata, CloseMetadata, TypeOK, CallOK, KnownOK, Expected, FilesOK
<1>5. CreateOK'
  BY NoneIsNothing DEF EndDrop, disk, Doing, Down, Idle, Known, OpenMetadata, CloseMetadata, TypeOK, CallOK, CreateOK, FilesOK, Table, Truncated
<1>6. InsertOK'
  BY NoneIsNothing, PageBound DEF EndDrop, disk, Doing, Down, Idle, Known, OpenMetadata, CloseMetadata, TypeOK, CallOK, InsertOK, Table, PageIds
<1>7. WholeOK'
  BY NoneIsNothing, PageBound DEF EndDrop, disk, Doing, Down, Idle, Known, OpenMetadata, CloseMetadata, TypeOK, CallOK, WholeOK, Whole, DiskOK, MemoryOK, Busy, KnownOK, Expected, CreateOK, InsertOK, FilesOK, Table, Saved, Truncated, PageIds
<1> QED BY <1>1, <1>2, <1>3, <1>4, <1>5, <1>6, <1>7

LEMMA DropFailsKeeps ==
  ASSUME IInv, DropFails
  PROVE  IInv'
<1> USE DEF IInv
<1>1. TypeOK'
  BY PageBound, NoneIsNothing DEF DropFails, disk, Doing, Down, Idle, Known, OpenMetadata, CloseMetadata, TypeOK, CallOK, KnownOK, Expected, CallType, Table, Saved, Truncated, IndexState, PageIds
<1>2. CallOK'
  BY NoneIsNothing DEF DropFails, disk, Doing, Down, Idle, Known, OpenMetadata, CloseMetadata, TypeOK, CallOK, KnownOK, Expected
<1>3. KnownOK'
  BY NoneIsNothing DEF DropFails, disk, Doing, Down, Idle, Known, OpenMetadata, CloseMetadata, TypeOK, CallOK, KnownOK, Expected, Table
<1>4. FilesOK'
  BY NoneIsNothing DEF DropFails, disk, Doing, Down, Idle, Known, OpenMetadata, CloseMetadata, TypeOK, CallOK, KnownOK, Expected, FilesOK
<1>5. CreateOK'
  BY NoneIsNothing DEF DropFails, disk, Doing, Down, Idle, Known, OpenMetadata, CloseMetadata, TypeOK, CallOK, CreateOK, FilesOK, Table, Truncated
<1>6. InsertOK'
  BY NoneIsNothing, PageBound DEF DropFails, disk, Doing, Down, Idle, Known, OpenMetadata, CloseMetadata, TypeOK, CallOK, InsertOK, Table, PageIds
<1>7. WholeOK'
  BY NoneIsNothing, PageBound DEF DropFails, disk, Doing, Down, Idle, Known, OpenMetadata, CloseMetadata, TypeOK, CallOK, WholeOK, Whole, DiskOK, MemoryOK, Busy, KnownOK, Expected, CreateOK, InsertOK, FilesOK, Table, Saved, Truncated, PageIds
<1> QED BY <1>1, <1>2, <1>3, <1>4, <1>5, <1>6, <1>7

LEMMA StopKeeps ==
  ASSUME IInv, Stop
  PROVE  IInv'
<1> USE DEF IInv
<1>1. TypeOK'
  BY PageBound, NoneIsNothing DEF Stop, AtRisk, disk, Doing, Down, Idle, Known, OpenMetadata, CloseMetadata, TypeOK, CallOK, KnownOK, Expected, CallType, Table, Saved, Truncated, IndexState, PageIds
<1>2. CallOK'
  BY NoneIsNothing DEF Stop, AtRisk, disk, Doing, Down, Idle, Known, OpenMetadata, CloseMetadata, TypeOK, CallOK, KnownOK, Expected
<1>3. KnownOK'
  BY NoneIsNothing DEF Stop, AtRisk, disk, Doing, Down, Idle, Known, OpenMetadata, CloseMetadata, TypeOK, CallOK, KnownOK, Expected, Table
<1>4. FilesOK'
  BY NoneIsNothing DEF Stop, AtRisk, disk, Doing, Down, Idle, Known, OpenMetadata, CloseMetadata, TypeOK, CallOK, KnownOK, Expected, FilesOK
<1>5. CreateOK'
  BY NoneIsNothing DEF Stop, AtRisk, disk, Doing, Down, Idle, Known, OpenMetadata, CloseMetadata, TypeOK, CallOK, CreateOK, FilesOK, Table, Truncated
<1>6. InsertOK'
  BY NoneIsNothing, PageBound DEF Stop, AtRisk, disk, Doing, Down, Idle, Known, OpenMetadata, CloseMetadata, TypeOK, CallOK, InsertOK, Table, PageIds
<1>7. WholeOK'
  BY NoneIsNothing, PageBound DEF Stop, AtRisk, disk, Doing, Down, Idle, Known, OpenMetadata, CloseMetadata, TypeOK, CallOK, WholeOK, Whole, DiskOK, MemoryOK, Busy, KnownOK, Expected, CreateOK, InsertOK, FilesOK, Table, Saved, Truncated, PageIds
<1> QED BY <1>1, <1>2, <1>3, <1>4, <1>5, <1>6, <1>7

LEMMA InvInit == ASSUME Init PROVE IInv
BY PageBound, NoneIsNothing
   DEF Init, IInv, TypeOK, CallOK, KnownOK, Expected, Known, FilesOK, CreateOK, InsertOK, WholeOK, Whole,
       Doing, Down, CallType, IndexState

LEMMA RunningKeeps == ASSUME IInv, Running PROVE IInv'
BY ReadTableKeeps, ReadThrowsKeeps, SaveTableKeeps, EndLoadKeeps, EndSaveKeeps, EndStartUpKeeps,
   MakeDirectoryKeeps, MakeRootKeeps, OpenIndexKeeps, MakeIndexKeeps, OpenNewKeeps, EndCreateKeeps,
   OpenGrownKeeps, CloseGrownKeeps, CreatePageKeeps, PlaceInNewPageKeeps, PlaceFailsKeeps,
   IndexRowKeeps, IndexSplitsKeeps, IndexThrowsKeeps, EndInsertKeeps, RemoveMetadataKeeps, RemovePageKeeps,
   RemoveIndexKeeps, EndDropKeeps, Zenon DEF Running

LEMMA StatementsKeep == ASSUME IInv, Statements PROVE IInv'
BY BeginCreateKeeps, InsertRowKeeps, BeginGrowKeeps, DivideByZeroKeeps, BeginDropKeeps, Zenon
   DEF Statements

LEMMA InvNext == ASSUME IInv, [Next]_vars PROVE IInv'
<1>1. CASE UNCHANGED vars
  BY <1>1 DEF vars, IInv, TypeOK, CallOK, KnownOK, Expected, Known, FilesOK, CreateOK, InsertOK, WholeOK,
              Whole, DiskOK, MemoryOK, Busy
<1>2. CASE Next
  BY <1>2, RunningKeeps, StatementsKeep, DropFailsKeeps, StartUpKeeps, StopKeeps, Zenon DEF Next
<1> QED BY <1>1, <1>2

LEMMA InvHolds == Spec => []IInv
BY InvInit, InvNext, PTL DEF Spec

(***************************************************************************)
(* The properties.                                                         *)
(***************************************************************************)

(* Every variable has its type, in every history of statements and stops.  *)
THEOREM TypeCorrect == Spec => []TypeOK
<1>1. IInv => TypeOK
  BY DEF IInv
<1> QED BY <1>1, InvHolds, PTL

(* However many tables there are and wherever the program is stopped, a    *)
(* table that no stop caught half done is whole on disk: run_create,       *)
(* run_drop and write_table_metadata leave only the table they work on in  *)
(* a state start-up cannot read, and an insert that stops between its page *)
(* and its index leaves a page without an entry, never an entry without a  *)
(* page.                                                                   *)
THEOREM OthersStayWhole == Spec => []WholeTables
<1>1. ASSUME IInv PROVE WholeTables
  BY <1>1 DEF IInv, WholeOK, DiskOK, Busy, WholeTables
<1> QED BY <1>1, InvHolds, PTL

(* Between statements Engine::tables has exactly the tables with a         *)
(* directory, and of a whole one what start-up would read.                 *)
THEOREM MemoryIsDisk == Spec => []MemoryMatchesDisk
<1>1. ASSUME IInv, call = Idle, NEW n \in Name
      PROVE  /\ Known(n) <=> n \in dirs
             /\ Whole(n) => tables[n] = [cols |-> meta[n].cols, pages |-> meta[n].pages, indexed |-> TRUE]
             /\ n \notin dirs => meta[n] = None /\ pages[n] = {} /\ index[n] = None
  <2>1. Known(n) <=> n \in dirs
    BY <1>1 DEF IInv, KnownOK, Expected, Idle, Doing
  <2>2. ASSUME Whole(n)
        PROVE  tables[n] = [cols |-> meta[n].cols, pages |-> meta[n].pages, indexed |-> TRUE]
    <3>1. tables[n] \in Table /\ Known(n)
      BY <2>1, <2>2, <1>1, KnownTable DEF Whole, IInv
    <3>2. meta[n] # Truncated
      BY <1>1, <2>2, NoneIsNothing DEF IInv, WholeOK, DiskOK, Busy, Idle, Doing, Saved, Truncated
    <3>3. tables[n].cols = meta[n].cols /\ tables[n].pages = meta[n].pages /\ tables[n].indexed = TRUE
      BY <1>1, <2>2, <3>1, <3>2 DEF IInv, WholeOK, MemoryOK, Busy, Idle, Doing, Table
    <3> QED BY <3>1, <3>3 DEF Table
  <2>3. n \notin dirs => meta[n] = None /\ pages[n] = {} /\ index[n] = None
    BY <1>1 DEF IInv, FilesOK
  <2> QED BY <2>1, <2>2, <2>3
<1>2. IInv => MemoryMatchesDisk
  BY <1>1 DEF MemoryMatchesDisk
<1> QED BY <1>2, InvHolds, PTL

(* Only a table a stop has spoilt can end the program or keep it from      *)
(* starting.                                                               *)
THEOREM OnlySpoiltKill == Spec => OnlySpoiltTablesKill
<1>1. ASSUME IInv, NEW n \in Name, DivideByZero(n) \/ ReadThrows(n)
      PROVE  n \in spoilt
  <2>1. CASE DivideByZero(n)
    BY <1>1, <2>1, ColumnLists
       DEF DivideByZero, IInv, KnownOK, Expected, WholeOK, Whole, MemoryOK, Idle, Doing
  <2>2. CASE ReadThrows(n)
    BY <1>1, <2>2 DEF ReadThrows, IInv, CallOK, WholeOK, Whole, DiskOK, Busy, Down, Idle, Doing
  <2> QED BY <1>1, <2>1, <2>2
<1>2. IInv => \A n \in Name : DivideByZero(n) \/ ReadThrows(n) => n \in spoilt
  BY <1>1
<1> QED BY <1>2, InvHolds, PTL DEF OnlySpoiltTablesKill

(***************************************************************************)
(* The tables a user sees.                                                 *)
(***************************************************************************)
Live     == {n \in Name : Whole(n)}
Entry(n) == [cols    |-> IF meta[n] = Truncated THEN tables[n].cols ELSE meta[n].cols,
             pages   |-> pages[n],
             indexed |-> index[n] # "empty"]

LEMMA DatabaseIs == /\ Database = [n \in Live |-> Entry(n)]
                    /\ DOMAIN Database = Live
                    /\ \A n \in Live : Database[n] = Entry(n)
BY Zenon DEF Database, Live, Entry

LEMMA DatabaseAt == ASSUME NEW n \in Live PROVE n \in DOMAIN Database /\ Database[n] = Entry(n)
BY Zenon DEF Database, Live, Entry

LEMMA DatabaseAfter == Database' = [n \in Live' |-> Entry(n)']
BY Zenon DEF Database, Live, Entry, Whole

LEMMA Unseen ==
  ASSUME Live' = Live, \A n \in Live : Entry(n)' = Entry(n)
  PROVE  Database' = Database
<1> HIDE DEF Live
<1> DEFINE Old(n) == Entry(n)
           New(n) == Entry(n)'
<1>1. Database = [n \in Live |-> Old(n)] /\ Database' = [n \in Live |-> New(n)]
  BY DatabaseIs, DatabaseAfter
<1>2. \A n \in Live : New(n) = Old(n)
  OBVIOUS
<1> HIDE DEF Old, New
<1> QED BY <1>1, <1>2

LEMMA Gone ==
  ASSUME NEW n \in Live, Live' = Live \ {n}, \A m \in Live \ {n} : Entry(m)' = Entry(m)
  PROVE  Map!Drop(n)
<1> DEFINE Old(m) == Entry(m)
           New(m) == Entry(m)'
<1>1. Database' = [m \in Live \ {n} |-> New(m)]
  BY DatabaseAfter
<1>2. DOMAIN Database = Live /\ \A m \in Live : Database[m] = Old(m)
  BY DatabaseIs
<1>3. \A m \in Live \ {n} : New(m) = Old(m)
  OBVIOUS
<1> HIDE DEF Old, New
<1>4. Database' = [m \in Live \ {n} |-> Database[m]]
  BY <1>1, <1>2, <1>3
<1> QED BY <1>2, <1>4 DEF Map!Drop, Map!Without

LEMMA Replaced ==
  ASSUME NEW n \in Name, Live' = Live \cup {n}, \A m \in Live \ {n} : Entry(m)' = Entry(m)
  PROVE  Database' = Map!With(n, Entry(n)')
<1> DEFINE Old(m) == Entry(m)
           New(m) == Entry(m)'
           e == Entry(n)'
<1>1. Database' = [m \in Live \cup {n} |-> New(m)]
  BY DatabaseAfter
<1>2. DOMAIN Database = Live /\ \A m \in Live : Database[m] = Old(m)
  BY DatabaseIs
<1>3. (\A m \in Live \ {n} : New(m) = Old(m)) /\ New(n) = e
  OBVIOUS
<1> HIDE DEF Old, New, e
<1>4. Database' = [m \in Live \cup {n} |-> IF m = n THEN e ELSE Database[m]]
  BY <1>1, <1>2, <1>3
<1>5. Database' = Map!With(n, e)
  BY <1>2, <1>4 DEF Map!With
<1> QED BY <1>5 DEF e

LEMMA StartUpUnseen ==
  ASSUME IInv, StartUp
  PROVE  Database' = Database
<1> USE DEF IInv, StartUp, Doing, Down, Idle
<1>1. Live' = Live
  BY NoneIsNothing DEF Live, Whole, CallOK, KnownOK, Expected, TypeOK, disk
<1>2. \A m \in Live : Entry(m)' = Entry(m)
  BY NoneIsNothing DEF Live, Whole, Entry, CallOK, WholeOK, DiskOK, MemoryOK, KnownOK, Expected, Known, Busy, TypeOK, disk, OpenMetadata, CloseMetadata, Truncated, Table, Saved, TakesRows
<1> QED BY <1>1, <1>2, Unseen

LEMMA ReadTableUnseen ==
  ASSUME IInv, NEW n \in Name, ReadTable(n)
  PROVE  Database' = Database
<1> USE DEF IInv, ReadTable, Doing, Down, Idle
<1>1. Live' = Live
  BY NoneIsNothing DEF Live, Whole, CallOK, KnownOK, Expected, TypeOK, disk
<1>2. \A m \in Live : Entry(m)' = Entry(m)
  BY NoneIsNothing DEF Live, Whole, Entry, CallOK, WholeOK, DiskOK, MemoryOK, KnownOK, Expected, Known, Busy, TypeOK, disk, OpenMetadata, CloseMetadata, Truncated, Table, Saved, TakesRows
<1> QED BY <1>1, <1>2, Unseen

LEMMA ReadThrowsUnseen ==
  ASSUME IInv, NEW n \in Name, ReadThrows(n)
  PROVE  Database' = Database
<1> USE DEF IInv, ReadThrows, Doing, Down, Idle
<1>1. Live' = Live
  BY NoneIsNothing DEF Live, Whole, CallOK, KnownOK, Expected, TypeOK, disk
<1>2. \A m \in Live : Entry(m)' = Entry(m)
  BY NoneIsNothing DEF Live, Whole, Entry, CallOK, WholeOK, DiskOK, MemoryOK, KnownOK, Expected, Known, Busy, TypeOK, disk, OpenMetadata, CloseMetadata, Truncated, Table, Saved, TakesRows
<1> QED BY <1>1, <1>2, Unseen

LEMMA EndLoadUnseen ==
  ASSUME IInv, EndLoad
  PROVE  Database' = Database
<1> USE DEF IInv, EndLoad, Doing, Down, Idle
<1>1. Live' = Live
  BY NoneIsNothing DEF Live, Whole, CallOK, KnownOK, Expected, TypeOK, disk
<1>2. \A m \in Live : Entry(m)' = Entry(m)
  BY NoneIsNothing DEF Live, Whole, Entry, CallOK, WholeOK, DiskOK, MemoryOK, KnownOK, Expected, Known, Busy, TypeOK, disk, OpenMetadata, CloseMetadata, Truncated, Table, Saved, TakesRows
<1> QED BY <1>1, <1>2, Unseen

LEMMA SaveTableUnseen ==
  ASSUME IInv, NEW n \in Name, SaveTable(n)
  PROVE  Database' = Database
<1> USE DEF IInv, SaveTable, Doing, Down, Idle
<1>1. Live' = Live
  BY NoneIsNothing DEF Live, Whole, CallOK, KnownOK, Expected, TypeOK, disk
<1>2. \A m \in Live : Entry(m)' = Entry(m)
  BY NoneIsNothing DEF Live, Whole, Entry, CallOK, WholeOK, DiskOK, MemoryOK, KnownOK, Expected, Known, Busy, TypeOK, disk, OpenMetadata, CloseMetadata, Truncated, Table, Saved, TakesRows
<1> QED BY <1>1, <1>2, Unseen

LEMMA EndSaveUnseen ==
  ASSUME IInv, EndSave
  PROVE  Database' = Database
<1> USE DEF IInv, EndSave, Doing, Down, Idle
<1>1. Live' = Live
  BY NoneIsNothing DEF Live, Whole, CallOK, KnownOK, Expected, TypeOK, disk
<1>2. \A m \in Live : Entry(m)' = Entry(m)
  BY NoneIsNothing DEF Live, Whole, Entry, CallOK, WholeOK, DiskOK, MemoryOK, KnownOK, Expected, Known, Busy, TypeOK, disk, OpenMetadata, CloseMetadata, Truncated, Table, Saved, TakesRows
<1> QED BY <1>1, <1>2, Unseen

LEMMA EndStartUpUnseen ==
  ASSUME IInv, EndStartUp
  PROVE  Database' = Database
<1> USE DEF IInv, EndStartUp, Doing, Down, Idle
<1>1. Live' = Live
  BY NoneIsNothing DEF Live, Whole, CallOK, KnownOK, Expected, TypeOK, disk
<1>2. \A m \in Live : Entry(m)' = Entry(m)
  BY NoneIsNothing DEF Live, Whole, Entry, CallOK, WholeOK, DiskOK, MemoryOK, KnownOK, Expected, Known, Busy, TypeOK, disk, OpenMetadata, CloseMetadata, Truncated, Table, Saved, TakesRows
<1> QED BY <1>1, <1>2, Unseen

LEMMA BeginCreateUnseen ==
  ASSUME IInv, NEW n \in Name, NEW c \in Columns, BeginCreate(n, c)
  PROVE  Database' = Database
<1> USE DEF IInv, BeginCreate, Doing, Down, Idle
<1>1. Live' = Live
  BY NoneIsNothing DEF Live, Whole, CallOK, KnownOK, Expected, TypeOK, disk
<1>2. \A m \in Live : Entry(m)' = Entry(m)
  BY NoneIsNothing DEF Live, Whole, Entry, CallOK, WholeOK, DiskOK, MemoryOK, KnownOK, Expected, Known, Busy, TypeOK, disk, OpenMetadata, CloseMetadata, Truncated, Table, Saved, TakesRows
<1> QED BY <1>1, <1>2, Unseen

LEMMA MakeDirectoryUnseen ==
  ASSUME IInv, MakeDirectory
  PROVE  Database' = Database
<1> USE DEF IInv, MakeDirectory, Doing, Down, Idle
<1>1. Live' = Live
  BY NoneIsNothing DEF Live, Whole, CallOK, KnownOK, Expected, TypeOK, disk
<1>2. \A m \in Live : Entry(m)' = Entry(m)
  BY NoneIsNothing DEF Live, Whole, Entry, CallOK, WholeOK, DiskOK, MemoryOK, KnownOK, Expected, Known, Busy, TypeOK, disk, OpenMetadata, CloseMetadata, Truncated, Table, Saved, TakesRows
<1> QED BY <1>1, <1>2, Unseen

LEMMA MakeRootUnseen ==
  ASSUME IInv, MakeRoot
  PROVE  Database' = Database
<1> USE DEF IInv, MakeRoot, Doing, Down, Idle
<1>1. Live' = Live
  BY NoneIsNothing DEF Live, Whole, CallOK, KnownOK, Expected, TypeOK, disk
<1>2. \A m \in Live : Entry(m)' = Entry(m)
  BY NoneIsNothing DEF Live, Whole, Entry, CallOK, InsertOK, WholeOK, DiskOK, MemoryOK, KnownOK, Expected, Known, Busy, TypeOK, disk, OpenMetadata, CloseMetadata, Truncated, Table, Saved
<1> QED BY <1>1, <1>2, Unseen

LEMMA OpenIndexUnseen ==
  ASSUME IInv, OpenIndex
  PROVE  Database' = Database
<1> USE DEF IInv, OpenIndex, Doing, Down, Idle
<1>1. Live' = Live
  BY NoneIsNothing DEF Live, Whole, CallOK, KnownOK, Expected, TypeOK, disk
<1>2. \A m \in Live : Entry(m)' = Entry(m)
  BY NoneIsNothing DEF Live, Whole, Entry, CallOK, WholeOK, DiskOK, MemoryOK, KnownOK, Expected, Known, Busy, TypeOK, disk, OpenMetadata, CloseMetadata, Truncated, Table, Saved, TakesRows
<1> QED BY <1>1, <1>2, Unseen

LEMMA MakeIndexUnseen ==
  ASSUME IInv, MakeIndex
  PROVE  Database' = Database
<1> USE DEF IInv, MakeIndex, Doing, Down, Idle
<1>1. Live' = Live
  BY NoneIsNothing DEF Live, Whole, CallOK, KnownOK, Expected, TypeOK, disk
<1>2. \A m \in Live : Entry(m)' = Entry(m)
  BY NoneIsNothing DEF Live, Whole, Entry, CallOK, WholeOK, DiskOK, MemoryOK, KnownOK, Expected, Known, Busy, TypeOK, disk, OpenMetadata, CloseMetadata, Truncated, Table, Saved, TakesRows
<1> QED BY <1>1, <1>2, Unseen

LEMMA OpenNewUnseen ==
  ASSUME IInv, OpenNew
  PROVE  Database' = Database
<1> USE DEF IInv, OpenNew, Doing, Down, Idle
<1>1. Live' = Live
  BY NoneIsNothing DEF Live, Whole, CallOK, KnownOK, Expected, TypeOK, disk
<1>2. \A m \in Live : Entry(m)' = Entry(m)
  BY NoneIsNothing DEF Live, Whole, Entry, CallOK, WholeOK, DiskOK, MemoryOK, KnownOK, Expected, Known, Busy, TypeOK, disk, OpenMetadata, CloseMetadata, Truncated, Table, Saved, TakesRows
<1> QED BY <1>1, <1>2, Unseen

LEMMA BeginGrowUnseen ==
  ASSUME IInv, NEW n \in Name, BeginGrow(n)
  PROVE  Database' = Database
<1> USE DEF IInv, BeginGrow, Doing, Down, Idle
<1>1. Live' = Live
  BY NoneIsNothing DEF Live, Whole, CallOK, KnownOK, Expected, TypeOK, disk
<1>2. \A m \in Live : Entry(m)' = Entry(m)
  BY NoneIsNothing DEF Live, Whole, Entry, CallOK, WholeOK, DiskOK, MemoryOK, KnownOK, Expected, Known, Busy, TypeOK, disk, OpenMetadata, CloseMetadata, Truncated, Table, Saved, TakesRows
<1> QED BY <1>1, <1>2, Unseen

LEMMA OpenGrownUnseen ==
  ASSUME IInv, OpenGrown
  PROVE  Database' = Database
<1> USE DEF IInv, OpenGrown, Doing, Down, Idle
<1>1. Live' = Live
  BY NoneIsNothing DEF Live, Whole, CallOK, KnownOK, Expected, TypeOK, disk
<1>2. \A m \in Live : Entry(m)' = Entry(m)
  BY NoneIsNothing DEF Live, Whole, Entry, CallOK, WholeOK, DiskOK, MemoryOK, KnownOK, Expected, Known, Busy, TypeOK, disk, OpenMetadata, CloseMetadata, Truncated, Table, Saved, TakesRows
<1> QED BY <1>1, <1>2, Unseen

LEMMA CloseGrownUnseen ==
  ASSUME IInv, CloseGrown
  PROVE  Database' = Database
<1> USE DEF IInv, CloseGrown, Doing, Down, Idle
<1>1. Live' = Live
  BY NoneIsNothing DEF Live, Whole, CallOK, KnownOK, Expected, TypeOK, disk
<1>2. \A m \in Live : Entry(m)' = Entry(m)
  BY NoneIsNothing DEF Live, Whole, Entry, CallOK, WholeOK, DiskOK, MemoryOK, KnownOK, Expected, Known, Busy, TypeOK, disk, OpenMetadata, CloseMetadata, Truncated, Table, Saved, TakesRows
<1> QED BY <1>1, <1>2, Unseen

LEMMA PlaceInNewPageUnseen ==
  ASSUME IInv, PlaceInNewPage
  PROVE  Database' = Database
<1> USE DEF IInv, PlaceInNewPage, Doing, Down, Idle
<1>1. Live' = Live
  BY NoneIsNothing DEF Live, Whole, CallOK, KnownOK, Expected, TypeOK, disk
<1>2. \A m \in Live : Entry(m)' = Entry(m)
  BY NoneIsNothing DEF Live, Whole, Entry, CallOK, InsertOK, WholeOK, DiskOK, MemoryOK, KnownOK, Expected, Known, Busy, TypeOK, disk, OpenMetadata, CloseMetadata, Truncated, Table, Saved
<1> QED BY <1>1, <1>2, Unseen

LEMMA PlaceFailsUnseen ==
  ASSUME IInv, PlaceFails
  PROVE  Database' = Database
<1> USE DEF IInv, PlaceFails, Doing, Down, Idle
<1>1. Live' = Live
  BY NoneIsNothing DEF Live, Whole, CallOK, KnownOK, Expected, TypeOK, disk
<1>2. \A m \in Live : Entry(m)' = Entry(m)
  BY NoneIsNothing DEF Live, Whole, Entry, CallOK, InsertOK, WholeOK, DiskOK, MemoryOK, KnownOK, Expected, Known, Busy, TypeOK, disk, OpenMetadata, CloseMetadata, Truncated, Table, Saved
<1> QED BY <1>1, <1>2, Unseen

LEMMA IndexSplitsUnseen ==
  ASSUME IInv, IndexSplits
  PROVE  Database' = Database
<1> USE DEF IInv, IndexSplits, Doing, Down, Idle
<1>1. Live' = Live
  BY NoneIsNothing DEF Live, Whole, CallOK, KnownOK, Expected, TypeOK, disk
<1>2. \A m \in Live : Entry(m)' = Entry(m)
  BY NoneIsNothing DEF Live, Whole, Entry, CallOK, InsertOK, WholeOK, DiskOK, MemoryOK, KnownOK, Expected, Known, Busy, TypeOK, disk, OpenMetadata, CloseMetadata, Truncated, Table, Saved
<1> QED BY <1>1, <1>2, Unseen

LEMMA IndexThrowsUnseen ==
  ASSUME IInv, IndexThrows
  PROVE  Database' = Database
<1> USE DEF IInv, IndexThrows, Doing, Down, Idle
<1>1. Live' = Live
  BY NoneIsNothing DEF Live, Whole, CallOK, KnownOK, Expected, TypeOK, disk
<1>2. \A m \in Live : Entry(m)' = Entry(m)
  BY NoneIsNothing DEF Live, Whole, Entry, CallOK, InsertOK, WholeOK, DiskOK, MemoryOK, KnownOK, Expected, Known, Busy, TypeOK, disk, OpenMetadata, CloseMetadata, Truncated, Table, Saved
<1> QED BY <1>1, <1>2, Unseen

LEMMA EndInsertUnseen ==
  ASSUME IInv, EndInsert
  PROVE  Database' = Database
<1> USE DEF IInv, EndInsert, Doing, Down, Idle
<1>1. Live' = Live
  BY NoneIsNothing DEF Live, Whole, CallOK, KnownOK, Expected, TypeOK, disk
<1>2. \A m \in Live : Entry(m)' = Entry(m)
  BY NoneIsNothing DEF Live, Whole, Entry, CallOK, InsertOK, WholeOK, DiskOK, MemoryOK, KnownOK, Expected, Known, Busy, TypeOK, disk, OpenMetadata, CloseMetadata, Truncated, Table, Saved, TakesRows
<1> QED BY <1>1, <1>2, Unseen

LEMMA DivideByZeroUnseen ==
  ASSUME IInv, NEW n \in Name, DivideByZero(n)
  PROVE  Database' = Database
<1> USE DEF IInv, DivideByZero, Doing, Down, Idle
<1>1. Live' = Live
  BY NoneIsNothing DEF Live, Whole, CallOK, KnownOK, Expected, TypeOK, disk
<1>2. \A m \in Live : Entry(m)' = Entry(m)
  BY NoneIsNothing DEF Live, Whole, Entry, CallOK, WholeOK, DiskOK, MemoryOK, KnownOK, Expected, Known, Busy, TypeOK, disk, OpenMetadata, CloseMetadata, Truncated, Table, Saved, TakesRows
<1> QED BY <1>1, <1>2, Unseen

LEMMA RemoveMetadataUnseen ==
  ASSUME IInv, RemoveMetadata
  PROVE  Database' = Database
<1> USE DEF IInv, RemoveMetadata, Doing, Down, Idle
<1>1. Live' = Live
  BY NoneIsNothing DEF Live, Whole, CallOK, KnownOK, Expected, TypeOK, disk
<1>2. \A m \in Live : Entry(m)' = Entry(m)
  BY NoneIsNothing DEF Live, Whole, Entry, CallOK, WholeOK, DiskOK, MemoryOK, KnownOK, Expected, Known, Busy, TypeOK, disk, OpenMetadata, CloseMetadata, Truncated, Table, Saved, TakesRows
<1> QED BY <1>1, <1>2, Unseen

LEMMA RemovePageUnseen ==
  ASSUME IInv, NEW i \in PageIds, RemovePage(i)
  PROVE  Database' = Database
<1> USE DEF IInv, RemovePage, Doing, Down, Idle
<1>1. Live' = Live
  BY NoneIsNothing DEF Live, Whole, CallOK, KnownOK, Expected, TypeOK, disk
<1>2. \A m \in Live : Entry(m)' = Entry(m)
  BY NoneIsNothing DEF Live, Whole, Entry, CallOK, WholeOK, DiskOK, MemoryOK, KnownOK, Expected, Known, Busy, TypeOK, disk, OpenMetadata, CloseMetadata, Truncated, Table, Saved, TakesRows
<1> QED BY <1>1, <1>2, Unseen

LEMMA RemoveIndexUnseen ==
  ASSUME IInv, RemoveIndex
  PROVE  Database' = Database
<1> USE DEF IInv, RemoveIndex, Doing, Down, Idle
<1>1. Live' = Live
  BY NoneIsNothing DEF Live, Whole, CallOK, KnownOK, Expected, TypeOK, disk
<1>2. \A m \in Live : Entry(m)' = Entry(m)
  BY NoneIsNothing DEF Live, Whole, Entry, CallOK, WholeOK, DiskOK, MemoryOK, KnownOK, Expected, Known, Busy, TypeOK, disk, OpenMetadata, CloseMetadata, Truncated, Table, Saved, TakesRows
<1> QED BY <1>1, <1>2, Unseen

LEMMA EndDropUnseen ==
  ASSUME IInv, EndDrop
  PROVE  Database' = Database
<1> USE DEF IInv, EndDrop, Doing, Down, Idle
<1>1. Live' = Live
  BY NoneIsNothing DEF Live, Whole, CallOK, KnownOK, Expected, TypeOK, disk
<1>2. \A m \in Live : Entry(m)' = Entry(m)
  BY NoneIsNothing DEF Live, Whole, Entry, CallOK, WholeOK, DiskOK, MemoryOK, KnownOK, Expected, Known, Busy, TypeOK, disk, OpenMetadata, CloseMetadata, Truncated, Table, Saved, TakesRows
<1> QED BY <1>1, <1>2, Unseen

LEMMA DropFailsUnseen ==
  ASSUME IInv, DropFails
  PROVE  Database' = Database
<1> USE DEF IInv, DropFails, Doing, Down, Idle
<1>1. Live' = Live
  BY NoneIsNothing DEF Live, Whole, CallOK, KnownOK, Expected, TypeOK, disk
<1>2. \A m \in Live : Entry(m)' = Entry(m)
  BY NoneIsNothing DEF Live, Whole, Entry, CallOK, WholeOK, DiskOK, MemoryOK, KnownOK, Expected, Known, Busy, TypeOK, disk, OpenMetadata, CloseMetadata, Truncated, Table, Saved, TakesRows
<1> QED BY <1>1, <1>2, Unseen

(***************************************************************************)
(* The other steps.                                                        *)
(***************************************************************************)
LEMMA PageSeen ==
  ASSUME IInv, NEW n \in Name, NEW i \in PageIds, n \in dirs,
         \/ call = Idle
         \/ call.op = "insert" /\ call.name = n /\ call.step = "page",
         pages' = [pages EXCEPT ![n] = @ \cup {i}],
         call'.op = "insert", UNCHANGED <<dirs, meta, index, tables, spoilt>>
  PROVE  Map!MapNext \/ Database' = Database
<1> USE DEF IInv, Doing, Down, Idle
<1>1. Live' = Live
  BY NoneIsNothing DEF Live, Whole
<1>2. \A m \in Live \ {n} : Entry(m)' = Entry(m)
  BY DEF Live, Whole, Entry, TypeOK
<1>3. CASE n \notin Live
  BY <1>1, <1>2, <1>3, Unseen
<1>4. CASE n \in Live
  <2>1. Database' = Map!With(n, Entry(n)')
    BY <1>1, <1>2, <1>4, Replaced
  <2>2. pages'[n] = pages[n] \cup {i}
    BY DEF TypeOK
  <2>3. Entry(n)' = [Database[n] EXCEPT !.pages = @ \cup {i}]
    <3>1. Database[n] = Entry(n)
      BY <1>4, DatabaseAt
    <3> DEFINE cols == IF meta[n] = Truncated THEN tables[n].cols ELSE meta[n].cols
               is   == index[n] # "empty"
    <3>2. Entry(n) = [cols |-> cols, pages |-> pages[n], indexed |-> is]
      BY Zenon DEF Entry
    <3>3. Entry(n)' = [cols |-> cols, pages |-> pages[n] \cup {i}, indexed |-> is]
      BY <2>2, Zenon DEF Entry
    <3> HIDE DEF cols, is
    <3> QED BY <3>1, <3>2, <3>3
  <2>4. Map!AddPage(n, i)
    BY <1>4, <2>1, <2>3, DatabaseIs DEF Map!AddPage
  <2> QED BY <2>4 DEF Map!MapNext
<1> QED BY <1>3, <1>4

LEMMA InsertRowSeen ==
  ASSUME IInv, NEW n \in Name, NEW i \in PageIds, InsertRow(n, i)
  PROVE  Map!MapNext \/ Database' = Database
<1>1. call = Idle /\ n \in dirs
  BY DEF InsertRow, TakesRows, IInv, KnownOK, Expected, Idle, Doing
<1> QED BY <1>1, PageSeen DEF InsertRow, Doing

LEMMA CreatePageSeen ==
  ASSUME IInv, CreatePage
  PROVE  Map!MapNext \/ Database' = Database
<1>1. call.op = "insert" /\ call.step = "page" /\ call.name \in Name /\ call.name \in dirs
  BY DEF CreatePage, IInv, CallOK, TypeOK, Down, Idle, Doing
<1>2. tables[call.name] \in Table
  BY <1>1, KnownTable DEF IInv, KnownOK, Expected
<1>3. tables[call.name].pages - 1 \in PageIds
  BY <1>1, <1>2, PageBound DEF IInv, InsertOK, Table, PageIds
<1>4. call'.op = "insert"
  BY <1>1 DEF CreatePage, IInv, TypeOK, CallType
<1> QED BY <1>1, <1>3, <1>4, PageSeen DEF CreatePage

LEMMA IndexRowSeen ==
  ASSUME IInv, IndexRow
  PROVE  Map!MapNext \/ Database' = Database
<1> USE DEF IInv, IndexRow, Doing, Down, Idle
<1>0. PICK n \in Name : n = call.name
  BY DEF CallOK, TypeOK
<1>1. Live' = Live
  BY DEF Live, Whole
<1>2. \A m \in Live \ {n} : Entry(m)' = Entry(m)
  BY <1>0 DEF Live, Whole, Entry, TypeOK
<1>3. CASE n \notin Live
  BY <1>1, <1>2, <1>3, Unseen
<1>4. CASE n \in Live
  <2>1. Database' = Map!With(n, Entry(n)')
    BY <1>1, <1>2, <1>4, Replaced
  <2>2. index'[n] # "empty" /\ pages[n] # {}
    BY <1>0 DEF InsertOK, TypeOK
  <2>3. Database[n] = Entry(n)
    BY <1>4, DatabaseAt
  <2>4. Database[n].pages # {} /\ Entry(n)' = [Database[n] EXCEPT !.indexed = TRUE]
    <3> DEFINE cols == IF meta[n] = Truncated THEN tables[n].cols ELSE meta[n].cols
               was  == index[n] # "empty"
               is   == index'[n] # "empty"
               yes  == TRUE
    <3>1. is = yes
      BY <2>2
    <3>2. Entry(n) = [cols |-> cols, pages |-> pages[n], indexed |-> was]
      BY Zenon DEF Entry
    <3>3. Entry(n)' = [cols |-> cols, pages |-> pages[n], indexed |-> is]
      BY Zenon DEF Entry
    <3> HIDE DEF cols, was, is, yes
    <3>4. Database[n].pages = pages[n]
      BY <2>3, <3>2
    <3>5. Entry(n)' = [Database[n] EXCEPT !.indexed = yes]
      BY <2>3, <3>1, <3>2, <3>3
    <3>6. Entry(n)' = [Database[n] EXCEPT !.indexed = TRUE]
      BY <3>5, Zenon DEF yes
    <3> QED BY <2>2, <3>4, <3>6
  <2>5. Map!Enter(n)
    BY <1>4, <2>1, <2>4, DatabaseIs DEF Map!Enter
  <2> QED BY <2>5 DEF Map!MapNext
<1> QED BY <1>3, <1>4

LEMMA EndCreateSeen ==
  ASSUME IInv, EndCreate
  PROVE  Map!MapNext
<1> USE DEF IInv, EndCreate, Doing, Down, Idle
<1>0. PICK n \in Name : n = call.name
  BY DEF CallOK, TypeOK
<1>A. PICK c \in Columns : c = tables[n].cols
  BY <1>0 DEF CreateOK
<1>1. n \notin Live /\ tables[n].pages = 0 /\ pages[n] = {} /\ index[n] = "empty"
  BY <1>0 DEF Live, Whole, CallOK, TypeOK, CreateOK
<1>2. Live' = Live \cup {n}
  BY <1>0, <1>1 DEF Live, Whole, CallOK, TypeOK
<1>3. \A m \in Live \ {n} : Entry(m)' = Entry(m)
  BY <1>0, NoneIsNothing DEF Live, Whole, Entry, CallOK, TypeOK, CloseMetadata
<1>4. Database' = Map!With(n, Entry(n)')
  BY <1>1, <1>2, <1>3, Replaced
<1>5. Entry(n)' = [cols |-> c, pages |-> {}, indexed |-> FALSE]
  <2>1. meta'[n] = [cols |-> c, pages |-> 0] /\ meta'[n] # Truncated
    BY <1>0, <1>A, <1>1, NoneIsNothing DEF CloseMetadata, TypeOK, Truncated
  <2> DEFINE is == index'[n] # "empty"
  <2>2. is = FALSE
    BY <1>1
  <2>3. meta'[n].cols = c /\ meta'[n] # Truncated /\ pages'[n] = {}
    BY <1>1, <2>1
  <2>4. Entry(n)' = [cols |-> c, pages |-> {}, indexed |-> is]
    BY <2>3, Zenon DEF Entry
  <2> HIDE DEF is
  <2> QED BY <2>2, <2>4
<1>6. Map!Create(n, c)
  BY <1>1, <1>4, <1>5, DatabaseIs DEF Map!Create
<1> QED BY <1>1, <1>6 DEF Map!MapNext

LEMMA BeginDropSeen ==
  ASSUME IInv, NEW n \in Name, BeginDrop(n)
  PROVE  Map!MapNext \/ Database' = Database
<1> USE DEF IInv, BeginDrop, Doing, Down, Idle
<1>1. Live' = Live \ {n}
  BY DEF Live, Whole, disk
<1>2. \A m \in Live : Entry(m)' = Entry(m)
  BY DEF Entry, disk
<1>3. CASE n \in Live
  BY <1>1, <1>2, <1>3, Gone DEF Map!MapNext
<1>4. CASE n \notin Live
  BY <1>1, <1>2, <1>4, Unseen
<1> QED BY <1>3, <1>4

LEMMA StopSeen ==
  ASSUME IInv, Stop
  PROVE  Map!MapNext \/ Database' = Database
<1> USE DEF IInv, Stop, Doing, Down, Idle
<1>1. Live' = Live \ AtRisk
  BY DEF Live, Whole, disk, AtRisk, CallOK, TypeOK
<1>2. \A m \in Live \ AtRisk : Entry(m)' = Entry(m)
  <2>1. \A m \in Live \ AtRisk : meta[m] # Truncated
    BY NoneIsNothing DEF Live, AtRisk, WholeOK, DiskOK, Busy, Saved, Truncated
  <2> QED BY <2>1 DEF Entry, disk
<1>3. CASE AtRisk \cap Live = {}
  BY <1>1, <1>2, <1>3, Unseen
<1>4. CASE AtRisk \cap Live # {}
  <2>1. AtRisk = {call.name} /\ call.name \in Live /\ call.name \in Name
    BY <1>4 DEF AtRisk, Live
  <2> QED BY <1>1, <1>2, <2>1, Gone DEF Map!MapNext
<1> QED BY <1>3, <1>4

LEMMA StepsSeen ==
  ASSUME IInv, [Next]_vars
  PROVE  [Map!MapNext]_Database
<1>1. CASE UNCHANGED vars
  <2>1. Live' = Live /\ \A n \in Live : Entry(n)' = Entry(n)
    BY <1>1 DEF vars, Live, Whole, Entry
  <2> QED BY <2>1, Unseen
<1>2. ASSUME Running PROVE Map!MapNext \/ Database' = Database
  BY <1>2, ReadTableUnseen, ReadThrowsUnseen, SaveTableUnseen, EndLoadUnseen, EndSaveUnseen,
     EndStartUpUnseen, MakeDirectoryUnseen, MakeRootUnseen, OpenIndexUnseen, MakeIndexUnseen,
     OpenNewUnseen, EndCreateSeen, OpenGrownUnseen, CloseGrownUnseen, CreatePageSeen,
     PlaceInNewPageUnseen, PlaceFailsUnseen, IndexRowSeen, IndexSplitsUnseen, IndexThrowsUnseen,
     EndInsertUnseen,
     RemoveMetadataUnseen, RemovePageUnseen, RemoveIndexUnseen, EndDropUnseen, Zenon DEF Running
<1>3. ASSUME Statements PROVE Map!MapNext \/ Database' = Database
  BY <1>3, BeginCreateUnseen, InsertRowSeen, BeginGrowUnseen, DivideByZeroUnseen, BeginDropSeen, Zenon
     DEF Statements
<1> QED BY <1>1, <1>2, <1>3, DropFailsUnseen, StartUpUnseen, StopSeen, Zenon DEF Next

(* To a user the engine is a map from names to tables: CREATE adds an      *)
(* empty one, DROP takes one away, INSERT adds to the pages of one and     *)
(* then to its index, wherever it is stopped, a restart changes nothing    *)
(* and a stop costs one table at most.                                     *)
THEOREM MapImplemented == Spec => ImplementsTableMap
<1>1. ASSUME Init PROVE Database = [n \in {} |-> 0]
  <2>1. Live = {}
    BY <1>1 DEF Init, Live, Whole
  <2> QED BY <2>1, DatabaseIs
<1>2. IInv /\ [Next]_vars => [Map!MapNext]_Database
  BY StepsSeen
<1> QED BY <1>1, <1>2, InvHolds, PTL DEF Spec, ImplementsTableMap, Map!MapSpec
=============================================================================
