------------------------------ MODULE Catalog ------------------------------
(***************************************************************************)
(* The tables of src/engine.cpp and their files under "tables": start-up,  *)
(* CREATE, DROP, and the writes of metadata files, which a process that    *)
(* dies leaves half done.  The rows of a table are TableStore's subject;   *)
(* here a table has page files and an index that is empty or in use.       *)
(***************************************************************************)
EXTENDS Integers

CONSTANTS
  Name,      \* table names
  Columns,   \* the column lists CREATE can be given
  Wide,      \* those whose row is wider than SLOT_SPACE: no page has room
  MaxPages,  \* model bound on the number of pages
  NoCols,    \* no columns, or none with a width: row_size is 0
  BadCols,   \* columns of any number and type, but without names
  None       \* no table, no file, no name

ASSUME PageBound == MaxPages \in Nat
ASSUME WideColumns == Wide \subseteq Columns
ASSUME ColumnLists == NoCols \notin Columns /\ BadCols \notin Columns /\ NoCols # BadCols

VARIABLES
  dirs,     \* the names that have a directory
  meta,     \* meta[n]: the metadata file of the table
  pages,    \* pages[n]: the page files
  index,    \* index[n]: the files of the index
  tables,   \* Engine::tables
  call,     \* what the program is doing
  spoilt    \* the tables a stop has caught half done (not in the program)

disk == <<dirs, meta, pages, index>>
vars == <<dirs, meta, pages, index, tables, call, spoilt>>

PageIds == 0 .. MaxPages - 1

(* A file is cut to nothing when it is opened for writing and filled when  *)
(* it is closed.                                                           *)
Truncated == [cols |-> None, pages |-> 0]
Saved     == [cols : Columns \cup {NoCols, BadCols}, pages : 0 .. MaxPages]

(* The index is a directory of files: "torn" when its own metadata file is *)
(* cut, "damaged" when files of it are missing.                            *)
IndexState == {None, "empty", "used", "torn", "damaged"}

Table == [cols : Columns \cup {NoCols, BadCols}, pages : 0 .. MaxPages, indexed : BOOLEAN]

ASSUME NoneIsNothing ==
  None \notin Name \cup Columns \cup {NoCols, BadCols, "empty", "used", "torn", "damaged"}
         \cup Table \cup Saved \cup {Truncated}

Doing(op, n, step, todo) == [op |-> op, name |-> n, step |-> step, todo |-> todo]

Down == Doing("down", None, "none", {})
Idle == Doing("idle", None, "none", {})

Known(n) == tables[n] # None

Init ==
  /\ dirs = {}
  /\ meta = [n \in Name |-> None]
  /\ pages = [n \in Name |-> {}]
  /\ index = [n \in Name |-> None]
  /\ tables = [n \in Name |-> None]
  /\ call = Down
  /\ spoilt = {}

(* write_table_metadata, in two steps: the file is opened, and closed. *)
OpenMetadata(n)  == meta' = [meta EXCEPT ![n] = Truncated]
CloseMetadata(n) ==
  meta' = [meta EXCEPT ![n] = [cols |-> tables[n].cols, pages |-> tables[n].pages]]
----------------------------------------------------------------------------
(* The constructor: every directory under "tables" becomes a table. *)
StartUp ==
  /\ call = Down
  /\ call' = Doing("load", None, "none", dirs)
  /\ UNCHANGED <<disk, tables, spoilt>>

(* parse_table_metadata.  Without the file the table has no columns and no *)
(* index; what is read from an empty file is whatever the integers and the *)
(* character held before.                                                  *)
Parsed_NoPageCount(n) ==
  IF meta[n] = None THEN [cols : {NoCols}, pages : {0}, indexed : {FALSE}]
  ELSE IF meta[n] = Truncated THEN [cols : {NoCols, BadCols}, pages : 0 .. MaxPages, indexed : {TRUE}]
  ELSE [cols : {meta[n].cols}, pages : {0}, indexed : {TRUE}]
Parsed(n) ==
  IF meta[n] = None THEN [cols : {NoCols}, pages : {0}, indexed : {FALSE}]
  ELSE IF meta[n] = Truncated THEN [cols : {NoCols, BadCols}, pages : 0 .. MaxPages, indexed : {TRUE}]
  ELSE [cols : {meta[n].cols}, pages : {meta[n].pages}, indexed : {TRUE}]

(* It opens the index last; BTree makes an empty tree where it finds no    *)
(* files.                                                                  *)
ReadTable_AgainAndAgain(n) ==
  /\ call.op = "load" /\ n \in call.todo
  /\ meta[n] # None => index[n] # "torn"
  /\ \E t \in Parsed(n) : tables' = [tables EXCEPT ![n] = t]
  /\ index' = [index EXCEPT ![n] = IF meta[n] # None /\ @ = None THEN "empty" ELSE @]
  /\ UNCHANGED <<dirs, meta, pages, call, spoilt>>
ReadTable(n) ==
  /\ call.op = "load" /\ n \in call.todo
  /\ meta[n] # None => index[n] # "torn"
  /\ \E t \in Parsed(n) : tables' = [tables EXCEPT ![n] = t]
  /\ index' = [index EXCEPT ![n] = IF meta[n] # None /\ @ = None THEN "empty" ELSE @]
  /\ call' = [call EXCEPT !.todo = @ \ {n}]
  /\ UNCHANGED <<dirs, meta, pages, spoilt>>

(* BTree throws on a cut metadata file, and nobody catches it: the program *)
(* cannot start.                                                           *)
ReadThrows(n) ==
  /\ call.op = "load" /\ n \in call.todo
  /\ meta[n] # None /\ index[n] = "torn"
  /\ tables' = [m \in Name |-> None]
  /\ call' = Down
  /\ UNCHANGED <<disk, spoilt>>

EndLoad ==
  /\ call.op = "load" /\ call.todo = {}
  /\ call' = Doing("save", None, "none", {n \in Name : Known(n)})
  /\ UNCHANGED <<disk, tables, spoilt>>

(* Then the constructor writes the metadata of every table again. *)
SaveTable(n) ==
  /\ call.op = "save" /\ call.name = None /\ n \in call.todo
  /\ OpenMetadata(n)
  /\ call' = Doing("save", n, "close", call.todo \ {n})
  /\ UNCHANGED <<dirs, pages, index, tables, spoilt>>

EndSave ==
  /\ call.op = "save" /\ call.step = "close"
  /\ CloseMetadata(call.name)
  /\ call' = Doing("save", None, "none", call.todo)
  /\ UNCHANGED <<dirs, pages, index, tables, spoilt>>

EndStartUp ==
  /\ call.op = "save" /\ call.name = None /\ call.todo = {}
  /\ call' = Idle
  /\ UNCHANGED <<disk, tables, spoilt>>
----------------------------------------------------------------------------
(* run_create: the table is known before it has a directory, an index and  *)
(* a metadata file, which come in this order.                              *)
BeginCreate(n, c) ==
  /\ call = Idle
  /\ ~Known(n)
  /\ tables' = [tables EXCEPT ![n] = [cols |-> c, pages |-> 0, indexed |-> FALSE]]
  /\ call' = Doing("create", n, "directory", {})
  /\ UNCHANGED <<disk, spoilt>>

MakeDirectory ==
  /\ call.op = "create" /\ call.step = "directory"
  /\ dirs' = dirs \cup {call.name}
  /\ call' = [call EXCEPT !.step = "index"]
  /\ UNCHANGED <<meta, pages, index, tables, spoilt>>

(* BTree reads the metadata of an index it finds; otherwise it makes one,  *)
(* the root before the metadata.                                           *)
MakeRoot ==
  /\ call.op = "create" /\ call.step = "index"
  /\ index' = [index EXCEPT ![call.name] = IF @ = None THEN "damaged" ELSE @]
  /\ call' = [call EXCEPT !.step = "root"]
  /\ UNCHANGED <<dirs, meta, pages, tables, spoilt>>

OpenIndex ==
  /\ call.op = "create" /\ call.step = "root"
  /\ index' = [index EXCEPT ![call.name] = IF @ = "damaged" THEN "torn" ELSE @]
  /\ call' = [call EXCEPT !.step = "tree"]
  /\ UNCHANGED <<dirs, meta, pages, tables, spoilt>>

MakeIndex ==
  /\ call.op = "create" /\ call.step = "tree"
  /\ index' = [index EXCEPT ![call.name] = IF @ = "torn" THEN "empty" ELSE @]
  /\ tables' = [tables EXCEPT ![call.name].indexed = TRUE]
  /\ call' = [call EXCEPT !.step = "open"]
  /\ UNCHANGED <<dirs, meta, pages, spoilt>>

OpenNew ==
  /\ call.op = "create" /\ call.step = "open"
  /\ OpenMetadata(call.name)
  /\ call' = [call EXCEPT !.step = "close"]
  /\ UNCHANGED <<dirs, pages, index, tables, spoilt>>

EndCreate_NothingWritten ==
  /\ call.op = "create" /\ call.step = "close"
  /\ call' = Idle
  /\ UNCHANGED <<disk, tables, spoilt>>
EndCreate ==
  /\ call.op = "create" /\ call.step = "close"
  /\ CloseMetadata(call.name)
  /\ call' = Idle
  /\ UNCHANGED <<dirs, pages, index, tables, spoilt>>
----------------------------------------------------------------------------
(* run_insert needs columns it can name. *)
TakesRows(n) == Known(n) /\ tables[n].cols \in Columns

(* A row goes to a page that has room: the page is written, and then its   *)
(* key goes to the index.  A file missing there is no obstacle so far: to  *)
(* contains every exception means that the key is new.                     *)
InsertRow(n, i) ==
  /\ call = Idle
  /\ TakesRows(n) /\ tables[n].cols \notin Wide
  /\ i < tables[n].pages
  /\ pages' = [pages EXCEPT ![n] = @ \cup {i}]
  /\ call' = Doing("insert", n, "index", {})
  /\ UNCHANGED <<dirs, meta, index, tables, spoilt>>

(* No page has room: the count is saved before the page exists. *)
BeginGrow(n) ==
  /\ call = Idle
  /\ TakesRows(n)
  /\ tables[n].pages < MaxPages
  /\ tables[n].cols \in Wide \/ 0 .. tables[n].pages - 1 \subseteq pages[n]
  /\ tables' = [tables EXCEPT ![n].pages = @ + 1]
  /\ call' = Doing("insert", n, "open", {})
  /\ UNCHANGED <<disk, spoilt>>

OpenGrown ==
  /\ call.op = "insert" /\ call.step = "open"
  /\ OpenMetadata(call.name)
  /\ call' = [call EXCEPT !.step = "close"]
  /\ UNCHANGED <<dirs, pages, index, tables, spoilt>>

CloseGrown ==
  /\ call.op = "insert" /\ call.step = "close"
  /\ CloseMetadata(call.name)
  /\ call' = [call EXCEPT !.step = "page"]
  /\ UNCHANGED <<dirs, pages, index, tables, spoilt>>

(* create_page: the new page has no row yet. *)
CreatePage_OffByOne ==
  /\ call.op = "insert" /\ call.step = "page"
  /\ pages' = [pages EXCEPT ![call.name] = @ \cup {tables[call.name].pages}]
  /\ call' = [call EXCEPT !.step = "place"]
  /\ UNCHANGED <<dirs, meta, index, tables, spoilt>>
CreatePage ==
  /\ call.op = "insert" /\ call.step = "page"
  /\ pages' = [pages EXCEPT ![call.name] = @ \cup {tables[call.name].pages - 1}]
  /\ call' = [call EXCEPT !.step = "place"]
  /\ UNCHANGED <<dirs, meta, index, tables, spoilt>>

(* The row is written to it, unless no page has room for such a row or a   *)
(* string of it is too long.                                               *)
PlaceInNewPage ==
  /\ call.op = "insert" /\ call.step = "place"
  /\ tables[call.name].cols \notin Wide
  /\ call' = [call EXCEPT !.step = "index"]
  /\ UNCHANGED <<disk, tables, spoilt>>

PlaceFails ==
  /\ call.op = "insert" /\ call.step = "place"
  /\ call' = Idle
  /\ UNCHANGED <<disk, tables, spoilt>>

(* The key goes to a leaf of the index (BTree has the rest). *)
IndexRow ==
  /\ call.op = "insert" /\ call.step = "index"
  /\ index[call.name] # None
  /\ index' = [index EXCEPT ![call.name] = IF @ = "empty" THEN "used" ELSE @]
  /\ call' = Idle
  /\ UNCHANGED <<dirs, meta, pages, tables, spoilt>>

(* Or a node splits: the index writes its own metadata, the new node id in *)
(* it, and the file is cut before it is filled.                            *)
IndexSplits ==
  /\ call.op = "insert" /\ call.step = "index"
  /\ index[call.name] \in {"used", "damaged"}
  /\ index' = [index EXCEPT ![call.name] = "torn"]
  /\ call' = [call EXCEPT !.step = IF index[call.name] = "used" THEN "tree" ELSE "wreck"]
  /\ UNCHANGED <<dirs, meta, pages, tables, spoilt>>

(* Or a file of it is missing or cannot be written: the error is reported, *)
(* and the row stays without a key.                                        *)
IndexThrows ==
  /\ call.op = "insert" /\ call.step = "index"
  /\ call' = Idle
  /\ UNCHANGED <<disk, tables, spoilt>>

EndInsert ==
  /\ call.op = "insert" /\ call.step \in {"tree", "wreck"}
  /\ \E s \in IF call.step = "tree" THEN {"used"} ELSE {"used", "damaged"} :
       index' = [index EXCEPT ![call.name] = s]
  /\ call' = Idle
  /\ UNCHANGED <<dirs, meta, pages, tables, spoilt>>

(* select and remove divide SLOT_SPACE by the row size: a table without    *)
(* columns ends the program.                                               *)
DivideByZero(n) ==
  /\ call = Idle
  /\ Known(n)
  /\ tables[n].cols = NoCols
  /\ tables' = [m \in Name |-> None]
  /\ call' = Down
  /\ UNCHANGED <<disk, spoilt>>
----------------------------------------------------------------------------
(* run_drop: remove_all takes the files one by one, in the order of the    *)
(* directory, then the directory itself.                                   *)
BeginDrop(n) ==
  /\ call = Idle
  /\ Known(n)
  /\ call' = Doing("drop", n, "remove", {})
  /\ UNCHANGED <<disk, tables, spoilt>>

RemoveMetadata ==
  /\ call.op = "drop"
  /\ meta[call.name] # None
  /\ meta' = [meta EXCEPT ![call.name] = None]
  /\ UNCHANGED <<dirs, pages, index, tables, call, spoilt>>

RemovePage(i) ==
  /\ call.op = "drop"
  /\ i \in pages[call.name]
  /\ pages' = [pages EXCEPT ![call.name] = @ \ {i}]
  /\ UNCHANGED <<dirs, meta, index, tables, call, spoilt>>

RemoveIndex ==
  /\ call.op = "drop"
  /\ index[call.name] # None
  /\ index' = [index EXCEPT ![call.name] = IF @ = "damaged" THEN None ELSE "damaged"]
  /\ UNCHANGED <<dirs, meta, pages, tables, call, spoilt>>

EndDrop_LeavesPages ==
  /\ call.op = "drop"
  /\ meta[call.name] = None /\ index[call.name] = None
  /\ dirs' = dirs \ {call.name}
  /\ tables' = [tables EXCEPT ![call.name] = None]
  /\ call' = Idle
  /\ spoilt' = spoilt \ {call.name}
  /\ UNCHANGED <<meta, pages, index>>
EndDrop_KeepsTable ==
  /\ call.op = "drop"
  /\ meta[call.name] = None /\ index[call.name] = None /\ pages[call.name] = {}
  /\ dirs' = dirs \ {call.name}
  /\ call' = Idle
  /\ spoilt' = spoilt \ {call.name}
  /\ UNCHANGED <<meta, pages, index, tables>>
EndDrop ==
  /\ call.op = "drop"
  /\ meta[call.name] = None /\ index[call.name] = None /\ pages[call.name] = {}
  /\ dirs' = dirs \ {call.name}
  /\ tables' = [tables EXCEPT ![call.name] = None]
  /\ call' = Idle
  /\ spoilt' = spoilt \ {call.name}
  /\ UNCHANGED <<meta, pages, index>>

(* remove_all reports an error: the table stays known, some files are gone. *)
DropFails ==
  /\ call.op = "drop"
  /\ call' = Idle
  /\ spoilt' = spoilt \cup {call.name}
  /\ UNCHANGED <<disk, tables>>
----------------------------------------------------------------------------
(* The table a stop would spoil: one that is being created or dropped, or  *)
(* has a file open that is not yet filled.                                 *)
AtRisk ==
  IF call.op = "drop" \/ (call.op = "create" /\ call.step # "directory")
     \/ call.step \in {"close", "tree", "wreck"}
  THEN {call.name} ELSE {}

(* The program ends, between two statements or inside one. *)
Stop ==
  /\ call # Down
  /\ tables' = [n \in Name |-> None]
  /\ call' = Down
  /\ spoilt' = spoilt \cup AtRisk
  /\ UNCHANGED disk

Running ==
  \/ \E n \in Name : ReadTable(n) \/ ReadThrows(n) \/ SaveTable(n)
  \/ EndLoad \/ EndSave \/ EndStartUp
  \/ MakeDirectory \/ MakeRoot \/ OpenIndex \/ MakeIndex \/ OpenNew \/ EndCreate
  \/ OpenGrown \/ CloseGrown \/ CreatePage \/ PlaceInNewPage \/ PlaceFails
  \/ IndexRow \/ IndexSplits \/ IndexThrows \/ EndInsert
  \/ RemoveMetadata \/ RemoveIndex \/ EndDrop
  \/ \E i \in PageIds : RemovePage(i)

Statements ==
  \E n \in Name :
    \/ \E c \in Columns : BeginCreate(n, c)
    \/ \E i \in PageIds : InsertRow(n, i)
    \/ BeginGrow(n) \/ DivideByZero(n) \/ BeginDrop(n)

Next == Running \/ Statements \/ DropFails \/ StartUp \/ Stop

Spec == Init /\ [][Next]_vars

(* The thread does not stop of itself inside a statement or at start-up. *)
FairSpec == Spec /\ WF_vars(Running)
----------------------------------------------------------------------------
CallType ==
  [op : {"down", "idle", "load", "save", "create", "insert", "drop"},
   name : Name \cup {None},
   step : {"none", "directory", "root", "index", "tree", "wreck", "open", "close", "page",
           "place", "remove"},
   todo : SUBSET Name]

(* Every variable has its type. *)
TypeOK ==
  /\ dirs \subseteq Name
  /\ meta \in [Name -> Saved \cup {None, Truncated}]
  /\ pages \in [Name -> SUBSET PageIds]
  /\ index \in [Name -> IndexState]
  /\ tables \in [Name -> Table \cup {None}]
  /\ call \in CallType
  /\ spoilt \subseteq dirs

Whole(n) ==
  /\ n \in dirs \ spoilt
  /\ ~(call.op \in {"create", "drop"} /\ call.name = n)

(* A table that no stop has caught in its own CREATE or DROP, or with one  *)
(* of its metadata files open, is whole on disk, whatever has become of    *)
(* the others: its metadata has its columns and covers its page files, its *)
(* index can be opened, and an index with entries has pages for them.  (A  *)
(* page does not show that the index is in use: an insert that is stopped  *)
(* or refused after it has written its page leaves no entry.)              *)
WholeTables ==
  \A n \in Name : Whole(n) =>
    /\ \/ meta[n].cols \in Columns /\ pages[n] \subseteq 0 .. meta[n].pages - 1
       \/ meta[n] = Truncated /\ call.step = "close" /\ call.name = n
    /\ \/ index[n] = "empty"
       \/ index[n] = "used" /\ pages[n] # {}
       \/ index[n] = "torn" /\ pages[n] # {} /\ call.step = "tree" /\ call.name = n

(* Between two statements the program knows exactly the tables that have a *)
(* directory, spoilt ones too, so that DROP can take them away, and knows  *)
(* of a whole table what the next start-up would read; a name without a    *)
(* directory has left no file that a CREATE could take over.               *)
MemoryMatchesDisk ==
  call = Idle => \A n \in Name :
    /\ Known(n) <=> n \in dirs
    /\ Whole(n) => tables[n] = [cols |-> meta[n].cols, pages |-> meta[n].pages, indexed |-> TRUE]
    /\ n \notin dirs => meta[n] = None /\ pages[n] = {} /\ index[n] = None

(* A statement ends the program, or start-up fails, only because of a      *)
(* spoilt table: dividing by the width of no columns, a cut index.         *)
OnlySpoiltTablesKill ==
  [][\A n \in Name : DivideByZero(n) \/ ReadThrows(n) => n \in spoilt]_vars

(* Start-up and statements end. *)
StatementsReturn == call \notin {Idle, Down} ~> call \in {Idle, Down}

(* What the tables are to a user: the whole ones. *)
Database ==
  [n \in {m \in Name : Whole(m)} |->
     [cols    |-> IF meta[n] = Truncated THEN tables[n].cols ELSE meta[n].cols,
      pages   |-> pages[n],
      indexed |-> index[n] # "empty"]]

Map == INSTANCE TableMap WITH db <- Database

(* CREATE adds an empty table, DROP takes one away, INSERT adds to the     *)
(* pages of one and then to its index, start-up changes nothing, and a     *)
(* stop costs one table at most.                                           *)
ImplementsTableMap == Map!MapSpec
=============================================================================
