----------------------------- MODULE TableStore -----------------------------
(***************************************************************************)
(* One table of src/memory_layer.cpp: its pages on disk, the page count in *)
(* memory and in the metadata file, and its primary-key index.  A          *)
(* statement is a sequence of steps, one for each write it makes to a      *)
(* page, to the metadata file or to the index, so that a crash can fall    *)
(* between any two of them.                                                *)
(*                                                                         *)
(* The index is IndexMap, which BTree implements while its splits stay at  *)
(* the right edge (BTree!EdgeSpec): this is a table whose keys arrive in   *)
(* ascending order, or one with fewer than 384 inserts (a kill inside a    *)
(* split that leaves only the parent written takes the latter away).       *)
(***************************************************************************)
EXTENDS TableRows, FiniteSets

CONSTANTS
  KeyOf,     \* the index key of a primary-key value: a cast, or a hash
  Slots,     \* rows that fit in a page
  Stride,    \* 2^32: a row locator is page * Stride + slot
  MaxPages,  \* model bound on the number of pages
  NoFile,    \* the page file does not exist
  Empty      \* the occupancy bit of the slot is 0

ASSUME KeysAreIndexKeys == KeyOf \in [Pk -> Nat]
ASSUME PageShape == Slots \in Nat \ {0} /\ Stride \in Nat /\ Slots <= Stride
ASSUME PageBound == MaxPages \in Nat

(* The cast of an int or a bool to uint64_t is injective; the hash of a    *)
(* string need not be.                                                     *)
ASSUME CastsAreInjective ==
  PkType \in {"INT", "BOOL"} => \A j, k \in Pk : KeyOf[j] = KeyOf[k] => j = k

ASSUME EmptyIsNoRow == Empty \notin Row

VARIABLES
  page,     \* page[i] is the content of page_<i>.data, or NoFile
  pages,    \* Table::pages of the running program
  saved,    \* the page count in the table's metadata file
  entries,  \* the index (see IndexMap)
  lost,     \* the keys a crash has cut off in the index
  call,     \* the statement in progress
  reply     \* what the last statement answered

vars == <<page, pages, saved, entries, lost, call, reply>>

PageIds == 0 .. MaxPages - 1
SlotIds == 0 .. Slots - 1
Locations == PageIds \X SlotIds

Page == [SlotIds -> Row \cup {Empty}]
EmptyPage == [s \in SlotIds |-> Empty]

ASSUME NoFileIsNoPage == NoFile \notin Page

(* pack_row_locator *)
Locator(i, s) == i * Stride + s

Index == INSTANCE IndexMap
           WITH Key <- {KeyOf[k] : k \in Pk},
                Value <- {Locator(l[1], l[2]) : l \in Locations}

NoReply             == [op |-> "none"]
InsertReply(r, ok)  == [op |-> "insert", row |-> r, ok |-> ok]
InsertFailed(r)     == [op |-> "insertFailed", row |-> r]
DeleteReply(p, n)   == [op |-> "delete", pred |-> p, count |-> n]
SelectReply(p, s)   == [op |-> "select", pred |-> p, rows |-> s]
ErrorReply(p)       == [op |-> "error", pred |-> p]

None == [op |-> "none"]
Inserting(step, r, i, s) == [op |-> "insert", step |-> step, row |-> r, page |-> i, slot |-> s]
Deleting(p, i, s, gone)  == [op |-> "delete", pred |-> p, page |-> i, slot |-> s, gone |-> gone]

Idle == call = None
----------------------------------------------------------------------------
(* read_page: a page file that does not exist reads as an empty page. *)
ReadPage(i) == IF page[i] = NoFile THEN EmptyPage ELSE page[i]

Occupied(i, s) == ReadPage(i)[s] # Empty
HasRoom(i)     == \E s \in SlotIds : ~Occupied(i, s)

WritePage(i, data) == page' = [page EXCEPT ![i] = data]

(* The locations that hold a row, in the pages the program knows of. *)
Stored(n) == {l \in Locations : l[1] < n /\ Occupied(l[1], l[2])}
RowAt(l)  == ReadPage(l[1])[l[2]]

(* pk_equality_fast_path.  It compares the position of the predicate's     *)
(* type in VariablePredicate with the position of the key's type in        *)
(* DataType; where they agree on different types, std::get throws.  Only a  *)
(* string key gets to the lookup, which then accepts int and bool keys     *)
(* only: every statement scans the pages (LookupOnlyForStrings).           *)
FastPath(p) ==
  IF p.col = "none" \/ PredicateIndex[p.type] # DataTypeIndex[PkType] THEN "scan"
  ELSE IF p.type # PkType THEN "throws"
  ELSE IF p.equal /\ p.col = "pk" /\ PkType # "FLOAT" THEN "lookup"
  ELSE "scan"

----------------------------------------------------------------------------
Init ==
  /\ page = [i \in PageIds |-> NoFile]
  /\ pages = 0
  /\ saved = 0
  /\ Index!IndexInit
  /\ call = None
  /\ reply = NoReply

(* insert: a FLOAT key has no index key; a key in the index is refused. *)
RefuseInsert(r) ==
  /\ Idle
  /\ PkType # "FLOAT"
  /\ Index!Holds(KeyOf[r.pk])
  /\ reply' = InsertReply(r, FALSE)
  /\ UNCHANGED <<page, pages, saved, entries, lost, call>>

BeginInsert_NoCheck(r) ==
  /\ Idle
  /\ pages < MaxPages \/ \E i \in 0 .. pages - 1 : HasRoom(i)
  /\ call' = Inserting("place", r, 0, 0)
  /\ UNCHANGED <<page, pages, saved, entries, lost, reply>>
BeginInsert(r) ==
  /\ Idle
  /\ PkType # "FLOAT"
  /\ ~Index!Holds(KeyOf[r.pk])
  /\ pages < MaxPages \/ \E i \in 0 .. pages - 1 : HasRoom(i)
  /\ call' = Inserting("place", r, 0, 0)
  /\ UNCHANGED <<page, pages, saved, entries, lost, reply>>

(* try_insert_at on page i: the first free slot. *)
PlaceIn(i) ==
  \E s \in SlotIds :
    /\ ~Occupied(i, s)
    /\ \A t \in 0 .. s - 1 : Occupied(i, t)
    /\ Encodable(call.row)
    /\ WritePage(i, [ReadPage(i) EXCEPT ![s] = call.row])
    /\ call' = Inserting("index", call.row, i, s)
    /\ UNCHANGED <<pages, saved, entries, lost, reply>>

(* The first page with room takes the row. *)
Place ==
  /\ call.op = "insert" /\ call.step = "place"
  /\ \E i \in 0 .. pages - 1 :
       /\ \A j \in 0 .. i - 1 : ~HasRoom(j)
       /\ PlaceIn(i)

(* No page has room: pages++ and write_table_metadata, then create_page,   *)
(* then try_insert_at on the new page.                                     *)
Grow_NotSaved ==
  /\ call.op = "insert" /\ call.step = "place"
  /\ \A i \in 0 .. pages - 1 : ~HasRoom(i)
  /\ pages' = pages + 1
  /\ call' = Inserting("create", call.row, pages, 0)
  /\ UNCHANGED <<page, saved, entries, lost, reply>>
Grow ==
  /\ call.op = "insert" /\ call.step = "place"
  /\ \A i \in 0 .. pages - 1 : ~HasRoom(i)
  /\ pages' = pages + 1
  /\ saved' = pages + 1
  /\ call' = Inserting("create", call.row, pages, 0)
  /\ UNCHANGED <<page, entries, lost, reply>>

CreatePage ==
  /\ call.op = "insert" /\ call.step = "create"
  /\ WritePage(call.page, EmptyPage)
  /\ call' = Inserting("placeNew", call.row, call.page, 0)
  /\ UNCHANGED <<pages, saved, entries, lost, reply>>

PlaceInNewPage ==
  /\ call.op = "insert" /\ call.step = "placeNew"
  /\ PlaceIn(call.page)

(* write_to_bytes throws in try_insert_at: "Insert failed", and the page   *)
(* is not written.  A page that was created for the row stays.             *)
PlaceThrows ==
  /\ call.op = "insert"
  /\ \/ call.step = "place" /\ \E i \in 0 .. pages - 1 : HasRoom(i)
     \/ call.step = "placeNew"
  /\ ~Encodable(call.row)
  /\ call' = None
  /\ reply' = InsertFailed(call.row)
  /\ UNCHANGED <<page, pages, saved, entries, lost>>

(* The row is in its page; primary_key_btree->insert makes it known. *)
IndexRow ==
  /\ call.op = "insert" /\ call.step = "index"
  /\ Index!Put(KeyOf[call.row.pk], Locator(call.page, call.slot))
  /\ call' = None
  /\ reply' = InsertReply(call.row, TRUE)
  /\ UNCHANGED <<page, pages, saved>>

(* The index throws: "Insert failed", and the row stays in its page. *)
IndexRowThrows ==
  /\ call.op = "insert" /\ call.step = "index"
  /\ KeyOf[call.row.pk] \in lost
  /\ call' = None
  /\ reply' = InsertFailed(call.row)
  /\ UNCHANGED <<page, pages, saved, entries, lost>>
----------------------------------------------------------------------------
(* select and remove check the predicate the same way: the column's type,  *)
(* then the fast path.                                                     *)
Refused(p) == ~WellTyped(p) \/ FastPath(p) = "throws"

RejectPredicate(p) ==
  /\ Idle
  /\ Refused(p)
  /\ reply' = ErrorReply(p)
  /\ UNCHANGED <<page, pages, saved, entries, lost, call>>

Select(p) ==
  /\ Idle
  /\ ~Refused(p)
  /\ reply' = SelectReply(p, {RowAt(l) : l \in {m \in Stored(pages) : Matches(p, RowAt(m))}})
  /\ UNCHANGED <<page, pages, saved, entries, lost, call>>

(* remove: the scan starts at the first slot of the first page. *)
BeginDelete(p) ==
  /\ Idle
  /\ ~Refused(p)
  /\ call' = Deleting(p, 0, 0, {})
  /\ UNCHANGED <<page, pages, saved, entries, lost, reply>>

Doomed(i, s) == Occupied(i, s) /\ Matches(call.pred, ReadPage(i)[s])

(* The next slot of the page the scan has to remove. *)
NextDoomed(s) ==
  /\ s >= call.slot
  /\ Doomed(call.page, s)
  /\ \A t \in call.slot .. s - 1 : ~Doomed(call.page, t)

Scanning == call.op = "delete" /\ call.page < pages

(* One matching row: its index entry goes (for INT keys only) and its      *)
(* occupancy bit is cleared in memory.                                     *)
DeleteRow_KeepsEntry ==
  /\ Scanning
  /\ \E s \in SlotIds :
       /\ NextDoomed(s)
       /\ call' = Deleting(call.pred, call.page, s + 1,
                    call.gone \cup {<<<<call.page, s>>, ReadPage(call.page)[s]>>})
  /\ UNCHANGED <<page, pages, saved, entries, lost, reply>>
DeleteRow ==
  /\ Scanning
  /\ \E s \in SlotIds :
       LET row == ReadPage(call.page)[s]
       IN  /\ NextDoomed(s)
           /\ IF PkType = "INT" THEN Index!Delete(KeyOf[row.pk])
                                ELSE UNCHANGED <<entries, lost>>
           /\ call' = Deleting(call.pred, call.page, s + 1,
                               call.gone \cup {<<<<call.page, s>>, row>>})
  /\ UNCHANGED <<page, pages, saved, reply>>

(* The index throws: the scan ends, its current page is not written. *)
DeleteThrows ==
  /\ Scanning
  /\ \E s \in SlotIds :
       /\ NextDoomed(s)
       /\ PkType = "INT" /\ KeyOf[ReadPage(call.page)[s].pk] \in lost
  /\ call' = None
  /\ reply' = ErrorReply(call.pred)
  /\ UNCHANGED <<page, pages, saved, entries, lost>>

Cleared(i) == {s \in SlotIds : \E g \in call.gone : g[1] = <<i, s>>}

(* The end of a page: it is written if a bit of it was cleared. *)
LeavePage_ClearsAll ==
  /\ Scanning
  /\ \A s \in SlotIds : ~NextDoomed(s)
  /\ IF Cleared(call.page) = {} THEN UNCHANGED page
                                ELSE WritePage(call.page, EmptyPage)
  /\ call' = Deleting(call.pred, call.page + 1, 0, call.gone)
  /\ UNCHANGED <<pages, saved, entries, lost, reply>>
LeavePage_SamePage ==
  /\ Scanning
  /\ \A s \in SlotIds : ~NextDoomed(s)
  /\ call' = Deleting(call.pred, call.page, 0, call.gone)
  /\ UNCHANGED <<page, pages, saved, entries, lost, reply>>
LeavePage ==
  /\ Scanning
  /\ \A s \in SlotIds : ~NextDoomed(s)
  /\ IF Cleared(call.page) = {}
     THEN UNCHANGED page
     ELSE WritePage(call.page, [s \in SlotIds |->
            IF s \in Cleared(call.page) THEN Empty ELSE ReadPage(call.page)[s]])
  /\ call' = Deleting(call.pred, call.page + 1, 0, call.gone)
  /\ UNCHANGED <<pages, saved, entries, lost, reply>>

EndDelete ==
  /\ call.op = "delete" /\ call.page >= pages
  /\ call' = None
  /\ reply' = DeleteReply(call.pred, Cardinality(call.gone))
  /\ UNCHANGED <<page, pages, saved, entries, lost>>
----------------------------------------------------------------------------
(* The program ends and starts again: the page count is read back from the *)
(* metadata file, the index from its files.                                *)
Restart ==
  /\ Idle
  /\ pages' = saved
  /\ UNCHANGED <<page, saved, entries, lost, call, reply>>

(* The program is killed and starts again.  Inside the index insert the    *)
(* crash may cut off keys (BTreeProps!CrashLosesOnlyInSplit).              *)
Crash ==
  /\ ~Idle
  /\ pages' = saved
  /\ call' = None
  /\ reply' = NoReply
  /\ \E L \in SUBSET {KeyOf[k] : k \in Pk} :
       /\ L # {} => call.op = "insert" /\ call.step = "index"
       /\ Index!Lose(L)
  /\ UNCHANGED <<page, saved>>

Running ==
  \/ Place \/ Grow \/ CreatePage \/ PlaceInNewPage \/ PlaceThrows
  \/ IndexRow \/ IndexRowThrows
  \/ DeleteRow \/ DeleteThrows \/ LeavePage \/ EndDelete

Statements ==
  \/ \E r \in Row : RefuseInsert(r) \/ BeginInsert(r)
  \/ \E p \in Predicates : RejectPredicate(p) \/ Select(p) \/ BeginDelete(p)

Next == Running \/ Statements \/ Restart

(* A single thread that runs every statement to its end. *)
Spec == Init /\ [][Next]_vars

(* The same program, killed at any point. *)
CrashSpec == Init /\ [][Next \/ Crash]_vars

(* The thread does not stop of itself inside a statement. *)
FairSpec == CrashSpec /\ WF_vars(Running)
----------------------------------------------------------------------------
CallType ==
  {None}
    \cup [op : {"insert"}, step : {"place", "create", "placeNew", "index"},
          row : Row, page : PageIds, slot : SlotIds]
    \cup [op : {"delete"}, pred : Predicates, page : 0 .. MaxPages, slot : 0 .. Slots,
          gone : SUBSET (Locations \X Row)]

(* Every variable has its type, and the index is one. *)
TypeOK ==
  /\ page \in [PageIds -> Page \cup {NoFile}]
  /\ pages \in 0 .. MaxPages
  /\ saved = pages
  /\ Index!IndexTypeOK
  /\ call \in CallType

(* No two rows of the table have the same primary key. *)
UniquePk ==
  \A l, m \in Stored(pages) : RowAt(l).pk = RowAt(m).pk => l = m

(* What MemoryLayer would find through the index is a row with that key,   *)
(* between any two writes of insert and remove and after any crash: insert *)
(* writes the row first, remove takes the entry first.                     *)
IndexPointsAtRows ==
  \A e \in entries : \E l \in Stored(pages) :
    /\ e[2] = Locator(l[1], l[2])
    /\ e[1] = KeyOf[RowAt(l).pk]

(* A restart sees every row: no page file lies beyond the saved count, so  *)
(* create_page never empties a page that is in use.                        *)
PagesAreCounted ==
  \A i \in PageIds : page[i] # NoFile => i < saved

(* A row that is on disk stays there, unaltered, whatever is inserted,     *)
(* restarted or killed, until a DELETE whose clause holds for it.          *)
RowsStay ==
  [][\A l \in Locations :
       Occupied(l[1], l[2]) =>
         \/ RowAt(l)' = RowAt(l)
         \/ call.op = "delete" /\ Matches(call.pred, RowAt(l))]_vars

(***************************************************************************)
(* The rows the finished statements have left: what is on disk, without    *)
(* the row an insert has placed and not yet indexed, and with the rows a   *)
(* running delete has already removed.                                     *)
(***************************************************************************)
Unfinished ==
  IF call.op = "insert" /\ call.step = "index" THEN {<<call.page, call.slot>>} ELSE {}

Rows ==
  {RowAt(l) : l \in Stored(pages) \ Unfinished}
    \cup IF call.op = "delete" THEN {g[2] : g \in call.gone} ELSE {}

Table == INSTANCE RowSet WITH rows <- Rows, reply <- reply

(* Statements have the effect and the answer they have on a set of rows:   *)
(* an insert is refused exactly when its key is present, a delete removes  *)
(* and counts exactly the rows its clause holds for, through any number of *)
(* pages and restarts.                                                     *)
ImplementsRowSet == Table!RowSetSpec

(* Every statement ends, also on what a crash has left. *)
StatementsReturn == call.op \in {"insert", "delete"} ~> Idle
----------------------------------------------------------------------------
(* What the documentation says and the code does not do. *)

(* "Primary key already exists" (memory_layer.cpp:125) is answered when a  *)
(* row with that primary key exists.                                       *)
RefusalMeansPresent ==
  [][\A r \in Row :
       RefuseInsert(r) => \E l \in Stored(pages) : RowAt(l).pk = r.pk]_vars

(* A WHERE clause with a literal of its column's type is answered          *)
(* (README.md:116).                                                        *)
WellTypedIsAnswered ==
  [][\A p \in Predicates : RejectPredicate(p) => ~WellTyped(p)]_vars
=============================================================================
