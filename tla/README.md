# SteleDB in TLA+

A model of SteleDB, the single-threaded SQL store of this repository
(`src/`, `inc/`): a B+ tree index with one file per node, tables of
fixed-width rows in page files, the catalog that finds tables again at
start-up, and the statements from their text to the writes they make.
`PROJECT.json` maps every definition to the lines it stands for.

## 1. Inventory

| part | state | operations | interacts with |
|---|---|---|---|
| B+ tree (`b_tree.cpp`) | node files, `metadata.data` (root id, next id), the same two ids in the open object | constructor (read metadata / infer it / make a fresh tree), `insert`, `contains`, `search`, `remove`, `split_child` | called by the memory layer; the file system |
| memory layer (`memory_layer.cpp`) | none of its own; changes `Table::pages` and the index | `create_table`, `insert`, `select`, `remove` | page I/O, B+ tree, table metadata |
| page I/O (`page_io.cpp`, `page.hpp`) | page files, the data directory | `read_page`, `write_page`, `create_page` | memory layer |
| table (`table.hpp`) | columns, page count, index object; `metadata.data` | parsing and writing the metadata | engine, memory layer |
| predicates, data types (`predicate.hpp`, `data_type.hpp`) | none | `eval`, byte encoding, `hash_string_key` | memory layer |
| engine (`engine.cpp`) | map of tables, data directory | start-up, CREATE, DROP, INSERT, SELECT, DELETE | everything below |
| query processor (`query_processor.cpp`, `token.hpp`, `query.hpp`) | none | text to tokens | engine |
| `query_result.hpp`, `error.hpp`, `main.cpp` | none | printing, exception classes, entry point | |

Behaviours that are hard here. There is one thread, so nothing interleaves
except with **the end of the process**: the README promises no transactions,
but nothing says which broken states a kill can leave. A statement writes
several files (row, page count, page, index nodes, index metadata), each at
once; the order of those writes is the only protection. Next come **long
sequences of legal calls**: splits on several levels, slots freed by DELETE and
reused, restarts that read counts and ids back, a metadata file that is
inferred. Then **stale entries** of the index, **errors in the middle of a
statement** (the index throws after the page was written), and the
**boundaries** of the node arrays. `hazards` in `PROJECT.json` lists them at
their lines.

What makes each part correct:

- B+ tree: it is a map, at least for the orders of insertion the code serves
  (below); leaves lose nothing in any order; nodes keep their shape, never overflow, stay balanced
  and chained; ids are never reused; an inferred root and next id are the lost
  ones; a crash loses entries only inside a split and never alters one; calls end.
- tables: a table is a set of rows with distinct keys; rows stay until deleted;
  index entries point at rows with their key; the saved page count covers every
  page file; statements end.
- pages: a row lies within its page, is read back as it was inserted over
  whatever bytes were there, and the locator given to the index leads to it.
- catalog: a table that no stop has caught half done is whole on disk; between
  two statements memory and disk agree; only a spoilt table can end the program;
  a stop costs one table at most; start-up and statements end.
- lexer and grammar: a statement that reaches the tables is one of those
  promised and means what it says; what is promised is not refused (with one
  exception, a type that CREATE does not know); spaces do not matter.

## 2. Modules

| module | stands for | role |
|---|---|---|
| `IndexMap` | what the index promises | operations of a map, with the keys a crash has cut off |
| `IndexCalls` | the index as its caller sees it | abstract specification: one call at a time, its effect, its failure, a crash |
| `BTree` | `b_tree.cpp` | detailed specification, one step per node visited or file written |
| `BTreeProps` | | its properties, and the mapping to `IndexCalls` |
| `TableRows` | `predicate.hpp`, `data_type.hpp` | rows, clauses, type positions |
| `RowSet` | what a table promises | abstract specification: a set of rows with distinct keys |
| `TableStore` | `memory_layer.cpp`, `page_io.cpp`, page count of `table.hpp` | detailed specification, composed with `IndexMap` |
| `PageSlots` | what pages promise | abstract specification: arrays of slots that hold a row or nothing |
| `PageBytes` | page and row layout of `memory_layer.cpp`, `page.hpp`, `data_type.hpp`; row locators | detailed specification, byte by byte |
| `TableMap` | what the engine promises of its tables | abstract specification: a map from names to tables |
| `Catalog` | start-up, CREATE, DROP of `engine.cpp`, metadata files of `table.hpp`, `create_table` | detailed specification, one step per file made, cut, filled or removed (below, with the exceptions); of an INSERT, its page and its index entry |
| `Lexer` | `query_processor.cpp`, `token.hpp` | operators: text to words, words to tokens |
| `Sql` | the statements `src/README.md` shows under "SQL Syntax" | each promised statement as tokens, with the call it means |
| `Statements` | the five parsers and the read loop of `engine.cpp` | one word per step, judged against `Sql` |
| `BTreeProofs`, `BTreeShapeProofs`, `BTreeLevelProofs`, `BTreeSearchProofs` | | theorems about `BTree`, each on the one before: nodes and ids; the tree as a graph; levels and the leaf chain; what searches find, with the refinement of `IndexCalls` |
| `TableStoreProofs` | | theorems about `TableStore`, its refinement of `RowSet` included |
| `PageBytesProofs`, `CatalogProofs` | | theorems about `PageBytes` and `Catalog`, refinements included |
| `StatementsProofs` | | theorems about `Statements`: what is collected, that a statement understood is meant, and that spaces do not matter |
| `MCBTree`, `MCTableStore`, `MCPageBytes`, `MCStatements` | | small instances; `Catalog` needs none |

How they fit together. `BTree` implements `IndexCalls`, the calls of `IndexMap`,
while its splits stay at the right edge; `TableStore` is built on `IndexMap` and
implements `RowSet`. The tree and the table thus meet in one interface, and
neither run has to carry the other's states. `PageBytes` implements `PageSlots`,
the array of slots that `TableStore` takes a page to be. `Statements` ends in
the calls that `TableStore` and `Catalog` start from.

### BTree and the code

`file[i]` is `node_i.data`, `meta` is the metadata file, `root` and `next` are
the members of the open object, and `NoFile` is an absent file. A leaf holds as
many values as keys and its `link`, the id that the code keeps in
`children[BTREE_MAX_KEYS]`; an inner node one child more than keys. Array
entries past `count` are never read and are left out.

`call` is the running call and its place in it: `descend` is a turn of
`insert_non_full`, `split`/`splitRoot` the call of `split_child` from there and
from `insert`, `pick` the comparison after it. Where the code writes several
files in a row the step computes them all and `pend` holds them in the order
of the code; `WriteFile` makes one at a time. This is faithful because between
those writes the code reads only what it has just written. `MissesFile` is
`read_node` throwing. `search` changes nothing and is the operator `Search`;
`contains` is `Contained`, with every exception counted as "no".

`WithChild` is the parent after a split, with the separator written before the
keys are shifted, as in the code. For the parent's last child that is an
insertion; for any other child it overwrites a separator (see below). `Spec`
takes keys in any order. `EdgeSpec` and `EdgeCrashSpec` are the same programs
on workloads in which an insert starts only where every full child on its path
is the last one of its parent (`SplitsAtEdge`): ascending keys, or fewer than
384 inserts. The second no longer holds after a kill inside a split that left
only the parent written: the child it names is still full and no longer the
last one. What a search finds is checked under these two, what the leaves
hold and how the nodes hang together under `Spec` and `CrashSpec`.

`MayInsert` holds the precondition MemoryLayer establishes: `contains` was
false. `MetadataAbsent` is the missing metadata file that the constructor
provides for.

### TableStore and the code

`page[i]` is `page_i.data` as a function from slots to rows (`Empty` is a clear
occupancy bit), `pages` is `Table::pages`, `saved` the count in the table's
metadata file, `entries`/`lost` the index. Steps of a statement are its writes:
`Place` is `try_insert_at` on the first page with room; `Grow` is `pages++` and
`write_table_metadata`; `CreatePage` and `PlaceInNewPage` follow; `IndexRow` is
the index insert. `PlaceThrows` is `write_to_bytes` refusing a string of more
than 16 characters (`TooLong`), also after a page was created for it.
`DeleteRow` is one matching row (its entry goes, for INT keys
only, and its bit is cleared in a copy of the page, `call.gone`); `LeavePage`
writes that copy; `EndDelete` answers. `IndexRowThrows` and `DeleteThrows` are
the index throwing. `Crash` is the process killed and started again.

`FastPath` compares the *positions* of two enumerations, as the code does.

A table with a FLOAT key accepts no insert at all (`insert` throws before it
reads anything), so its rows never change and the model has no step for it.

### PageBytes and the code

`file[i]` is what `read_page(i)` returns: the occupancy bits and the data area,
a function from byte offsets to bytes. `Offsets` are the column offsets that
`select` and `remove` add up, with `row_size` behind the last; `MaxRows` is
`max_occupancy`, the lesser of what fits and of the number of bits.
`write_to_bytes` and `read_data` are `Encode` and `Decode`: a string is padded
with zeros and cut at the first one, any other value copied. `WriteRow` writes
each column at its offset and leaves every other byte alone, those of deleted
rows too, as `remove` does. `Pack`, `UnpackPage` and `UnpackSlot` are the row
locator in 64 bits.

A statement is one step; `InsertTooWide` and `InsertTooLong` are the inserts
that fail after a page was made for them. The question to the index and the
steps inside a statement are `TableStore`'s. Strings hold no NUL character.

### Catalog and the code

`dirs`, `meta`, `pages` and `index` are the files under `tables/`; `tables` is
`Engine::tables`; `call` is the place in start-up or in a statement. A metadata
file is cut when it is opened and filled when it is closed, so every
`write_table_metadata` is two steps with `Truncated` between them. `Parsed` is
what `parse_table_metadata` makes of a file: without it there are no columns, no
pages and no index; of a cut one it reads whatever the integers held, which is
any number of pages and either no columns (`NoCols`) or nameless ones
(`BadCols`). The index is absent, empty, in use, torn (its own metadata cut) or
damaged (some of its files gone). `ReadThrows` is the `BTree` constructor
throwing out of `Engine`'s, where nobody catches it; `DivideByZero` is a
statement on a table of row size 0. `DropFails` is `remove_all` reporting an
error. `Stop` is the end of the process between any two of these steps.

A CREATE makes the directory, the root of the index (`MakeRoot`), its metadata
(`OpenIndex`, `MakeIndex`), and the table's metadata (`OpenNew`, `EndCreate`). An
INSERT writes the row's page (`InsertRow`) or, when no page has room, saves the
new count (`BeginGrow`, `OpenGrown`, `CloseGrown`), makes the page
(`CreatePage`), and puts the row there (`PlaceInNewPage`). Only then does the
key go to the index (`IndexRow`), which may have to split a node and so writes
its own metadata (`IndexSplits`, `EndInsert`). So pages without an index entry are normal: after a
stop in between, after an index that throws (`IndexThrows`), and after a row that
its new page does not take (`PlaceFails`): one wider than `SLOT_SPACE` (the
column lists in `Wide`), or one with a string too long. `contains` counts every
exception as "no", so an INSERT gets as far as the index even if that has no
files left.

`spoilt` is a history variable and guards nothing: the tables that a stop or a
failed DROP has caught with files half made, half filled or half removed.

What is abstracted: all of a column list but whether its rows fit in a page; a page file
exists or does not, and its rows and their slots are `TableStore`'s; the index
has entries or has none, and its nodes are `BTree`'s. The index writes its
metadata at most once in an insert (a split on several levels cuts and fills the
same file again). At start-up an index without files, or without its metadata,
is made or repaired in the step that reads the table; only of a spoilt table can
it be in that state. Left out: the refusal of a key that is there (nothing is
written), I/O errors other than those of `remove_all` and of the index in an
INSERT, and a `data_dir` other than `"tables"`, which the program never sets.

### Statements and the code

A text is a sequence of symbols: one character, or a run of letters or of
digits, which the code never takes apart. `Split` is `get_token_strings`,
`ToToken` is `to_token` with its order of tests, `Throws` the exceptions of
`stoi` and `stod` that `process` lets through.

`read` are the words so far, `at` the rule of the parser's position, `got` what
it has collected, `outcome` what became of the line. The parsers tell names,
types and commas apart by the index of the word modulo 2 or 3, and the key
column by index 6; `Index` is that index and the rules use it the same way.
Reading stops at the first error: the code tokenizes the whole line first, so a
later bad word can only change which error it is. The tables the engine knows
are the constant `Schema`. A value too many is compared with what lies behind a
vector, hence any outcome; a value too few is read from there (`Garbage`), or
the program crashes.

`Sql` is written from the promises of `src/README.md`, statement by statement,
and shares only tokens with the parsers, so that the two can disagree. They do
where types are named: the lexer's word for a string type is `STRING`, while
README.md has `VARCHAR_16` (lines 82, 87, 221), which the lexer takes for a
name. `Creates` has the lexer's words, `ReadmeCreates` those of README.md, and
`RefusedIsHopeless` is about both: no statement of either is refused, except a
CREATE at the word `VARCHAR_16`. Whether the table has the column of a clause,
and of the type of its literal, is asked by the memory layer and part of
`TableRows` (`WellTyped`).

## 3. Runs

| run | instance | shows |
|---|---|---|
| `btree_structure` | 7 keys, each with its own value, `BTREE_MIN_KEYS` 1, fair | shape, balance, leaf chain, inference of root and next id, leaves that lose nothing, every insert and remove ends |
| `btree_map` | 6 keys, 2 values, splits at the edge | step-by-step implementation of the map |
| `btree_any_order` | 7 keys | entries that are not found any more (a finding) |
| `btree_crash` | 5 keys, crash anywhere, splits at the edge, fair | overflow, id reuse, what a crash may lose, every call ends |
| `table` | 3 keys, 3 payloads (one too long), 2 pages of 2 slots | a table is a set of rows |
| `table_crash` | 2 keys, 2 pages of 2 slots (duplicates fill them), crash anywhere, fair | entries point at rows, pages are counted, rows stay, every statement ends |
| `page_bytes` | pages of 5 bytes and 3 bits, 4 layouts, 2 pages | bytes implement slots, rows stay in their page |
| `catalog` | 2 tables, 2 column lists (one too wide for a page), 2 pages, stop anywhere, failing DROP and INSERT, fair | whole tables, memory and disk, what a stop costs, start-up and statements end |
| `statements` | a table of 3 columns and one with 2 columns of one name, lists of at most 2 (or all columns), some 40 words | what is understood, refused and spaced |
| `insert_values`, `string_key_refused`, `bool_clause_throws` | one table, or 2 keys and 1 page | three documented behaviours the code does not have (findings) |

Bounds and why they are enough. With `MinKeys = 1`, `MaxKeys = 3` the node
arithmetic is that of 127 and 255 (`MaxKeys = 2 * MinKeys + 1`), a leaf splits
on its fourth key, and six or seven keys give three levels with splits of inner
nodes and of the root. `MaxNodeId` caps ids; `Headroom` makes an insert start
only when the ids it can need are free, so the bound never cuts a call in half.
In tables `MaxPages` caps pages: an insert starts when there is room or a page
left. Two pages of two slots give a full first page, growth, reuse of a freed
slot, and scans over several pages. `Stride` stands for 2^32 in the row locator.
The four layouts of `page_bytes` put one row in a page, two, three (as many as
there are bits, though more would fit) and none; strings of 0 to 3 bytes in a
column of 2 give padding, a full column, and one too long. Two tables are what
`catalog` needs for one to be spoilt while another must stay whole; two pages
let a page count be behind the files. In `statements` `MaxList` is the longest
list of names or columns, with one value more than columns in an INSERT; the
words hold every kind of token, both cases of a keyword, keywords nobody uses,
a word for each error of the lexer, and a string with a space and a comma.

`search` is an operator, so that it ends is not a result of these runs; insert
and remove walk step by step.

Fairness: `WF_vars(Running)` only. The thread does not stop of itself inside a
call, a statement or start-up; that a user issues another statement, or starts
the program again, is not assumed.

Restrictions of the runs: `MetadataAbsent` is not combined with crashes (the
metadata file survives a kill); the theorems of `BTreeProofs` do combine them.
Under crashes, calls of the tree are shown to end for splits at the edge only.
A file write is atomic in `BTree` and `TableStore`; in `Catalog` that of a
metadata file is not.

### What the code does otherwise than documented

- `btree_any_order`: `split_child` stores the new separator in
  `keys[child_index]` before it shifts the keys from there on. Unless the child
  is the parent's last, the separator that stood there is gone and the new one
  stands twice, the right half of the split is never visited again, and its
  keys, often the one just inserted too, are no longer found. Their rows stay in
  the pages, but `contains` says no and a second row with the same key is
  accepted. It takes 384 inserts that are not in ascending order; the tests
  insert ascending keys only. Further splits can make such a leaf reachable
  again, with the entries it had.
- `string_key_refused`: `remove` takes index entries away for INT keys only, so
  the key of a deleted string row is refused for good.
- `bool_clause_throws`: a clause on a BOOL column of a table with an INT key
  throws `bad_variant_access`.
- `insert_values`: `run_insert` checks that every column is named but not that
  there are as many values; README.md:98 says "All columns must be specified".

Further differences, which need no run. README.md:119 says that `WHERE pk =
value` uses the index: the theorem `LookupOnlyForStrings` shows that with an INT
key the lookup is never reached (the enumerations of `DataType` and of
`VariablePredicate` differ), and for string keys the code declines it, so every
statement scans. README.md:82 and 221 create columns of type `VARCHAR_16`, which
README.md:87 lists as supported; it is no keyword (`STRING` is), so
engine.cpp:152 and 168 refuse both statements. `RefusedIsHopeless` names this as
its one exception, and fails without it. README.md:232 shows `WHERE price >= 30` on a
FLOAT column, which parses, and is refused as a TypeError (memory_layer.cpp:158),
30 being an INT literal. The string "alice@example.com" of README.md:94 has 17
characters and is refused too. README.md:151 says pages have 8KB; `PAGE_SIZE` is 4096.

Uniqueness of keys holds while the program is not killed (`table`) and the
index is the map that `IndexMap` describes, which the tree is for the workloads
of `EdgeSpec`; what a table is on an index that forgets is left to the plan. A kill
between the page write and the index write leaves a row whose key can be
inserted again; the documentation promises nothing there, and `table_crash`
checks what does survive.

## 4. Proofs

`BTreeProofs` proves, for every set of keys and values, every node size and
number of node ids, with a kill and a lost metadata file allowed at any time and
together (`AnySpec`, which both `Spec` and `CrashSpec` imply):

| theorem | statement |
|---|---|
| `TypeCorrect` | `AnySpec => []TypeOK`: nodes keep their shape, walks stay among node ids |
| `ArraysHold` | `AnySpec => []NoOverflow` |
| `IdsAreNew` | `AnySpec => NoFileReplaced` |

Assumptions: `KeysAreNumbers`, `NodeSizes`, `Bounds` and `NoFileIsNoContent` of
`BTree`. The argument: "no node has too many keys" alone is not inductive, for a
split adds a key to its parent. `CallOK` says what protects it: the node an
insert stands at has room, the child it is about to split is full, and after a
split both halves have room. All three speak of `Now`, the directory with the
pending writes made, so that `WriteFile` changes none of them (`WriteKeepsNow`).
A split writes three different nodes because the parent has room, the child has
none, and the right half is new. The last needs `IdsOK` and `PendOK`: every file
and every pending write is below the next id, in memory and, once the pending
metadata write is made, on disk too; hence a crash at any point, followed by
reading the metadata or by inferring it from the files, leaves the next id above
them. That the positions the loops stop at exist, and that `Min` and `Max` of
the inference do, are lemmas.

`BTreeShapeProofs` goes on from there, for the program that is not killed and
keys in any order:

| theorem | statement |
|---|---|
| `PairsKept` | `Spec => LeavesKeepPairs` |
| `InferenceRight` | `Spec => []InferenceAgrees` |
| `NothingMissing` | `Spec => [](Ready => ~MissesFile)`: no walk meets a missing file |

Its invariant adds `Tree(Now, root, next)`: ids below the next one are in use;
no node refers to the root or to itself; every node but the root is referred to;
every node referred to exists. It also adds `Told`: the last metadata write,
pending or made, says what the object says. `Tree` makes the root the only node
nobody refers to, which is what the inference looks for. Separators play no part
in it, so it holds for every order of keys, and a split moves pairs between two
leaves whatever happens to the separators above: the entries that
`btree_any_order` cannot find are still in their leaf. The lemmas count what
`InsertAt`, `RemoveAt` and `SubSeq` keep, and how a tree with one more root, or
with one node split in two, is a tree again (`TreeGrows`, `TreeSplits`).

`BTreeLevelProofs`, still for keys in any order:

| theorem | statement |
|---|---|
| `TreeBalanced` | `Spec => []Balanced` |
| `ChainInOrder` | `Spec => []LeafChainInOrder` |

Both properties walk down the tree by a recursive function, and no proof here
can follow one by induction over its depth. Instead the invariant (`Laid`) says
that there are functions which give every node its level, its parent, its place
among the parent's children (`Leveled`), and the first and the last leaf below
it (`Chained`), related only from a node to its children. They are not state of
the program: each step that changes the tree shows the next ones (`SplitLevel`,
`SplitPar`, `SplitPos` after a split). A walk that ends anywhere else than at
those leaves would have a lowest node where it does, and that node's child would
be lower. `Tree` alone is too weak: nothing in it says that two children of a
node are equally high, or that what it refers to is a tree and not a circle
apart from the root.

`BTreeSearchProofs`, for splits at the edge:

| theorem | statement |
|---|---|
| `TreeIsIndex` | `EdgeSpec => ImplementsIndex`: the node files implement the map of `IndexCalls`, call by call |
| `FoundAtEdge` | `EdgeSpec => FoundUntilRemoved` |

This is the central theorem about the tree. `Mapped` adds the span of every node,
the keys whose search comes by it: that of the root is every key, the keys in a
node lie in its span in ascending order and part it among the children
(`Routed`), and the call in progress stands at a node whose span holds its key
(`OnWay`). Nodes on one level have disjoint spans, so a search finds a pair
wherever it is stored: `Entries = Stored` and `Lost = {}` (`Answered`), and what
`BTreeShapeProofs` says of the stored pairs becomes what a search answers. The
one place where `AtEdge` is used is the split of a child, whose separator must
go behind the parent's last; with keys in any order the step
of `split_child` breaks `Routed`, which is the finding `btree_any_order`.
The same argument does not cover `EdgeCrashSpec`: after a kill inside a split a
parent names a node that does not exist, and `Tree` no longer holds.

`TableStoreProofs` proves, for every set of keys and payloads, every key type,
index-key function, page size, number of pages and set of clauses:

| theorem | statement |
|---|---|
| `TypeCorrect` | `CrashSpec => []TypeOK` |
| `CountedPages` | `CrashSpec => []PagesAreCounted` |
| `RowsStayPut` | `CrashSpec => RowsStay` |
| `EntriesPointAtRows` | for INT keys, `CrashSpec => []IndexPointsAtRows` |
| `KeysUnique` | `Spec => []UniquePk` |
| `LookupOnlyForStrings` | the index lookup of a clause is reached with string keys only |

Assumptions are the named `ASSUME`s of `TableRows` and `TableStore`: slots fit
in a page and in the stride, `Empty` is no row, `NoFile` is no page, and the
cast of an INT or BOOL key to `uint64_t` is injective (nothing is assumed of the
hash of a string).

The argument. `Inv` adds to the type invariant what a running statement relies
on from one step to the next: the page an insert works on (`InsertOK`: a page
being created has no file, a row being indexed is on its page) and where the
rows a delete has removed are (`DeleteOK`: in its current page still on disk
and matching the clause, in earlier pages cleared). Without it neither
`PagesAreCounted` nor `RowsStay` is inductive: `create_page` and the page write
of `remove` overwrite a whole page, and only the history of the statement says
that nothing else was on it. `PointInv` adds that the rows a delete has removed
from its current page have lost their entries (`GoneUnheld`), so that writing
the page leaves no entry dangling. `KeyInv` adds, for runs without a kill, that
every stored row is in the index, or just placed, or just removed
(`RowsAreIndexed`), and that the key of a running insert is still free: then
`insert`'s one question to the index is enough for uniqueness.

`SetImplemented` is the refinement: for INT keys and no BOOL column (the
code throws on its clauses, see `bool_clause_throws`), `Spec =>
ImplementsRowSet`. `SetInv` adds to the invariants above `PlacedCanBeWritten`
(the row of a running insert can be written) and `ScanIsExact` (the rows a
running DELETE has removed are finitely many, each once, and every matching row
in the slots it has passed is among them), so that at `EndDelete` the count is
the number of matching rows and none is left. With `KeyInv` and
`IndexPointsAtRows` each step maps to a step of `RowSet` or a stutter.

`PageBytesProofs` proves, for every set of types and sizes, every set of
layouts, page size, number of bits and of pages:

| theorem | statement |
|---|---|
| `TypeCorrect` | `Spec => []TypeOK` |
| `RowsFit` | `Spec => []RowsFitInPages` |
| `SlotsImplemented` | `Spec => ImplementsSlots` |

The inductive invariant is `TypeOK`, `OccupiedExist` (only bits of slots within
the page are set) and `StoredRows` (what an occupied slot spells is a row). The
heart is arithmetic: offsets grow with the column (`OffsetsGrow`), the bytes a
row reads are those last written for its column (`BytesOfColumn`), and writing
a slot leaves the bytes of every other slot alone (`BytesOfOtherSlot`). What
would be induction over numbers is the principle that a set of numbers has a
least member (`LeastOf`), which the provers can use as a statement about sets.

`CatalogProofs` proves, for every set of names and column lists and every number
of pages, with a stop at any step:

| theorem | statement |
|---|---|
| `TypeCorrect` | `Spec => []TypeOK` |
| `OthersStayWhole` | `Spec => []WholeTables` |
| `MemoryIsDisk` | `Spec => []MemoryMatchesDisk` |
| `OnlySpoiltKill` | `Spec => OnlySpoiltTablesKill` |
| `MapImplemented` | `Spec => ImplementsTableMap` |

`IInv` says what a start-up or a statement relies on from one file to the next:
`KnownOK` (at each point of start-up, the tables already read and those still to
be read are the directories), `FilesOK` (a name without a directory has no
files), `CreateOK` and `InsertOK` (how far a CREATE or a growing INSERT has
come, step by step: a page comes before its entry in the index, and a torn
index is the running insert's), and `WholeOK`, the property with memory added: a
whole table is on disk what it is in memory, but for the one file that is being
written. `WholeTables` alone is not inductive, for what a metadata file is
filled with comes from memory, and that an index in use has pages is due to the
order of the writes. `TableMap` has that order too: a page is added, and later
entered in the index, or not at all. Of `Wide` it is only assumed that its
members are column lists (`WideColumns`).

`StatementsProofs` proves, for every vocabulary, every set of known tables and
every length of lists:

| theorem | statement |
|---|---|
| `TypeCorrect` | `Spec => []TypeOK` |
| `UnderstoodMeant` | `Spec => []UnderstoodIsMeant` |
| `SpacingFree` | `Spec => []SpacingIsFree` |

The first two are not inductive, for neither says what was read. `IInv` adds
`Said`: at each position of a parser the tokens read so far are told from the position and
from what has been collected, comma by comma (after "select list" with two
names and an even index, they are `SELECT a , b`). The rules branch on the
parity or the rest by three of the token's index, as the loops of `engine.cpp`
do, so `Said` carries the number of tokens with it. One lemma per rule group
shows that a token more keeps it (`SelectStep`, `ClauseStep`, `CreateStep`,
`InsertStep` and the others); they rest on lemmas about `FlattenSeq` with one
member more (`FlattenAppend`), of which lists and parentheses are made. At the
end of a line `Said` leaves a `Whole` statement, and `WholeIsMeant` shows, kind
by kind, that its tokens and the call are a member of `Promised`. For INSERT
that takes `OrderIs` (columns named once each, all of them, are a permutation),
`NamesDiffer` (if each name led to its last column and all columns were
reached, no two share a name) and `RowIs` (then `ordered_columns` puts each
value in the column named at its place).

`SpacingIsFree` speaks of a text, not of the words read one by one. Its
invariant is `SInv`: until a string is left open, every word read is `Closed`
(alone, it ends at its last symbol) and both texts are `LaidOut`, each word at
its place with only spaces between, and no word before a symbol it would grow
with. A word more keeps that (`LaidGrows`). `SplitLaid` then shows that such a
text is cut into its words: where a word ends in a text is where it ends alone
(`EndsInText`), for strings, operators and other words in turn, and from the
last word to the first, `Split` finds at the end of each the words behind it.
`Split` is defined by recursion over positions; that such a function exists
(`SplitExists`) and what it is at each position (`SplitIs`) follow from
`LeastOf`, as above.

The assumptions are `Tables` (known tables have names and typed columns),
`ListBound`, `Vocabulary` (`Names` and `Values` hold what the words spell), and
`Spelling` (each word is an operator, a string, closed or not, or a run of other
symbols: a member of `read` is never two words of a text).

Assumptions of all these are the named `ASSUME`s of the modules.

Only model-checked: what a kill leaves of the tree (`ImplementsLossyIndex`,
`CrashLosesOnlyInSplit`; every proof about the tree's form is about the program
that is not killed); of `Statements`, `RefusedIsHopeless` (it needs the converse,
that a promised statement is read only one way, for every beginning of it); and
everything under fairness: `CallsReturn` and `StatementsReturn`, which the
prover does not reach.

## 5. What could follow

1. `BTree` under `EdgeCrashSpec`, for every size of node and key set: levels and
   spans of a tree some of whose last children do not exist, from which
   `ImplementsLossyIndex` and `CrashLosesOnlyInSplit` follow.
2. What the index promises for keys in any order (entries that hide and come
   back), as an abstract specification that `Spec` implements, and a `TableStore`
   on that index: rows stay and pages are counted, uniqueness fails.
3. `RefusedIsHopeless`, from `Said` and the uniqueness of the reading.
4. Torn node files in `BTree`.

Not modelled: `query_result.hpp` (nothing calls it), `main.cpp` (it builds the
engine and runs it), `set_data_dir` with any other directory than `"tables"`,
printing and prompts, exception texts, CMake files, tests. They hold no state
that a statement reads. The `hazards` without a property say why each has none:
torn node files, another `data_dir`, characters above 127 (undefined behaviour
before any state changes), and a table with two columns of one name, for which
nothing is promised.
