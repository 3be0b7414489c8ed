----------------------------- MODULE PageBytes -----------------------------
(***************************************************************************)
(* The pages of a table byte by byte: an occupancy bit for each slot and   *)
(* the data area, where slot s holds the bytes of a row from               *)
(* s * row_size on.  src/memory_layer.cpp, page_io.cpp, data_type.hpp.     *)
(* A statement is one step here; TableStore.tla has the steps inside it.   *)
(***************************************************************************)
EXTENDS Integers, Sequences, FiniteSets

CONSTANTS
  Type,            \* column types; VARCHAR_16 is one
  Size,            \* get_data_size
  Byte,            \* the values of a char, 0 among them
  Number,          \* values of the other types, as their bytes in memory
  Text,            \* strings, as sequences of bytes
  Layouts,         \* the column types of the tables: sequences of types
  SLOT_SPACE,      \* bytes of a page for rows
  MAX_OCCUPANCY,   \* occupancy bits of a page
  Stride,          \* 2^32: the half of a row locator
  MaxPages,        \* model bound on the number of pages
  Empty            \* no row (see PageSlots)

VARCHAR_16 == "VARCHAR_16"

ASSUME Types   == VARCHAR_16 \in Type /\ Size \in [Type -> Nat \ {0}]
ASSUME Bytes   == Byte \subseteq Nat /\ 0 \in Byte
ASSUME Numbers == /\ Number \in [Type \ {VARCHAR_16} -> SUBSET Seq(Byte)]
                  /\ \A t \in Type \ {VARCHAR_16} : \A v \in Number[t] : Len(v) = Size[t]
ASSUME Texts   == Text \subseteq Seq(Byte \ {0})
ASSUME Tables  == Layouts \subseteq Seq(Type) \ {<<>>}
ASSUME PageShape ==
  /\ SLOT_SPACE \in Nat /\ MAX_OCCUPANCY \in Nat \ {0} /\ MaxPages \in Nat /\ Stride \in Nat
  /\ MAX_OCCUPANCY <= Stride /\ MaxPages <= Stride

VARIABLES
  columns,   \* the column types of the table
  pages,     \* Table::pages
  file,      \* file[i] is what read_page(i) returns
  reply      \* what the last statement answered

vars == <<columns, pages, file, reply>>

DataByte == 0 .. SLOT_SPACE - 1
Page     == [occupancy : SUBSET (0 .. MAX_OCCUPANCY - 1), data : [DataByte -> Byte]]
NullPage == [occupancy |-> {}, data |-> [b \in DataByte |-> 0]]
----------------------------------------------------------------------------
(* write_to_bytes pads a string with zeros; read_data cuts it at the first *)
(* zero.  Any other value is copied.                                       *)
Padded(v) == [i \in 1 .. Size[VARCHAR_16] |-> IF i <= Len(v) THEN v[i] ELSE 0]

Encode(t, v) == IF t = VARCHAR_16 THEN Padded(v) ELSE v

Terminator(bytes) ==
  CHOOSE n \in 0 .. Len(bytes) :
    /\ \A i \in 1 .. n : bytes[i] # 0
    /\ n < Len(bytes) => bytes[n + 1] = 0

Decode(t, bytes) == IF t = VARCHAR_16 THEN SubSeq(bytes, 1, Terminator(bytes)) ELSE bytes

(* data_to_size: no value is wider than a string. *)
ASSUME Widths == \A t \in Type : Size[t] <= Size[VARCHAR_16]

(* column_offsets of each layout, with row_size behind the last one.       *)
Offsets ==
  [types \in Layouts |->
     CHOOSE f \in [1 .. Len(types) + 1 -> 0 .. Len(types) * Size[VARCHAR_16]] :
       f[1] = 0 /\ \A c \in DOMAIN types : f[c + 1] = f[c] + Size[types[c]]]

Offset(c) == Offsets[columns][c]
RowSize   == Offset(Len(columns) + 1)

MaxRows_AnyNumberOfBits == SLOT_SPACE \div RowSize
MaxRows_RoundedUp ==
  LET fitting == (SLOT_SPACE + RowSize - 1) \div RowSize
  IN  IF fitting < MAX_OCCUPANCY THEN fitting ELSE MAX_OCCUPANCY
(* max_occupancy *)
MaxRows ==
  LET fitting == SLOT_SPACE \div RowSize
  IN  IF fitting < MAX_OCCUPANCY THEN fitting ELSE MAX_OCCUPANCY

PageIds == 0 .. pages - 1
SlotIds == 0 .. MaxRows - 1

(* Values of a type, and those write_to_bytes accepts. *)
Value(t)    == IF t = VARCHAR_16 THEN Text ELSE Number[t]
Writable(t) == {v \in Value(t) : t = VARCHAR_16 => Len(v) <= Size[t]}
AnyRows(types) ==
  {r \in [DOMAIN types -> UNION {Value(t) : t \in Type}] :
     \A c \in DOMAIN types : r[c] \in Value(types[c])}
WritableRows(types) ==
  {r \in AnyRows(types) : \A c \in DOMAIN types : r[c] \in Writable(types[c])}
Rows     == WritableRows(columns)
LongRows == AnyRows(columns) \ Rows

ASSUME EmptyIsNoRow == \A types \in Layouts : Empty \notin AnyRows(types)
----------------------------------------------------------------------------
(* The bytes of column c of the row in slot s, and the row they spell.     *)
BytesAt(page, s, c) ==
  [i \in 1 .. Size[columns[c]] |-> page.data[s * RowSize + Offset(c) + i - 1]]
RowAt(page, s) == [c \in DOMAIN columns |-> Decode(columns[c], BytesAt(page, s, c))]

(* The column that byte b belongs to when the row starts at byte from.     *)
ColumnOf(b, from) == {c \in DOMAIN columns : b - from \in Offset(c) .. Offset(c + 1) - 1}

(* The data area once r is written to slot s. *)
WriteRow_NoPadding(data, s, r) ==
  [b \in DataByte |->
     IF \E c \in ColumnOf(b, s * RowSize) : b - s * RowSize - Offset(c) < Len(r[c])
     THEN LET c == CHOOSE d \in ColumnOf(b, s * RowSize) : TRUE
          IN  r[c][b - s * RowSize - Offset(c) + 1]
     ELSE data[b]]
WriteRow(data, s, r) ==
  [b \in DataByte |->
     IF ColumnOf(b, s * RowSize) # {}
     THEN LET c == CHOOSE d \in ColumnOf(b, s * RowSize) : TRUE
          IN  Encode(columns[c], r[c])[b - s * RowSize - Offset(c) + 1]
     ELSE data[b]]

HasRoom(page)   == Cardinality(page.occupancy) < MaxRows
FirstFree(page) == CHOOSE s \in SlotIds :
                     /\ s \notin page.occupancy
                     /\ \A k \in SlotIds : k < s => k \in page.occupancy

(* try_insert_at for a page with room *)
WithRow(page, s, r) ==
  [occupancy |-> page.occupancy \cup {s}, data |-> WriteRow(page.data, s, r)]

(* pack_row_locator and unpack_row_locator: 64 bits, the page in the upper *)
(* half.                                                                   *)
Pack(p, s)    == ((p * Stride) % (Stride * Stride)) + (s % Stride)
UnpackPage(l) == l \div Stride
UnpackSlot(l) == l % Stride

NoReply           == [is |-> "none"]
Inserted(r, p, s) == [is |-> "inserted", row |-> r, locator |-> Pack(p, s)]
Failed(r)         == [is |-> "failed", row |-> r]
Removed(n)        == [is |-> "removed", count |-> n]
Selected(rows)    == [is |-> "selected", rows |-> rows]
----------------------------------------------------------------------------
Init ==
  /\ columns \in Layouts
  /\ pages = 0
  /\ file = [i \in 0 .. MaxPages - 1 |-> NullPage]
  /\ reply = NoReply

Roomy == {i \in PageIds : HasRoom(file[i])}

(* insert, into the first page with room *)
Insert(r) ==
  \E i \in Roomy :
    LET s == FirstFree(file[i])
    IN  /\ \A j \in Roomy : i <= j
        /\ file' = [file EXCEPT ![i] = WithRow(@, s, r)]
        /\ reply' = Inserted(r, i, s)
        /\ UNCHANGED <<columns, pages>>

(* or into a new one.                                                      *)
InsertInNew(r) ==
  /\ Roomy = {}
  /\ pages < MaxPages
  /\ HasRoom(NullPage)
  /\ pages' = pages + 1
  /\ file' = [file EXCEPT ![pages] = WithRow(NullPage, FirstFree(NullPage), r)]
  /\ reply' = Inserted(r, pages, FirstFree(NullPage))
  /\ UNCHANGED columns

(* A new page has no room either: the row is refused and the page stays.   *)
InsertTooWide(r) ==
  /\ Roomy = {}
  /\ pages < MaxPages
  /\ ~HasRoom(NullPage)
  /\ pages' = pages + 1
  /\ file' = [file EXCEPT ![pages] = NullPage]
  /\ reply' = Failed(r)
  /\ UNCHANGED columns

(* write_to_bytes throws before the page, half overwritten in memory, is   *)
(* written.                                                                *)
InsertTooLong(r) ==
  /\ Roomy = {} => pages < MaxPages
  /\ pages' = IF Roomy = {} THEN pages + 1 ELSE pages
  /\ file' = IF Roomy = {} THEN [file EXCEPT ![pages] = NullPage] ELSE file
  /\ reply' = Failed(r)
  /\ UNCHANGED columns

(* The rows the scan of select and of remove finds for a clause on column  *)
(* c: reading them stays within the page.                                  *)
Found(c, V) ==
  {l \in PageIds \X SlotIds :
     /\ l[2] \in file[l[1]].occupancy
     /\ l[2] * RowSize + RowSize <= SLOT_SPACE
     /\ RowAt(file[l[1]], l[2])[c] \in V}

(* remove clears the bits and leaves the bytes.                            *)
Remove(c, V) ==
  /\ file' = [i \in DOMAIN file |->
                [file[i] EXCEPT !.occupancy = {s \in @ : <<i, s>> \notin Found(c, V)}]]
  /\ reply' = Removed(Cardinality(Found(c, V)))
  /\ UNCHANGED <<columns, pages>>

Select(c, V) ==
  /\ reply' = Selected({<<l, RowAt(file[l[1]], l[2])>> : l \in Found(c, V)})
  /\ UNCHANGED <<columns, pages, file>>

(* Clauses compare a column with a value, or hold for every row.           *)
Tests(t) == {{v} : v \in Writable(t)} \cup {Writable(t)}

Next ==
  \/ \E r \in Rows : Insert(r) \/ InsertInNew(r) \/ InsertTooWide(r)
  \/ \E r \in LongRows : InsertTooLong(r)
  \/ \E c \in DOMAIN columns : \E V \in Tests(columns[c]) : Remove(c, V) \/ Select(c, V)

Spec == Init /\ [][Next]_vars
----------------------------------------------------------------------------
(* Occupancy bits exist, data areas keep their length, and pages past the  *)
(* count have never been written.                                          *)
TypeOK ==
  /\ columns \in Layouts
  /\ pages \in 0 .. MaxPages
  /\ file \in [0 .. MaxPages - 1 -> Page]
  /\ \A i \in 0 .. MaxPages - 1 : i >= pages => file[i] = NullPage

(* Every row lies within its page, so the checks of select and remove      *)
(* against SLOT_SPACE never skip one, and no write reaches the bytes of    *)
(* another row.                                                            *)
RowsFitInPages ==
  \A i \in PageIds : \A s \in file[i].occupancy :
    s < MaxRows /\ s * RowSize + RowSize <= SLOT_SPACE

(* Read back through the bytes, the pages are those of PageSlots.          *)
SlotsOf(page) ==
  [s \in SlotIds |-> IF s \in page.occupancy THEN RowAt(page, s) ELSE Empty]

AllRows    == UNION {WritableRows(types) : types \in Layouts}
AllLong    == UNION {AnyRows(types) \ WritableRows(types) : types \in Layouts}
AllClauses ==
  UNION {UNION {{{r \in WritableRows(types) : r[c] \in V} : V \in Tests(types[c])} :
                  c \in DOMAIN types} :
           types \in Layouts}

SlotArrays == [n \in 1 .. pages |-> SlotsOf(file[n - 1])]

ReplyUnpacked ==
  IF reply.is = "inserted"
  THEN [is |-> "inserted", row |-> reply.row,
        at |-> <<UnpackPage(reply.locator), UnpackSlot(reply.locator)>>]
  ELSE reply

Slots == INSTANCE PageSlots
           WITH Row <- AllRows, LongRow <- AllLong, Clauses <- AllClauses,
                slotsPer <- MaxRows, slots <- SlotArrays, reply <- ReplyUnpacked

(* Whatever bytes an earlier row left behind, a row is read back as it was *)
(* inserted, no statement disturbs another row, and the locator an insert  *)
(* hands to the index unpacks to where the row is.                         *)
ImplementsSlots == Slots!SlotsSpec
=============================================================================
