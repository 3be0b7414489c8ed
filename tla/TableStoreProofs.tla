-------------------------- MODULE TableStoreProofs --------------------------
(***************************************************************************)
(* Theorems about TableStore for every table: any keys, rows, page size,   *)
(* index-key function and WHERE clauses.                                   *)
(***************************************************************************)
EXTENDS TableStore, FiniteSetTheorems, WellFoundedInduction, TLAPS

(* Every step of the program, crashes included. *)
Step == Next \/ Crash

(***************************************************************************)
(* What a running statement may rely on from one of its steps to the next. *)
(***************************************************************************)
InsertOK ==
  call.op = "insert" =>
    /\ call.step = "place" =>
         pages < MaxPages \/ \E i \in 0 .. pages - 1 : HasRoom(i)
    /\ call.step = "create" => call.page = pages - 1 /\ page[call.page] = NoFile
    /\ call.step = "placeNew" => call.page = pages - 1
    /\ call.step = "index" =>
         /\ call.page < pages
         /\ Occupied(call.page, call.slot)
         /\ ReadPage(call.page)[call.slot] = call.row

DeleteOK ==
  call.op = "delete" =>
    \A g \in call.gone :
      /\ g[1][1] <= call.page
      /\ g[1][1] = call.page =>
           /\ g[1][2] < call.slot
           /\ RowAt(g[1]) = g[2]
           /\ Matches(call.pred, g[2])
      /\ g[1][1] < call.page => ~Occupied(g[1][1], g[1][2])

Inv == TypeOK /\ PagesAreCounted /\ InsertOK /\ DeleteOK
----------------------------------------------------------------------------
(* The fields of a call have the types of CallType. *)
LEMMA InsertFields ==
  ASSUME TypeOK, call.op = "insert"
  PROVE  /\ call \in [op : {"insert"}, step : {"place", "create", "placeNew", "index"},
                      row : Row, page : PageIds, slot : SlotIds]
BY DEF TypeOK, CallType, None

LEMMA DeleteFields ==
  ASSUME TypeOK, call.op = "delete"
  PROVE  call \in [op : {"delete"}, pred : Predicates, page : 0 .. MaxPages,
                   slot : 0 .. Slots, gone : SUBSET (Locations \X Row)]
BY DEF TypeOK, CallType, None

(* What read_page returns is a page. *)
LEMMA ReadPageType ==
  ASSUME TypeOK, NEW i \in PageIds
  PROVE  ReadPage(i) \in Page
BY DEF TypeOK, ReadPage, Page, EmptyPage

LEMMA InvInit == Init => Inv
<1> SUFFICES ASSUME Init PROVE Inv
  OBVIOUS
<1>1. TypeOK
  BY PageBound, PageShape DEF Init, TypeOK, CallType, None, Index!IndexInit, Index!IndexTypeOK
<1>2. PagesAreCounted /\ InsertOK /\ DeleteOK
  BY DEF Init, PagesAreCounted, InsertOK, DeleteOK, None
<1> QED BY <1>1, <1>2 DEF Inv

(* Writing page i changes what is read from page i and from no other. *)
LEMMA ReadAfterWrite ==
  ASSUME TypeOK, NEW i \in PageIds, NEW data \in Page, WritePage(i, data)
  PROVE  /\ page' \in [PageIds -> Page \cup {NoFile}]
         /\ page'[i] = data
         /\ \A j \in PageIds : j # i => page'[j] = page[j]
         /\ ReadPage(i)' = data
         /\ \A j \in PageIds : j # i => ReadPage(j)' = ReadPage(j)
BY NoFileIsNoPage DEF TypeOK, WritePage, ReadPage

(* What try_insert_at does: one empty slot of page i takes the row. *)
LEMMA PlaceInEffect ==
  ASSUME Inv, call.op = "insert", NEW i \in PageIds, PlaceIn(i)
  PROVE  \E s \in SlotIds :
           /\ ~Occupied(i, s)
           /\ [ReadPage(i) EXCEPT ![s] = call.row] \in Page
           /\ WritePage(i, [ReadPage(i) EXCEPT ![s] = call.row])
           /\ call' = Inserting("index", call.row, i, s)
<1>1. call.row \in Row
  BY InsertFields DEF Inv
<1>2. ReadPage(i) \in Page
  BY ReadPageType DEF Inv
<1>3. PICK s \in SlotIds :
        /\ ~Occupied(i, s)
        /\ WritePage(i, [ReadPage(i) EXCEPT ![s] = call.row])
        /\ call' = Inserting("index", call.row, i, s)
  BY DEF PlaceIn
<1>4. [ReadPage(i) EXCEPT ![s] = call.row] \in Page
  BY <1>1, <1>2 DEF Page
<1> QED BY <1>3, <1>4

LEMMA PlaceInKeepsInv ==
  ASSUME Inv, call.op = "insert", NEW i \in PageIds, i < pages, PlaceIn(i)
  PROVE  Inv'
<1>1. UNCHANGED <<pages, saved, entries, lost>>
  BY DEF PlaceIn
<1>2. PICK s \in SlotIds :
        /\ [ReadPage(i) EXCEPT ![s] = call.row] \in Page
        /\ WritePage(i, [ReadPage(i) EXCEPT ![s] = call.row])
        /\ call' = Inserting("index", call.row, i, s)
  BY PlaceInEffect
<1>3. /\ page' \in [PageIds -> Page \cup {NoFile}]
      /\ \A j \in PageIds : j # i => page'[j] = page[j]
      /\ ReadPage(i)' = [ReadPage(i) EXCEPT ![s] = call.row]
  BY <1>2, ReadAfterWrite DEF Inv
<1>4. call.row \in Row /\ call.row # Empty
  BY InsertFields, EmptyIsNoRow DEF Inv
<1>5. TypeOK'
  <2>1. call' \in CallType
    BY <1>2, <1>4 DEF CallType, Inserting
  <2> QED BY <1>1, <1>3, <2>1 DEF Inv, TypeOK, Index!IndexTypeOK, Index!Holds
<1>6. PagesAreCounted'
  BY <1>1, <1>3 DEF Inv, TypeOK, PagesAreCounted
<1>7. InsertOK'
  <2>1. ReadPage(i)'[s] = call.row
    BY <1>3, ReadPageType DEF Inv, Page
  <2> QED BY <1>1, <1>2, <1>4, <2>1 DEF InsertOK, Inserting, Occupied
<1>8. DeleteOK'
  BY <1>2 DEF DeleteOK, Inserting
<1> QED BY <1>5, <1>6, <1>7, <1>8 DEF Inv

(* Steps that change neither the table nor the call. *)
LEMMA InvFrame ==
  ASSUME Inv, UNCHANGED <<page, pages, saved, entries, lost, call>>
  PROVE  Inv'
BY DEF Inv, TypeOK, PagesAreCounted, InsertOK, DeleteOK, Index!IndexTypeOK, Index!Holds,
   HasRoom, Occupied, ReadPage, RowAt

(* Steps that end the call and leave the pages alone. *)
LEMMA InvAtEnd ==
  ASSUME Inv, UNCHANGED page, pages' = saved, saved' = saved, call' = None,
         Index!IndexTypeOK'
  PROVE  Inv'
BY DEF Inv, TypeOK, PagesAreCounted, InsertOK, DeleteOK, None, CallType

(* The index stays a map with keys and values of its own. *)
LEMMA IndexKept ==
  ASSUME Index!IndexTypeOK
  PROVE  /\ UNCHANGED <<entries, lost>> => Index!IndexTypeOK'
         /\ \A k : Index!Delete(k) => Index!IndexTypeOK'
         /\ \A L \in SUBSET {KeyOf[k] : k \in Pk} : Index!Lose(L) => Index!IndexTypeOK'
         /\ \A k \in {KeyOf[j] : j \in Pk}, v \in {Locator(l[1], l[2]) : l \in Locations} :
              Index!Put(k, v) => Index!IndexTypeOK'
<1>1. UNCHANGED <<entries, lost>> => Index!IndexTypeOK'
  BY DEF Index!IndexTypeOK, Index!Holds
<1>2. ASSUME NEW k, Index!Delete(k) PROVE Index!IndexTypeOK'
  BY <1>2 DEF Index!IndexTypeOK, Index!Holds, Index!Delete
<1>3. ASSUME NEW L \in SUBSET {KeyOf[k] : k \in Pk}, Index!Lose(L) PROVE Index!IndexTypeOK'
  BY <1>3 DEF Index!IndexTypeOK, Index!Holds, Index!Lose
<1>4. ASSUME NEW k \in {KeyOf[j] : j \in Pk},
             NEW v \in {Locator(l[1], l[2]) : l \in Locations},
             Index!Put(k, v)
      PROVE  Index!IndexTypeOK'
  BY <1>4 DEF Index!IndexTypeOK, Index!Holds, Index!Put
<1> QED BY <1>1, <1>2, <1>3, <1>4

(* Every step of the program keeps the invariant. *)
LEMMA InvStep == Inv /\ [Step]_vars => Inv'
<1> SUFFICES ASSUME Inv, [Step]_vars PROVE Inv'
  OBVIOUS
<1>t. TypeOK /\ PagesAreCounted /\ InsertOK /\ DeleteOK /\ Index!IndexTypeOK
  BY DEF Inv, TypeOK
<1>1. CASE UNCHANGED vars
  BY <1>1, InvFrame DEF vars
<1>2. ASSUME NEW r \in Row, RefuseInsert(r) PROVE Inv'
  BY <1>2, InvFrame DEF RefuseInsert
<1>3. ASSUME NEW r \in Row, BeginInsert(r) PROVE Inv'
  <2>1. /\ call' = Inserting("place", r, 0, 0)
        /\ pages < MaxPages \/ \E i \in 0 .. pages - 1 : HasRoom(i)
        /\ UNCHANGED <<page, pages, saved, entries, lost>>
    BY <1>3 DEF BeginInsert
  <2>2. 0 \in PageIds /\ 0 \in SlotIds
    BY <1>t, <2>1, PageBound, PageShape DEF TypeOK, PageIds, SlotIds
  <2>3. TypeOK'
    BY <1>t, <2>1, <2>2, IndexKept DEF TypeOK, CallType, Inserting
  <2>4. InsertOK'
    BY <2>1 DEF InsertOK, Inserting, HasRoom, Occupied, ReadPage
  <2> QED BY <1>t, <2>1, <2>3, <2>4 DEF Inv, PagesAreCounted, DeleteOK, Inserting
<1>4. CASE Place
  <2>1. call.op = "insert" /\ \E i \in 0 .. pages - 1 : PlaceIn(i)
    BY <1>4 DEF Place
  <2> QED BY <1>t, <2>1, PlaceInKeepsInv, PageBound DEF TypeOK, PageIds
<1>5. CASE Grow
  <2>1. /\ call.op = "insert" /\ call.step = "place"
        /\ \A i \in 0 .. pages - 1 : ~HasRoom(i)
        /\ pages' = pages + 1 /\ saved' = pages + 1
        /\ call' = Inserting("create", call.row, pages, 0)
        /\ UNCHANGED <<page, entries, lost>>
    BY <1>5 DEF Grow
  <2>2. pages < MaxPages
    BY <1>t, <2>1 DEF InsertOK
  <2>3. pages \in PageIds /\ page[pages] = NoFile
    BY <1>t, <2>2, PageBound DEF TypeOK, PageIds, PagesAreCounted
  <2>4. TypeOK'
    <3>1. call' \in CallType
      BY <1>t, <2>1, <2>3, InsertFields, PageShape DEF CallType, Inserting, SlotIds
    <3> QED BY <1>t, <2>1, <2>2, <3>1, IndexKept, PageBound DEF TypeOK
  <2>5. PagesAreCounted'
    BY <1>t, <2>1, PageBound DEF TypeOK, PagesAreCounted, PageIds
  <2>6. InsertOK'
    BY <1>t, <2>1, <2>3, PageBound DEF InsertOK, Inserting, TypeOK
  <2>7. DeleteOK'
    BY <2>1 DEF DeleteOK, Inserting
  <2> QED BY <2>4, <2>5, <2>6, <2>7 DEF Inv
<1>6. CASE CreatePage
  <2>1. /\ call.op = "insert" /\ call.step = "create"
        /\ WritePage(call.page, EmptyPage)
        /\ call' = Inserting("placeNew", call.row, call.page, 0)
        /\ UNCHANGED <<pages, saved, entries, lost>>
    BY <1>6 DEF CreatePage
  <2>2. call.page \in PageIds /\ call' \in CallType
    BY <1>t, <2>1, InsertFields, PageShape DEF CallType, Inserting, SlotIds
  <2>3. EmptyPage \in Page
    BY DEF EmptyPage, Page
  <2>4. /\ page' \in [PageIds -> Page \cup {NoFile}]
        /\ \A j \in PageIds : j # call.page => page'[j] = page[j]
    BY <1>t, <2>1, <2>2, <2>3, ReadAfterWrite
  <2>5. call.page = pages - 1
    BY <1>t, <2>1 DEF InsertOK
  <2>6. TypeOK'
    BY <1>t, <2>1, <2>2, <2>4, IndexKept DEF TypeOK
  <2>7. PagesAreCounted'
    BY <1>t, <2>1, <2>4, <2>5, PageBound DEF TypeOK, PagesAreCounted, PageIds
  <2>8. InsertOK' /\ DeleteOK'
    BY <2>1, <2>5 DEF InsertOK, DeleteOK, Inserting
  <2> QED BY <2>6, <2>7, <2>8 DEF Inv
<1>7. CASE PlaceInNewPage
  <2>1. call.op = "insert" /\ call.step = "placeNew" /\ PlaceIn(call.page)
    BY <1>7 DEF PlaceInNewPage
  <2>2. call.page \in PageIds /\ call.page < pages
    BY <1>t, <2>1, InsertFields, PageBound DEF InsertOK, PageIds, TypeOK
  <2> QED BY <2>1, <2>2, PlaceInKeepsInv
<1>8. CASE IndexRow
  <2>1. /\ call.op = "insert"
        /\ Index!Put(KeyOf[call.row.pk], Locator(call.page, call.slot))
        /\ call' = None
        /\ UNCHANGED <<page, pages, saved>>
    BY <1>8 DEF IndexRow
  <2>2. call.row \in Row /\ <<call.page, call.slot>> \in Locations
    BY <1>t, <2>1, InsertFields DEF Locations
  <2>3. /\ KeyOf[call.row.pk] \in {KeyOf[k] : k \in Pk}
        /\ Locator(call.page, call.slot) \in {Locator(l[1], l[2]) : l \in Locations}
    BY <2>2 DEF Row
  <2>4. Index!IndexTypeOK'
    BY <1>t, <2>1, <2>3, IndexKept
  <2> QED BY <1>t, <2>1, <2>4, InvAtEnd DEF TypeOK
<1>9. CASE PlaceThrows \/ IndexRowThrows
  BY <1>t, <1>9, IndexKept, InvAtEnd DEF PlaceThrows, IndexRowThrows, TypeOK
<1>10. ASSUME NEW p \in Predicates, RejectPredicate(p) \/ Select(p) PROVE Inv'
  BY <1>10, InvFrame DEF RejectPredicate, Select
<1>11. ASSUME NEW p \in Predicates, BeginDelete(p) PROVE Inv'
  <2>1. call' = Deleting(p, 0, 0, {}) /\ UNCHANGED <<page, pages, saved, entries, lost>>
    BY <1>11 DEF BeginDelete
  <2>2. TypeOK'
    BY <1>t, <2>1, IndexKept, PageBound, PageShape DEF TypeOK, CallType, Deleting
  <2> QED BY <1>t, <2>1, <2>2 DEF Inv, PagesAreCounted, InsertOK, DeleteOK, Deleting
<1>12. CASE DeleteRow
  <2> DEFINE here(s) == <<call.page, s>>
  <2>1. PICK s \in SlotIds :
          /\ NextDoomed(s)
          /\ call' = Deleting(call.pred, call.page, s + 1,
                              call.gone \cup {<<here(s), ReadPage(call.page)[s]>>})
          /\ Index!IndexTypeOK'
    <3>1. PICK s \in SlotIds :
            /\ NextDoomed(s)
            /\ IF PkType = "INT" THEN Index!Delete(KeyOf[ReadPage(call.page)[s].pk])
                                 ELSE UNCHANGED <<entries, lost>>
            /\ call' = Deleting(call.pred, call.page, s + 1,
                              call.gone \cup {<<here(s), ReadPage(call.page)[s]>>})
      BY <1>12 DEF DeleteRow
    <3>2. Index!IndexTypeOK'
      BY <1>t, <3>1, IndexKept
    <3> QED BY <3>1, <3>2
  <2>2. /\ call.op = "delete" /\ call.page < pages
        /\ UNCHANGED <<page, pages, saved>>
    BY <1>12 DEF DeleteRow, Scanning
  <2>3. /\ call.pred \in Predicates /\ call.page \in 0 .. MaxPages
        /\ call.slot \in 0 .. Slots
        /\ call.gone \subseteq Locations \X Row
    BY <1>t, <2>2, DeleteFields
  <2>4. call.page \in PageIds /\ here(s) \in Locations
    BY <1>t, <2>2, <2>3, PageBound DEF TypeOK, PageIds, Locations
  <2>5. /\ Occupied(call.page, s) /\ s >= call.slot
        /\ Matches(call.pred, ReadPage(call.page)[s])
        /\ ReadPage(call.page)[s] \in Row
    BY <1>t, <2>1, <2>4, ReadPageType DEF NextDoomed, Doomed, Occupied, Page
  <2>6. TypeOK'
    <3>1. s + 1 \in 0 .. Slots
      BY PageShape DEF SlotIds
    <3>2. call' \in CallType
      BY <2>1, <2>3, <2>4, <2>5, <3>1 DEF CallType, Deleting
    <3> QED BY <1>t, <2>1, <2>2, <3>2 DEF TypeOK
  <2>7. DeleteOK'
    <3> SUFFICES ASSUME NEW g \in call.gone \cup {<<here(s), ReadPage(call.page)[s]>>}
                 PROVE  /\ g[1][1] <= call.page
                        /\ g[1][1] = call.page =>
                             /\ g[1][2] < s + 1
                             /\ RowAt(g[1]) = g[2]
                             /\ Matches(call.pred, g[2])
                        /\ g[1][1] < call.page => ~Occupied(g[1][1], g[1][2])
      BY <2>1, <2>2 DEF DeleteOK, Deleting, RowAt, Occupied, ReadPage
    <3>1. CASE g \in call.gone
      <4>1. g[1][2] \in SlotIds
        BY <2>3, <3>1 DEF Locations
      <4> QED BY <1>t, <2>2, <2>3, <2>5, <3>1, <4>1 DEF DeleteOK, SlotIds
    <3>2. CASE g = <<here(s), ReadPage(call.page)[s]>>
      BY <2>3, <2>5, <3>2 DEF RowAt, SlotIds
    <3> QED BY <3>1, <3>2
  <2> QED BY <1>t, <2>1, <2>2, <2>6, <2>7 DEF Inv, PagesAreCounted, InsertOK, Deleting
<1>13. CASE DeleteThrows
  BY <1>t, <1>13, IndexKept, InvAtEnd DEF DeleteThrows, TypeOK
<1>14. CASE LeavePage
  <2> DEFINE rest == [s \in SlotIds |->
               IF s \in Cleared(call.page) THEN Empty ELSE ReadPage(call.page)[s]]
  <2>1. /\ call.op = "delete" /\ call.page < pages
        /\ IF Cleared(call.page) = {} THEN UNCHANGED page
                                      ELSE WritePage(call.page, rest)
        /\ call' = Deleting(call.pred, call.page + 1, 0, call.gone)
        /\ UNCHANGED <<pages, saved, entries, lost>>
    BY <1>14 DEF LeavePage, Scanning
  <2>2. /\ call.pred \in Predicates /\ call.page \in 0 .. MaxPages
        /\ call.gone \subseteq Locations \X Row
    BY <1>t, <2>1, DeleteFields
  <2>3. PICK i \in PageIds : i = call.page
    BY <1>t, <2>1, <2>2, PageBound DEF TypeOK, PageIds
  <2>4. rest \in Page
    BY <1>t, <2>3, ReadPageType DEF Page
  <2>5. /\ page' \in [PageIds -> Page \cup {NoFile}]
        /\ \A j \in PageIds : j # i => page'[j] = page[j]
        /\ \A s \in Cleared(i) : ReadPage(i)'[s] = Empty
        /\ \A j \in PageIds : j # i => ReadPage(j)' = ReadPage(j)
    <3>1. CASE Cleared(i) = {}
      BY <1>t, <2>1, <2>3, <3>1 DEF TypeOK, ReadPage
    <3>2. CASE Cleared(i) # {}
      <4>1. WritePage(i, rest)
        BY <2>1, <2>3, <3>2
      <4>2. ReadPage(i)' = rest
        BY <1>t, <2>3, <2>4, <4>1, ReadAfterWrite
      <4>3. \A s \in Cleared(i) : rest[s] = Empty
        BY <2>3 DEF Cleared
      <4> QED BY <1>t, <2>4, <2>3, <4>1, <4>2, <4>3, ReadAfterWrite
    <3> QED BY <3>1, <3>2
  <2>6. TypeOK'
    <3>1. call' \in CallType
      BY <1>t, <2>1, <2>2, <2>3, PageShape, PageBound DEF CallType, Deleting, TypeOK
    <3> QED BY <1>t, <2>1, <2>5, <3>1, IndexKept DEF TypeOK
  <2>7. PagesAreCounted'
    BY <1>t, <2>1, <2>3, <2>5 DEF TypeOK, PagesAreCounted, PageIds
  <2>8. DeleteOK'
    <3> SUFFICES ASSUME NEW g \in call.gone
                 PROVE  /\ g[1][1] < i + 1
                        /\ ReadPage(g[1][1])'[g[1][2]] = Empty
      BY <2>1, <2>2, <2>3 DEF DeleteOK, Deleting, Occupied, Locations, PageIds
    <3>1. g[1] \in Locations /\ g[1] = <<g[1][1], g[1][2]>>
      BY <2>2 DEF Locations
    <3>2. g[1][1] \in PageIds /\ g[1][2] \in SlotIds /\ g[1][1] <= i
      BY <1>t, <2>1, <2>3, <3>1 DEF Locations, DeleteOK
    <3>3. CASE g[1][1] = i
      <4>1. g[1][2] \in Cleared(i)
        BY <3>1, <3>2, <3>3 DEF Cleared
      <4> QED BY <2>5, <3>2, <3>3, <4>1 DEF PageIds
    <3>4. CASE g[1][1] < i
      BY <1>t, <2>1, <2>2, <2>3, <2>5, <3>2, <3>4 DEF DeleteOK, Occupied, PageIds
    <3> QED BY <2>2, <3>2, <3>3, <3>4 DEF PageIds
  <2> QED BY <1>t, <2>1, <2>6, <2>7, <2>8 DEF Inv, InsertOK, Deleting
<1>15. CASE EndDelete
  BY <1>t, <1>15, IndexKept, InvAtEnd DEF EndDelete, TypeOK
<1>16. CASE Restart
  BY <1>t, <1>16, IndexKept, InvAtEnd DEF Restart, TypeOK, Idle
<1>17. CASE Crash
  BY <1>t, <1>17, IndexKept, InvAtEnd DEF Crash, TypeOK
<1> QED
  BY <1>1, <1>2, <1>3, <1>4, <1>5, <1>6, <1>7, <1>8, <1>9, <1>10, <1>11, <1>12, <1>13,
     <1>14, <1>15, <1>16, <1>17 DEF Step, Next, Running, Statements
----------------------------------------------------------------------------
(* The steps of a program that is never killed are steps of one that may   *)
(* be, so an invariant of the second is one of the first.                  *)
LEMMA RunsAreCrashRuns == Spec => CrashSpec
<1>1. [Next]_vars => [Next \/ Crash]_vars
  OBVIOUS
<1> QED BY <1>1, PTL DEF Spec, CrashSpec

LEMMA InvAlways == CrashSpec => []Inv
<1>1. Inv /\ [Next \/ Crash]_vars => Inv'
  BY InvStep DEF Step
<1> QED BY InvInit, <1>1, PTL DEF CrashSpec

(* Pages, page counts, index and running statement keep their types, and   *)
(* the page count in memory is the one in the metadata file, at every step *)
(* of every statement and after every crash.                               *)
THEOREM TypeCorrect == CrashSpec => []TypeOK
<1>1. Inv => TypeOK
  BY DEF Inv
<1> QED BY InvAlways, <1>1, PTL

(* A restart sees every page of the table: write_table_metadata comes      *)
(* before create_page, so no page file lies beyond the saved count.        *)
THEOREM CountedPages == CrashSpec => []PagesAreCounted
<1>1. Inv => PagesAreCounted
  BY DEF Inv
<1> QED BY InvAlways, <1>1, PTL

(* No string predicate reaches the lookup of pk_equality_fast_path with a  *)
(* key type the lookup accepts (INT or BOOL), and no other predicate       *)
(* reaches it at all: the comparison of the two type positions lets only   *)
(* string predicates through, so every statement scans the pages.          *)
THEOREM LookupOnlyForStrings ==
  ASSUME NEW p \in Predicates, FastPath(p) = "lookup"
  PROVE  PkType = "VARCHAR_16"
BY PredicatesAreTyped, TypesAreColumnTypes
   DEF FastPath, Comparison, NullPredicate, ColumnType, PredicateIndex, DataTypeIndex
----------------------------------------------------------------------------
(* try_insert_at leaves every row that is there where it is.               *)
LEMMA PlaceInKeepsRows ==
  ASSUME Inv, call.op = "insert", NEW i \in PageIds, PlaceIn(i),
         NEW l \in Locations, Occupied(l[1], l[2])
  PROVE  ReadPage(l[1])'[l[2]] = ReadPage(l[1])[l[2]]
<1>1. PICK s \in SlotIds :
        /\ ~Occupied(i, s)
        /\ [ReadPage(i) EXCEPT ![s] = call.row] \in Page
        /\ WritePage(i, [ReadPage(i) EXCEPT ![s] = call.row])
  BY PlaceInEffect
<1>2. /\ ReadPage(i)' = [ReadPage(i) EXCEPT ![s] = call.row]
      /\ \A j \in PageIds : j # i => ReadPage(j)' = ReadPage(j)
  BY <1>1, ReadAfterWrite DEF Inv
<1>3. ReadPage(i) \in Page /\ l[1] \in PageIds /\ l[2] \in SlotIds
  BY ReadPageType DEF Inv, Locations
<1>4. CASE l[1] = i
  <2>1. l[2] # s
    BY <1>1, <1>4
  <2> QED BY <1>2, <1>3, <1>4, <2>1 DEF Page
<1> QED BY <1>2, <1>3, <1>4

(* create_page makes a page where there was none. *)
LEMMA CreatePageKeepsRows ==
  ASSUME Inv, CreatePage, NEW l \in Locations, Occupied(l[1], l[2])
  PROVE  ReadPage(l[1])'[l[2]] = ReadPage(l[1])[l[2]]
<1>1. PICK i \in PageIds : i = call.page
  BY InsertFields DEF Inv, CreatePage
<1>2. page[i] = NoFile /\ WritePage(i, EmptyPage)
  BY <1>1 DEF Inv, InsertOK, CreatePage
<1>3. l[1] \in PageIds /\ l[2] \in SlotIds
  BY DEF Locations
<1>4. l[1] # i
  BY <1>2, <1>3 DEF Occupied, ReadPage, EmptyPage
<1>5. EmptyPage \in Page
  BY DEF EmptyPage, Page
<1> QED BY <1>2, <1>3, <1>4, <1>5, ReadAfterWrite DEF Inv

(* The page a DELETE leaves is written without the rows it has removed     *)
(* there, and as it was in every other slot.                               *)
LEMMA LeavePageEffect ==
  ASSUME Inv, LeavePage, NEW l \in Locations, Occupied(l[1], l[2])
  PROVE  /\ (\E g \in call.gone : g[1] = l /\ l[1] = call.page) =>
              ReadPage(l[1])'[l[2]] = Empty
         /\ ~(\E g \in call.gone : g[1] = l /\ l[1] = call.page) =>
              ReadPage(l[1])'[l[2]] = ReadPage(l[1])[l[2]]
<1>1. call.op = "delete" /\ call.page < pages /\ call.page \in 0 .. MaxPages
  BY DeleteFields DEF Inv, LeavePage, Scanning
<1>2. PICK i \in PageIds : i = call.page
  BY <1>1, PageBound DEF Inv, TypeOK, PageIds
<1>3. l[1] \in PageIds /\ l[2] \in SlotIds /\ l = <<l[1], l[2]>>
  BY DEF Locations
<1>4. l[1] = i => (l[2] \in Cleared(i) <=> \E g \in call.gone : g[1] = l)
  BY <1>3 DEF Cleared
<1> DEFINE rest == [s \in SlotIds |-> IF s \in Cleared(i) THEN Empty ELSE ReadPage(i)[s]]
<1>5. ReadPage(i) \in Page
  BY ReadPageType DEF Inv
<1>6. rest \in Page
  BY <1>5 DEF Page
<1>7. CASE Cleared(i) = {}
  <2>1. page' = page
    BY <1>2, <1>7 DEF LeavePage
  <2> QED BY <1>2, <1>3, <1>4, <1>7, <2>1 DEF ReadPage
<1>8. CASE Cleared(i) # {}
  <2>1. WritePage(i, rest)
    BY <1>2, <1>8 DEF LeavePage
  <2>2. /\ ReadPage(i)' = rest
        /\ \A j \in PageIds : j # i => ReadPage(j)' = ReadPage(j)
    BY <1>6, <2>1, ReadAfterWrite DEF Inv
  <2> QED BY <1>2, <1>3, <1>4, <2>2
<1> QED BY <1>7, <1>8

(* ... and nothing is put in a slot that was empty. *)
LEMMA LeavePageFillsNone ==
  ASSUME Inv, LeavePage, NEW l \in Locations, ReadPage(l[1])'[l[2]] # Empty
  PROVE  Occupied(l[1], l[2])
<1>1. call.op = "delete" /\ call.page < pages /\ call.page \in 0 .. MaxPages
  BY DeleteFields DEF Inv, LeavePage, Scanning
<1>2. PICK i \in PageIds : i = call.page
  BY <1>1, PageBound DEF Inv, TypeOK, PageIds
<1>3. l[1] \in PageIds /\ l[2] \in SlotIds
  BY DEF Locations
<1> DEFINE rest == [s \in SlotIds |-> IF s \in Cleared(i) THEN Empty ELSE ReadPage(i)[s]]
<1>4. rest \in Page
  BY ReadPageType DEF Inv, Page
<1>5. CASE Cleared(i) = {}
  <2>1. page' = page
    BY <1>2, <1>5 DEF LeavePage
  <2> QED BY <2>1 DEF ReadPage, Occupied
<1>6. CASE Cleared(i) # {}
  <2>1. WritePage(i, rest)
    BY <1>2, <1>6 DEF LeavePage
  <2>2. /\ ReadPage(i)' = rest
        /\ \A j \in PageIds : j # i => ReadPage(j)' = ReadPage(j)
    BY <1>4, <2>1, ReadAfterWrite DEF Inv
  <2> QED BY <1>3, <2>2 DEF Occupied
<1> QED BY <1>5, <1>6

(* A stored row keeps its place and its content through every step but the *)
(* DELETE of a clause that holds for it: no insert, restart or crash       *)
(* overwrites or loses it.                                                 *)
THEOREM RowsStayPut == CrashSpec => RowsStay
<1> DEFINE Stays ==
      \A l \in Locations :
        Occupied(l[1], l[2]) =>
          \/ RowAt(l)' = RowAt(l)
          \/ call.op = "delete" /\ Matches(call.pred, RowAt(l))
<1>1. Inv /\ [Next \/ Crash]_vars => [Stays]_vars
  <2> SUFFICES ASSUME Inv, Next \/ Crash, NEW l \in Locations, Occupied(l[1], l[2]),
                      ~(call.op = "delete" /\ Matches(call.pred, RowAt(l)))
               PROVE  ReadPage(l[1])'[l[2]] = ReadPage(l[1])[l[2]]
    BY DEF RowAt
  <2>1. CASE Place \/ PlaceInNewPage
    <3>1. call.op = "insert" /\ \E i \in PageIds : PlaceIn(i)
      BY <2>1, InsertFields, PageBound DEF Place, PlaceInNewPage, Inv, TypeOK, PageIds
    <3> QED BY <3>1, PlaceInKeepsRows
  <2>2. CASE CreatePage
    BY <2>2, CreatePageKeepsRows
  <2>3. CASE LeavePage
    <3>1. ~\E g \in call.gone : g[1] = l /\ l[1] = call.page
      <4> SUFFICES ASSUME NEW g \in call.gone, g[1] = l, l[1] = call.page
                   PROVE  FALSE
        OBVIOUS
      <4>1. call.op = "delete"
        BY <2>3 DEF LeavePage, Scanning
      <4> QED BY <4>1 DEF Inv, DeleteOK
    <3> QED BY <2>3, <3>1, LeavePageEffect
  <2>4. CASE UNCHANGED page
    BY <2>4 DEF ReadPage
  <2>5. UNCHANGED page \/ Place \/ PlaceInNewPage \/ CreatePage \/ LeavePage
    BY DEF Next, Running, Statements, Crash, Grow, PlaceThrows, IndexRow, IndexRowThrows, DeleteRow,
       DeleteThrows, EndDelete, RefuseInsert, BeginInsert, RejectPredicate, Select,
       BeginDelete, Restart
  <2> QED BY <2>1, <2>2, <2>3, <2>4, <2>5
<1> QED BY InvAlways, <1>1, PTL DEF CrashSpec, RowsStay
----------------------------------------------------------------------------
(* An INT table's DELETE takes the entry of every row it removes.          *)
GoneUnheld ==
  call.op = "delete" =>
    \A g \in call.gone : g[1][1] = call.page => ~Index!Holds(KeyOf[g[2].pk])

PointInv == Inv /\ GoneUnheld /\ IndexPointsAtRows

(* Steps that keep every row and add no entry keep the entries pointing at *)
(* rows.                                                                   *)
LEMMA PointFrame ==
  ASSUME Inv, IndexPointsAtRows, entries' \subseteq entries, pages' >= pages,
         pages' \in 0 .. MaxPages,
         \A l \in Locations :
           Occupied(l[1], l[2]) => ReadPage(l[1])'[l[2]] = ReadPage(l[1])[l[2]]
  PROVE  IndexPointsAtRows'
<1> SUFFICES ASSUME NEW e \in entries
             PROVE  \E l \in Stored(pages)' :
                      e[2] = Locator(l[1], l[2]) /\ e[1] = KeyOf[RowAt(l)'.pk]
  BY DEF IndexPointsAtRows
<1>1. PICK l \in Stored(pages) :
        e[2] = Locator(l[1], l[2]) /\ e[1] = KeyOf[RowAt(l).pk]
  BY DEF IndexPointsAtRows
<1>2. l \in Locations /\ l[1] < pages /\ Occupied(l[1], l[2]) /\ l[1] \in Int
  BY DEF Stored, Locations, PageIds
<1>3. ReadPage(l[1])'[l[2]] = ReadPage(l[1])[l[2]]
  BY <1>2
<1>4. l \in Stored(pages)'
  BY <1>2, <1>3, PageBound DEF Inv, TypeOK, Stored, Occupied
<1>5. RowAt(l)' = RowAt(l)
  BY <1>3 DEF RowAt
<1> QED BY <1>1, <1>4, <1>5

(* In an INT table every entry of the index names a row that is there and  *)
(* has its key: between any two writes of insert (row first, then entry)   *)
(* and of remove (entry first, then row), and after a crash between them.  *)
THEOREM EntriesPointAtRows ==
  ASSUME PkType = "INT"
  PROVE  CrashSpec => []IndexPointsAtRows
<1>1. Init => PointInv
  <2> SUFFICES ASSUME Init PROVE PointInv
    OBVIOUS
  <2> QED BY InvInit DEF PointInv, Init, GoneUnheld, IndexPointsAtRows, None, Index!IndexInit
<1>2. PointInv /\ [Next \/ Crash]_vars => PointInv'
  <2> SUFFICES ASSUME PointInv, [Step]_vars PROVE PointInv'
    BY DEF Step
  <2>t. Inv /\ Inv' /\ GoneUnheld /\ IndexPointsAtRows /\ pages \in 0 .. MaxPages
        /\ saved = pages /\ pages' \in 0 .. MaxPages
    BY InvStep DEF PointInv, Inv, TypeOK
  <2>1. CASE UNCHANGED vars
    <3>1. GoneUnheld'
      BY <2>t, <2>1 DEF vars, GoneUnheld, Index!Holds
    <3>2. IndexPointsAtRows'
      BY <2>t, <2>1, PointFrame, PageBound DEF vars, ReadPage
    <3> QED BY <2>t, <3>1, <3>2 DEF PointInv
  <2>2. ASSUME call'.op # "delete" PROVE GoneUnheld'
    BY <2>2 DEF GoneUnheld
  <2>3. ASSUME UNCHANGED page, entries' \subseteq entries, pages' = pages
        PROVE  IndexPointsAtRows'
    BY <2>t, <2>3, PointFrame, PageBound DEF ReadPage
  <2>4. CASE Place \/ PlaceInNewPage
    <3>1. call.op = "insert" /\ \E i \in PageIds : PlaceIn(i)
      BY <2>t, <2>4, InsertFields, PageBound DEF Place, PlaceInNewPage, Inv, TypeOK, PageIds
    <3>2. call'.op = "insert" /\ UNCHANGED <<pages, entries>>
      BY <3>1 DEF PlaceIn, Inserting
    <3>3. IndexPointsAtRows'
      BY <2>t, <3>1, <3>2, PlaceInKeepsRows, PointFrame, PageBound
    <3> QED BY <2>t, <2>2, <3>2, <3>3 DEF PointInv
  <2>5. CASE Grow
    <3>1. call'.op = "insert" /\ pages' = pages + 1 /\ UNCHANGED <<page, entries>>
      BY <2>5 DEF Grow, Inserting
    <3>2. IndexPointsAtRows'
      BY <2>t, <3>1, PointFrame, PageBound DEF ReadPage
    <3> QED BY <2>t, <2>2, <3>1, <3>2 DEF PointInv
  <2>6. CASE CreatePage
    <3>1. call'.op = "insert" /\ UNCHANGED <<pages, entries>>
      BY <2>6 DEF CreatePage, Inserting
    <3>2. IndexPointsAtRows'
      BY <2>t, <2>6, <3>1, CreatePageKeepsRows, PointFrame, PageBound
    <3> QED BY <2>t, <2>2, <3>1, <3>2 DEF PointInv
  <2>7. CASE IndexRow
    <3>1. /\ call.op = "insert" /\ call.step = "index" /\ call' = None
          /\ Index!Put(KeyOf[call.row.pk], Locator(call.page, call.slot))
          /\ UNCHANGED <<page, pages>>
      BY <2>7 DEF IndexRow
    <3> DEFINE here == <<call.page, call.slot>>
    <3>2. /\ here \in Stored(pages)
          /\ RowAt(here) = call.row
      BY <2>t, <3>1, InsertFields DEF Inv, InsertOK, Stored, Locations, RowAt
    <3>3. IndexPointsAtRows'
      <4> SUFFICES ASSUME NEW e \in entries'
                   PROVE  \E l \in Stored(pages) :
                            e[2] = Locator(l[1], l[2]) /\ e[1] = KeyOf[RowAt(l).pk]
        BY <3>1 DEF IndexPointsAtRows, Stored, RowAt, Occupied, ReadPage
      <4>1. CASE e \in entries
        BY <2>t, <4>1 DEF IndexPointsAtRows
      <4>2. CASE e = <<KeyOf[call.row.pk], Locator(call.page, call.slot)>>
        BY <3>2, <4>2
      <4> QED BY <3>1, <4>1, <4>2 DEF Index!Put
    <3> QED BY <2>t, <2>2, <3>1, <3>3 DEF PointInv, None
  <2>8. ASSUME NEW p \in Predicates, BeginDelete(p) PROVE PointInv'
    <3>1. call' = Deleting(p, 0, 0, {}) /\ UNCHANGED <<page, pages, entries>>
      BY <2>8 DEF BeginDelete
    <3>2. GoneUnheld'
      BY <3>1 DEF GoneUnheld, Deleting
    <3> QED BY <2>t, <2>3, <3>1, <3>2 DEF PointInv
  <2>9. CASE DeleteRow
    <3>1. PICK s \in SlotIds :
            /\ Index!Delete(KeyOf[ReadPage(call.page)[s].pk])
            /\ call' = Deleting(call.pred, call.page, s + 1,
                  call.gone \cup {<<<<call.page, s>>, ReadPage(call.page)[s]>>})
      BY <2>9 DEF DeleteRow
    <3>2. call.op = "delete" /\ UNCHANGED <<page, pages>>
      BY <2>9 DEF DeleteRow, Scanning
    <3>3. entries' \subseteq entries
      BY <3>1 DEF Index!Delete
    <3>4. GoneUnheld'
      <4> SUFFICES ASSUME NEW g \in call.gone \cup
                                     {<<<<call.page, s>>, ReadPage(call.page)[s]>>},
                          g[1][1] = call.page
                   PROVE  \A e \in entries' : e[1] # KeyOf[g[2].pk]
        BY <3>1 DEF GoneUnheld, Deleting, Index!Holds
      <4>1. CASE g \in call.gone
        BY <2>t, <3>2, <3>3, <4>1 DEF GoneUnheld, Index!Holds
      <4>2. CASE g = <<<<call.page, s>>, ReadPage(call.page)[s]>>
        BY <3>1, <4>2 DEF Index!Delete
      <4> QED BY <4>1, <4>2
    <3> QED BY <2>t, <2>3, <3>2, <3>3, <3>4 DEF PointInv
  <2>10. CASE LeavePage
    <3>1. /\ call.op = "delete"
          /\ call' = Deleting(call.pred, call.page + 1, 0, call.gone)
          /\ UNCHANGED <<pages, entries>>
      BY <2>10 DEF LeavePage, Scanning
    <3>2. GoneUnheld'
      <4>1. \A g \in call.gone : g[1][1] # call.page + 1
        BY <2>t, <3>1, DeleteFields DEF Inv, DeleteOK, Locations, PageIds
      <4> QED BY <3>1, <4>1 DEF GoneUnheld, Deleting
    <3>3. IndexPointsAtRows'
      <4> SUFFICES ASSUME NEW e \in entries
                   PROVE  \E l \in Stored(pages)' :
                            e[2] = Locator(l[1], l[2]) /\ e[1] = KeyOf[RowAt(l)'.pk]
        BY <3>1 DEF IndexPointsAtRows
      <4>1. PICK l \in Stored(pages) :
              e[2] = Locator(l[1], l[2]) /\ e[1] = KeyOf[RowAt(l).pk]
        BY <2>t DEF IndexPointsAtRows
      <4>2. l \in Locations /\ l[1] < pages /\ Occupied(l[1], l[2])
        BY <4>1 DEF Stored
      <4>3. ~\E g \in call.gone : g[1] = l /\ l[1] = call.page
        <5> SUFFICES ASSUME NEW g \in call.gone, g[1] = l, l[1] = call.page
                     PROVE  FALSE
          OBVIOUS
        <5>1. RowAt(l) = g[2]
          BY <2>t, <3>1 DEF Inv, DeleteOK
        <5> QED BY <2>t, <3>1, <4>1, <5>1 DEF GoneUnheld, Index!Holds
      <4>4. ReadPage(l[1])'[l[2]] = ReadPage(l[1])[l[2]]
        BY <2>t, <2>10, <4>2, <4>3, LeavePageEffect
      <4>5. l \in Stored(pages)' /\ RowAt(l)' = RowAt(l)
        BY <3>1, <4>2, <4>4 DEF Stored, Occupied, RowAt
      <4> QED BY <4>1, <4>5
    <3> QED BY <2>t, <3>2, <3>3 DEF PointInv
  <2>11. ASSUME call' = None, UNCHANGED page, pages' = saved, entries' \subseteq entries
         PROVE  PointInv'
    BY <2>t, <2>2, <2>3, <2>11 DEF PointInv, None
  <2>12. CASE Crash
    <3>1. entries' \subseteq entries
      BY <2>12 DEF Crash, Index!Lose
    <3> QED BY <2>11, <2>12, <3>1 DEF Crash
  <2>13. CASE PlaceThrows \/ IndexRowThrows \/ DeleteThrows \/ EndDelete
    BY <2>t, <2>11, <2>13 DEF PlaceThrows, IndexRowThrows, DeleteThrows, EndDelete
  <2>14. CASE Restart
    BY <2>t, <2>11, <2>14 DEF Restart, Idle
  <2>15. ASSUME NEW r \in Row, RefuseInsert(r) \/ BeginInsert(r) PROVE PointInv'
    <3>1. CASE RefuseInsert(r)
      BY <2>t, <2>2, <2>3, <3>1 DEF PointInv, RefuseInsert, Idle, None
    <3>2. CASE BeginInsert(r)
      <4>1. call' = Inserting("place", r, 0, 0) /\ UNCHANGED <<page, pages, entries>>
        BY <3>2 DEF BeginInsert
      <4>2. call'.op # "delete"
        BY <4>1 DEF Inserting
      <4> QED BY <2>t, <2>2, <2>3, <4>1, <4>2 DEF PointInv
    <3> QED BY <2>15, <3>1, <3>2
  <2>16. ASSUME NEW p \in Predicates, RejectPredicate(p) \/ Select(p) PROVE PointInv'
    <3>1. call'.op # "delete" /\ UNCHANGED <<page, pages, entries>>
      BY <2>16 DEF RejectPredicate, Select, Idle, None
    <3> QED BY <2>t, <2>2, <2>3, <3>1 DEF PointInv
  <2> QED
    BY <2>1, <2>4, <2>5, <2>6, <2>7, <2>8, <2>9, <2>10, <2>12, <2>13, <2>14, <2>15, <2>16
       DEF Step, Next, Running, Statements
<1>3. PointInv => IndexPointsAtRows
  BY DEF PointInv
<1> QED BY <1>1, <1>2, <1>3, PTL DEF CrashSpec
----------------------------------------------------------------------------
(***************************************************************************)
(* While the program is not killed the index knows every row: one that is  *)
(* stored is in the index, or is the row an insert has just placed, or is  *)
(* one a running delete has taken the entry of and not yet cleared.        *)
(***************************************************************************)
RowsAreIndexed ==
  \A l \in Stored(pages) :
    \/ Index!Holds(KeyOf[RowAt(l).pk])
    \/ l \in Unfinished
    \/ call.op = "delete" /\ \E g \in call.gone : g[1] = l

KeyIsFree == call.op = "insert" => ~Index!Holds(KeyOf[call.row.pk])

KeyInv == Inv /\ lost = {} /\ KeyIsFree /\ RowsAreIndexed /\ UniquePk

(* While a row waits for its place every stored row is in the index.       *)
LEMMA PlacingRowsIndexed ==
  ASSUME KeyInv, call.op = "insert", call.step # "index", NEW l \in Stored(pages)
  PROVE  Index!Holds(KeyOf[RowAt(l).pk])
BY DEF KeyInv, RowsAreIndexed, Unfinished

(* try_insert_at: the row takes an empty slot, and no stored row has its   *)
(* key, which the index does not hold.                                     *)
LEMMA PlaceInKeepsKeyInv ==
  ASSUME KeyInv, Inv', call.op = "insert", call.step # "index",
         NEW i \in PageIds, i < pages, PlaceIn(i)
  PROVE  KeyInv'
<1>1. PICK s \in SlotIds :
        /\ ~Occupied(i, s)
        /\ [ReadPage(i) EXCEPT ![s] = call.row] \in Page
        /\ WritePage(i, [ReadPage(i) EXCEPT ![s] = call.row])
        /\ call' = Inserting("index", call.row, i, s)
  BY PlaceInEffect DEF KeyInv
<1>2. UNCHANGED <<pages, entries, lost>>
  BY DEF PlaceIn
<1> DEFINE here == <<i, s>>
<1>3. Unfinished' = {here}
  BY <1>1 DEF Unfinished, Inserting
<1>4. /\ ReadPage(i)' = [ReadPage(i) EXCEPT ![s] = call.row]
      /\ \A j \in PageIds : j # i => ReadPage(j)' = ReadPage(j)
  BY <1>1, ReadAfterWrite DEF KeyInv, Inv
<1>5. RowAt(here)' = call.row
  BY <1>4, ReadPageType DEF KeyInv, Inv, Page, RowAt
<1>6. \A l \in Stored(pages)' : l # here => l \in Stored(pages) /\ RowAt(l)' = RowAt(l)
  <2> SUFFICES ASSUME NEW l \in Stored(pages)', l # here
               PROVE  l \in Stored(pages) /\ RowAt(l)' = RowAt(l)
    OBVIOUS
  <2>1. /\ l \in Locations /\ l[1] < pages /\ ReadPage(l[1])'[l[2]] # Empty
        /\ l[1] \in PageIds /\ l[2] \in SlotIds /\ l = <<l[1], l[2]>>
    BY <1>2 DEF Stored, Occupied, Locations
  <2>2. ReadPage(l[1])'[l[2]] = ReadPage(l[1])[l[2]]
    <3>1. CASE l[1] = i
      BY <1>4, <2>1, <3>1, ReadPageType DEF KeyInv, Inv, Page
    <3>2. CASE l[1] # i
      BY <1>4, <2>1, <3>2
    <3> QED BY <3>1, <3>2
  <2> QED BY <2>1, <2>2 DEF Stored, Occupied, RowAt
<1>7. \A l \in Stored(pages) : RowAt(l).pk # call.row.pk
  BY PlacingRowsIndexed DEF KeyInv, KeyIsFree
<1>8. KeyIsFree'
  BY <1>1, <1>2 DEF KeyInv, KeyIsFree, Inserting, Index!Holds
<1>9. RowsAreIndexed'
  <2> SUFFICES ASSUME NEW l \in Stored(pages)', l # here
               PROVE  Index!Holds(KeyOf[RowAt(l)'.pk])
    BY <1>2, <1>3 DEF RowsAreIndexed, Index!Holds
  <2> QED BY <1>6, PlacingRowsIndexed
<1>10. UniquePk'
  BY <1>5, <1>6, <1>7 DEF KeyInv, UniquePk
<1> QED BY <1>2, <1>8, <1>9, <1>10 DEF KeyInv

(* Uniqueness outlives any step that adds and changes no row. *)
LEMMA UniqueFrame ==
  ASSUME UniquePk,
         \A l \in Stored(pages)' : l \in Stored(pages) /\ RowAt(l)' = RowAt(l)
  PROVE  UniquePk'
BY DEF UniquePk

(* Steps that leave the table and the index alone. *)
LEMMA KeyFrame ==
  ASSUME KeyInv, Inv', UNCHANGED <<page, pages, entries, lost>>,
         KeyIsFree',
         Unfinished \subseteq Unfinished',
         call.op = "delete" =>
           \/ call'.op = "delete" /\ call.gone \subseteq call'.gone
           \/ \A g \in call.gone : g[1] \notin Stored(pages)
  PROVE  KeyInv'
<1>1. /\ Stored(pages)' = Stored(pages)
      /\ \A l : RowAt(l)' = RowAt(l)
      /\ \A k : Index!Holds(k)' = Index!Holds(k)
  BY DEF Stored, RowAt, Occupied, ReadPage, Index!Holds
<1>2. RowsAreIndexed'
  BY <1>1 DEF KeyInv, RowsAreIndexed
<1>3. UniquePk'
  BY <1>1, UniqueFrame DEF KeyInv
<1> QED BY <1>2, <1>3 DEF KeyInv

LEMMA KeyInvAlways == Spec => []KeyInv
<1>1. Init => KeyInv
  <2> SUFFICES ASSUME Init PROVE KeyInv
    OBVIOUS
  <2>1. Stored(pages) = {} /\ lost = {} /\ call = None
    BY DEF Init, Stored, Locations, PageIds, Index!IndexInit
  <2> QED BY <2>1, InvInit DEF KeyInv, KeyIsFree, RowsAreIndexed, UniquePk, None
<1>2. Inv /\ Inv' /\ KeyInv /\ [Next]_vars => KeyInv'
  <2> SUFFICES ASSUME KeyInv, Inv', [Next]_vars PROVE KeyInv'
    OBVIOUS
  <2>t. Inv /\ lost = {} /\ pages \in 0 .. MaxPages /\ saved = pages
    BY DEF KeyInv, Inv, TypeOK
  <2>1. CASE UNCHANGED vars
    BY <2>1, KeyFrame DEF vars, KeyInv, KeyIsFree, Unfinished, Index!Holds
  <2>2. CASE Place
    <3>1. call.op = "insert" /\ call.step = "place" /\ \E i \in 0 .. pages - 1 : PlaceIn(i)
      BY <2>2 DEF Place
    <3> QED BY <2>t, <3>1, PlaceInKeepsKeyInv, PageBound DEF PageIds
  <2>3. CASE PlaceInNewPage
    <3>1. /\ call.op = "insert" /\ call.step = "placeNew" /\ PlaceIn(call.page)
          /\ call.page \in PageIds
          /\ call.page < pages
      BY <2>t, <2>3, InsertFields, PageBound DEF PlaceInNewPage, Inv, InsertOK, PageIds
    <3> QED BY <3>1, PlaceInKeepsKeyInv
  <2>4. CASE Grow
    <3>1. /\ call.op = "insert" /\ call.step = "place"
          /\ pages' = pages + 1 /\ UNCHANGED <<page, entries, lost>>
          /\ call' = Inserting("create", call.row, pages, 0)
      BY <2>4 DEF Grow
    <3>2. \A l \in Stored(pages)' : l \in Stored(pages) /\ RowAt(l)' = RowAt(l)
      <4>1. \A i \in PageIds : page[i] # NoFile => i < pages
        BY <2>t DEF Inv, PagesAreCounted
      <4>2. \A l \in Locations : Occupied(l[1], l[2]) => page[l[1]] # NoFile
        BY DEF Occupied, ReadPage, EmptyPage, Locations
      <4> QED BY <3>1, <4>1, <4>2 DEF Stored, Occupied, ReadPage, RowAt, Locations
    <3>3. RowsAreIndexed' /\ KeyIsFree'
      BY <3>1, <3>2, PlacingRowsIndexed
         DEF RowsAreIndexed, KeyIsFree, KeyInv, Inserting, Index!Holds
    <3> QED BY <3>1, <3>2, <3>3, UniqueFrame DEF KeyInv
  <2>5. CASE CreatePage
    <3>1. /\ call.op = "insert" /\ call.step = "create"
          /\ WritePage(call.page, EmptyPage) /\ UNCHANGED <<pages, entries, lost>>
          /\ call' = Inserting("placeNew", call.row, call.page, 0)
      BY <2>5 DEF CreatePage
    <3>2. PICK i \in PageIds : i = call.page
      BY <2>t, <3>1, InsertFields DEF Inv
    <3>3. EmptyPage \in Page
      BY DEF EmptyPage, Page
    <3>4. /\ ReadPage(i)' = EmptyPage
          /\ \A j \in PageIds : j # i => ReadPage(j)' = ReadPage(j)
      BY <2>t, <3>1, <3>2, <3>3, ReadAfterWrite DEF Inv
    <3>5. \A l \in Stored(pages)' : l \in Stored(pages) /\ RowAt(l)' = RowAt(l)
      BY <3>1, <3>4 DEF Stored, Occupied, RowAt, Locations, EmptyPage
    <3>6. RowsAreIndexed' /\ KeyIsFree'
      BY <3>1, <3>5, PlacingRowsIndexed
         DEF RowsAreIndexed, KeyIsFree, KeyInv, Inserting, Index!Holds
    <3> QED BY <3>1, <3>5, <3>6, UniqueFrame DEF KeyInv
  <2>6. CASE IndexRow
    <3>1. /\ call.op = "insert" /\ call.step = "index" /\ call' = None
          /\ Index!Put(KeyOf[call.row.pk], Locator(call.page, call.slot))
          /\ UNCHANGED <<page, pages, lost>>
      BY <2>6 DEF IndexRow, Index!Put
    <3>2. RowAt(<<call.page, call.slot>>) = call.row
      BY <2>t, <3>1 DEF Inv, InsertOK, RowAt
    <3>3. (\E e \in entries' : e[1] = KeyOf[call.row.pk]) /\ entries \subseteq entries'
      <4> DEFINE e == <<KeyOf[call.row.pk], Locator(call.page, call.slot)>>
      <4>1. e[1] = KeyOf[call.row.pk] /\ entries' = entries \cup {e}
        BY <3>1 DEF Index!Put
      <4> QED BY <4>1
    <3>4. \A l : Stored(pages)' = Stored(pages) /\ RowAt(l)' = RowAt(l)
      BY <3>1 DEF Stored, RowAt, Occupied, ReadPage
    <3>5. RowsAreIndexed'
      <4> SUFFICES ASSUME NEW l \in Stored(pages)
                   PROVE  Index!Holds(KeyOf[RowAt(l).pk])'
        BY <3>4 DEF RowsAreIndexed, Index!Holds
      <4>1. CASE l = <<call.page, call.slot>>
        BY <3>2, <3>3, <3>4, <4>1 DEF Index!Holds
      <4>2. CASE l # <<call.page, call.slot>>
        <5>1. Index!Holds(KeyOf[RowAt(l).pk])
          BY <3>1, <4>2 DEF KeyInv, RowsAreIndexed, Unfinished
        <5> QED BY <3>3, <3>4, <5>1 DEF Index!Holds
      <4> QED BY <4>1, <4>2
    <3> QED BY <3>1, <3>4, <3>5, UniqueFrame DEF KeyInv, KeyIsFree, None
  <2>7. ASSUME NEW r \in Row, RefuseInsert(r) PROVE KeyInv'
    BY <2>7, KeyFrame DEF RefuseInsert, KeyInv, KeyIsFree, Unfinished, Index!Holds
  <2>8. ASSUME NEW r \in Row, BeginInsert(r) PROVE KeyInv'
    <3>1. /\ call = None /\ call' = Inserting("place", r, 0, 0)
          /\ ~Index!Holds(KeyOf[r.pk])
          /\ UNCHANGED <<page, pages, entries, lost>>
      BY <2>8 DEF BeginInsert, Idle
    <3>2. KeyIsFree'
      BY <3>1 DEF KeyIsFree, Inserting, Index!Holds
    <3> QED BY <3>1, <3>2, KeyFrame DEF None, Unfinished
  <2>9. ASSUME NEW p \in Predicates, RejectPredicate(p) \/ Select(p) PROVE KeyInv'
    BY <2>9, KeyFrame
       DEF RejectPredicate, Select, KeyInv, KeyIsFree, Unfinished, Index!Holds
  <2>10. ASSUME NEW p \in Predicates, BeginDelete(p) PROVE KeyInv'
    <3>1. /\ call = None /\ call' = Deleting(p, 0, 0, {})
          /\ UNCHANGED <<page, pages, entries, lost>>
      BY <2>10 DEF BeginDelete, Idle
    <3>2. KeyIsFree'
      BY <3>1 DEF KeyIsFree, Deleting
    <3> QED BY <3>1, <3>2, KeyFrame DEF None, Unfinished
  <2>11. CASE DeleteRow
    <3> DEFINE here(s) == <<call.page, s>>
    <3>1. PICK s \in SlotIds :
            /\ NextDoomed(s)
            /\ IF PkType = "INT" THEN Index!Delete(KeyOf[ReadPage(call.page)[s].pk])
                                 ELSE UNCHANGED <<entries, lost>>
            /\ call' = Deleting(call.pred, call.page, s + 1,
                  call.gone \cup {<<here(s), ReadPage(call.page)[s]>>})
      BY <2>11 DEF DeleteRow
    <3>2. call.op = "delete" /\ call.page < pages /\ UNCHANGED <<page, pages>>
      BY <2>11 DEF DeleteRow, Scanning
    <3>3. call.page \in PageIds
      BY <2>t, <3>2, DeleteFields, PageBound DEF Inv, PageIds
    <3>4. here(s) \in Stored(pages) /\ RowAt(here(s)) = ReadPage(call.page)[s]
      BY <3>1, <3>2, <3>3 DEF Stored, Locations, RowAt, NextDoomed, Doomed
    <3>5. \A l : Stored(pages)' = Stored(pages) /\ RowAt(l)' = RowAt(l)
      BY <3>2 DEF Stored, RowAt, Occupied, ReadPage
    <3>6. lost' = lost
      BY <3>1 DEF Index!Delete
    <3>7. ASSUME NEW l \in Stored(pages), l # here(s), Index!Holds(KeyOf[RowAt(l).pk])
          PROVE  Index!Holds(KeyOf[RowAt(l).pk])'
      <4>1. CASE PkType # "INT"
        BY <3>1, <3>5, <3>7, <4>1 DEF Index!Holds
      <4>2. CASE PkType = "INT"
        <5>1. RowAt(l).pk # RowAt(here(s)).pk
          BY <3>4, <3>7 DEF KeyInv, UniquePk
        <5>2. RowAt(l).pk \in Pk /\ RowAt(here(s)).pk \in Pk
          BY <2>t, <3>4, ReadPageType
             DEF Inv, Stored, Locations, RowAt, Occupied, Page, Row
        <5>3. KeyOf[RowAt(l).pk] # KeyOf[RowAt(here(s)).pk]
          BY <4>2, <5>1, <5>2, CastsAreInjective
        <5> QED BY <3>1, <3>4, <3>5, <3>7, <4>2, <5>3 DEF Index!Holds, Index!Delete
      <4> QED BY <4>1, <4>2
    <3>8. RowsAreIndexed'
      <4> SUFFICES ASSUME NEW l \in Stored(pages)
                   PROVE  \/ Index!Holds(KeyOf[RowAt(l).pk])'
                          \/ \E g \in call.gone \cup {<<here(s), ReadPage(call.page)[s]>>} :
                               g[1] = l
        BY <3>1, <3>5 DEF RowsAreIndexed, Deleting, Index!Holds
      <4>1. CASE l = here(s)
        <5>1. <<here(s), ReadPage(call.page)[s]>>[1] = l
          BY <4>1
        <5> QED BY <5>1
      <4>2. CASE l # here(s)
        BY <3>2, <3>7, <4>2 DEF KeyInv, RowsAreIndexed, Unfinished
      <4> QED BY <4>1, <4>2
    <3>9. KeyIsFree'
      BY <3>1 DEF KeyIsFree, Deleting
    <3> QED BY <3>5, <3>6, <3>8, <3>9, UniqueFrame DEF KeyInv
  <2>12. CASE LeavePage
    <3>1. /\ call.op = "delete" /\ UNCHANGED <<pages, entries, lost>>
          /\ call' = Deleting(call.pred, call.page + 1, 0, call.gone)
      BY <2>12 DEF LeavePage, Scanning
    <3>2. \A l \in Stored(pages)' : l \in Stored(pages) /\ RowAt(l)' = RowAt(l)
      <4> SUFFICES ASSUME NEW l \in Locations, l[1] < pages, ReadPage(l[1])'[l[2]] # Empty
                   PROVE  /\ Occupied(l[1], l[2])
                          /\ ReadPage(l[1])'[l[2]] = ReadPage(l[1])[l[2]]
        BY <3>1 DEF Stored, RowAt, Occupied
      <4>1. Occupied(l[1], l[2])
        BY <2>t, <2>12, LeavePageFillsNone
      <4> QED BY <2>t, <2>12, <4>1, LeavePageEffect
    <3>3. RowsAreIndexed'
      BY <3>1, <3>2 DEF KeyInv, RowsAreIndexed, Deleting, Unfinished, Index!Holds
    <3>4. KeyIsFree'
      BY <3>1 DEF KeyIsFree, Deleting
    <3> QED BY <3>1, <3>2, <3>3, <3>4, UniqueFrame DEF KeyInv
  <2>13. CASE EndDelete
    <3>1. /\ call.op = "delete" /\ call.page >= pages /\ call' = None
          /\ UNCHANGED <<page, pages, entries, lost>>
      BY <2>13 DEF EndDelete
    <3>2. \A g \in call.gone : g[1] \notin Stored(pages)
      BY <2>t, <3>1, DeleteFields DEF Inv, DeleteOK, Stored, Locations, PageIds
    <3> QED BY <3>1, <3>2, KeyFrame DEF KeyIsFree, None, Unfinished
  <2>14. CASE Restart
    BY <2>t, <2>14, KeyFrame DEF Restart, Idle, KeyIsFree, None, Unfinished
  <2>15. CASE PlaceThrows
    BY <2>t, <2>15, KeyFrame DEF PlaceThrows, KeyIsFree, None, Unfinished
  <2>16. ~IndexRowThrows /\ ~DeleteThrows
    BY <2>t DEF IndexRowThrows, DeleteThrows
  <2> QED
    BY <2>1, <2>2, <2>3, <2>4, <2>5, <2>6, <2>7, <2>8, <2>9, <2>10, <2>11, <2>12, <2>13,
       <2>14, <2>15, <2>16 DEF Next, Running, Statements
<1>3. Spec => []Inv
  BY RunsAreCrashRuns, InvAlways, PTL
<1> QED BY <1>1, <1>2, <1>3, PTL DEF Spec

(* No two rows of a table have the same primary key, however inserts,      *)
(* refused inserts, deletes and restarts follow each other: the index      *)
(* knows the key of every row, and insert asks it before it looks for room.*)
(* The index is the map of IndexMap: see TableStore for when the B+ tree is.*)
THEOREM KeysUnique == Spec => []UniquePk
<1>1. KeyInv => UniquePk
  BY DEF KeyInv
<1> QED BY KeyInvAlways, <1>1, PTL
----------------------------------------------------------------------------
(***************************************************************************)
(* A table with an INT key is a set of rows with distinct keys: TableStore *)
(* implements RowSet, for any keys, rows, page size and WHERE clauses, as  *)
(* long as the program is not killed.                                      *)
(***************************************************************************)
(***************************************************************************)
(* What a running statement has done so far, in terms of rows: an insert   *)
(* has placed a row that can be written; a delete has removed the matching *)
(* rows of the slots it has passed, each once.                             *)
(***************************************************************************)
PlacedCanBeWritten ==
  call.op = "insert" /\ call.step = "index" => Encodable(call.row)

Passed(l) == l[1] < call.page \/ (l[1] = call.page /\ l[2] < call.slot)

ScanIsExact ==
  call.op = "delete" =>
    /\ WellTyped(call.pred)
    /\ IsFiniteSet(call.gone)
    /\ \A g \in call.gone : Matches(call.pred, g[2])
    /\ \A g, h \in call.gone : g[2] = h[2] => g = h
    /\ \A g \in call.gone, l \in Stored(pages) : RowAt(l) = g[2] => g[1] = l
    /\ \A l \in Stored(pages) :
         Passed(l) /\ Matches(call.pred, RowAt(l)) => \E g \in call.gone : g[1] = l

SetInv == PlacedCanBeWritten /\ ScanIsExact
----------------------------------------------------------------------------
(* A nonempty set of naturals has a least element. *)
LEMMA LeastOf ==
  ASSUME NEW S \in SUBSET Nat, S # {}
  PROVE  \E m \in S : \A n \in S : m <= n
<1> DEFINE Rel == {ss \in Nat \X Nat : ss[1] < ss[2]}
<1>1. IsWellFoundedOn(Rel, Nat)
  BY ONLY NatLessThanWellFounded, Zenon DEF OpToRel
<1>2. \E x \in S : \A y \in S : ~(<<y, x>> \in Rel)
  <2> HIDE DEF Rel
  <2> QED BY <1>1, WFMin
<1>3. \A x, y \in Nat : ~(<<y, x>> \in Rel) => x <= y
  BY SMT
<1> QED BY <1>2, <1>3

(* The pages seen as a set of rows, when nothing has been written. *)
LEMMA SamePages ==
  ASSUME UNCHANGED <<page, pages>>
  PROVE  Stored(pages)' = Stored(pages) /\ \A l : RowAt(l)' = RowAt(l)
BY DEF Stored, RowAt, Occupied, ReadPage

LEMMA StoredRow ==
  ASSUME Inv, NEW l \in Stored(pages)
  PROVE  /\ RowAt(l) \in Row
         /\ l \in Locations /\ l[1] \in PageIds /\ l[2] \in SlotIds /\ l = <<l[1], l[2]>>
         /\ l[1] < pages /\ Occupied(l[1], l[2])
BY ReadPageType DEF Inv, Stored, Locations, RowAt, Occupied, Page

(* No clause is refused that has the type of its column: the positions     *)
(* that pk_equality_fast_path compares agree on BOOL clauses only, and the *)
(* table has no BOOL column.                                               *)
LEMMA RefusedIsIllTyped ==
  ASSUME PkType = "INT", ValType # "BOOL", NEW p \in Predicates
  PROVE  Refused(p) <=> ~WellTyped(p)
<1>1. CASE p = NullPredicate
  BY <1>1 DEF Refused, WellTyped, FastPath, NullPredicate
<1>2. CASE p \in Comparison
  <2>1. p.col \in {"pk", "val", "other"} /\ p.type \in ColumnType
    BY <1>2 DEF Comparison
  <2>2. FastPath(p) = "throws" => p.type = "BOOL"
    BY <2>1 DEF FastPath, ColumnType, PredicateIndex, DataTypeIndex
  <2>3. WellTyped(p) => p.type # "BOOL"
    BY <2>1 DEF WellTyped
  <2> QED BY <2>2, <2>3 DEF Refused
<1> QED BY <1>1, <1>2, PredicatesAreTyped

(* try_insert_at adds one row and changes none. *)
LEMMA PlaceInAddsRow ==
  ASSUME Inv, call.op = "insert", NEW i \in PageIds, i < pages, PlaceIn(i)
  PROVE  \E here \in Locations :
           /\ here \notin Stored(pages)
           /\ Stored(pages)' = Stored(pages) \cup {here}
           /\ \A l \in Stored(pages) : RowAt(l)' = RowAt(l)
           /\ Unfinished' = {here}
           /\ call' = Inserting("index", call.row, here[1], here[2])
<1>1. PICK s \in SlotIds :
        /\ ~Occupied(i, s)
        /\ [ReadPage(i) EXCEPT ![s] = call.row] \in Page
        /\ WritePage(i, [ReadPage(i) EXCEPT ![s] = call.row])
        /\ call' = Inserting("index", call.row, i, s)
  BY PlaceInEffect
<1> DEFINE here == <<i, s>>
<1>2. /\ ReadPage(i)' = [ReadPage(i) EXCEPT ![s] = call.row]
      /\ \A j \in PageIds : j # i => ReadPage(j)' = ReadPage(j)
  BY <1>1, ReadAfterWrite DEF Inv
<1>3. pages' = pages
  BY DEF PlaceIn
<1>4. ReadPage(i)'[s] # Empty
  BY <1>2, ReadPageType, InsertFields, EmptyIsNoRow DEF Inv, Page
<1>5. \A l \in Locations : l # here => ReadPage(l[1])'[l[2]] = ReadPage(l[1])[l[2]]
  <2> SUFFICES ASSUME NEW l \in Locations, l # here
               PROVE  ReadPage(l[1])'[l[2]] = ReadPage(l[1])[l[2]]
    OBVIOUS
  <2>1. l[1] \in PageIds /\ l[2] \in SlotIds /\ l = <<l[1], l[2]>>
    BY DEF Locations
  <2>2. CASE l[1] = i
    BY <1>2, <2>1, <2>2, ReadPageType DEF Inv, Page
  <2> QED BY <1>2, <2>1, <2>2
<1>6. here \in Locations /\ here[1] = i /\ here[2] = s
  BY DEF Locations
<1>7. here \notin Stored(pages)
  BY <1>1 DEF Stored
<1>8. Stored(pages)' = Stored(pages) \cup {here}
  BY <1>3, <1>4, <1>5, <1>6 DEF Stored, Occupied
<1>9. \A l \in Stored(pages) : RowAt(l)' = RowAt(l)
  BY <1>5, <1>7 DEF Stored, RowAt
<1>10. Unfinished' = {here}
  BY <1>1 DEF Unfinished, Inserting
<1> QED BY <1>1, <1>6, <1>7, <1>8, <1>9, <1>10

(* Neither a longer count nor a new page adds a row. *)
LEMMA GrowAddsNone ==
  ASSUME Inv, Grow
  PROVE  Stored(pages)' = Stored(pages) /\ \A l : RowAt(l)' = RowAt(l)
<1>1. pages' = pages + 1 /\ page' = page /\ pages \in Nat
  BY PageBound DEF Grow, Inv, TypeOK
<1>2. \A i \in PageIds : page[i] # NoFile => i < pages
  BY DEF Inv, TypeOK, PagesAreCounted
<1>3. \A l \in Locations : Occupied(l[1], l[2]) => page[l[1]] # NoFile
  BY DEF Occupied, ReadPage, EmptyPage, Locations
<1>4. \A l \in Locations : Occupied(l[1], l[2])' <=> Occupied(l[1], l[2])
  BY <1>1 DEF Occupied, ReadPage
<1>5. \A l \in Locations : l[1] \in PageIds /\ l[1] \in Int
  BY DEF Locations, PageIds
<1> QED BY <1>1, <1>2, <1>3, <1>4, <1>5 DEF Stored, RowAt, ReadPage

LEMMA CreatePageAddsNone ==
  ASSUME Inv, CreatePage
  PROVE  Stored(pages)' = Stored(pages) /\ \A l \in Stored(pages) : RowAt(l)' = RowAt(l)
<1>1. PICK i \in PageIds : i = call.page
  BY InsertFields DEF Inv, CreatePage
<1>2. page[i] = NoFile /\ WritePage(i, EmptyPage) /\ pages' = pages
  BY <1>1 DEF Inv, InsertOK, CreatePage
<1>3. EmptyPage \in Page
  BY DEF EmptyPage, Page
<1>4. \A j \in PageIds : ReadPage(j)' = ReadPage(j)
  BY <1>2, <1>3, ReadAfterWrite DEF Inv, ReadPage
<1>5. \A l \in Locations : l[1] \in PageIds
  BY DEF Locations
<1> QED BY <1>2, <1>4, <1>5 DEF Stored, Occupied, RowAt
----------------------------------------------------------------------------
LEMMA SetInvInit == Init => SetInv
BY DEF Init, SetInv, PlacedCanBeWritten, ScanIsExact, None

LEMMA SetInvStep ==
  ASSUME PkType = "INT", ValType # "BOOL", KeyInv, SetInv, [Next]_vars
  PROVE  SetInv'
<1>t. Inv /\ UniquePk /\ pages \in 0 .. MaxPages
  BY DEF KeyInv, Inv, TypeOK
<1>1. CASE UNCHANGED vars
  BY <1>1, SamePages DEF vars, SetInv, PlacedCanBeWritten, ScanIsExact, Passed
<1>2. ASSUME call' = None PROVE SetInv'
  BY <1>2 DEF SetInv, PlacedCanBeWritten, ScanIsExact, None
<1>3. ASSUME NEW p \in Predicates, BeginDelete(p) PROVE SetInv'
  <2>1. /\ call' = Deleting(p, 0, 0, {}) /\ UNCHANGED <<page, pages>>
        /\ WellTyped(p)
    BY <1>3 DEF BeginDelete, Refused
  <2>2. \A l \in Stored(pages) : ~Passed(l)'
    BY <1>t, <2>1, StoredRow, PageShape DEF Passed, Deleting, PageIds, SlotIds
  <2>3. /\ call'.op = "delete" /\ call'.pred = p /\ call'.gone = {}
    BY <2>1 DEF Deleting
  <2>4. ScanIsExact'
    BY <2>1, <2>2, <2>3, SamePages, FS_EmptySet DEF ScanIsExact
  <2> QED BY <2>3, <2>4 DEF SetInv, PlacedCanBeWritten
<1>4. CASE DeleteRow
  <2> DEFINE here(s) == <<call.page, s>>
             gone(s) == call.gone \cup {<<here(s), ReadPage(call.page)[s]>>}
  <2>1. PICK s \in SlotIds :
          /\ NextDoomed(s)
          /\ call' = Deleting(call.pred, call.page, s + 1, gone(s))
    BY <1>4 DEF DeleteRow
  <2>2. call.op = "delete" /\ call.page < pages /\ UNCHANGED <<page, pages>>
    BY <1>4 DEF DeleteRow, Scanning
  <2>3. /\ call.page \in PageIds /\ call.slot \in 0 .. Slots
        /\ call.gone \subseteq Locations \X Row
    BY <1>t, <2>2, DeleteFields, PageBound DEF Inv, PageIds
  <2>4. /\ here(s) \in Stored(pages) /\ RowAt(here(s)) = ReadPage(call.page)[s]
        /\ Matches(call.pred, RowAt(here(s)))
        /\ s >= call.slot
        /\ \A t \in call.slot .. s - 1 : ~Doomed(call.page, t)
    BY <2>1, <2>2, <2>3 DEF Stored, Locations, RowAt, NextDoomed, Doomed
  <2>5. ScanIsExact
    BY DEF SetInv
  <2>6. \A g \in call.gone : g[2] # RowAt(here(s))
    <3> SUFFICES ASSUME NEW g \in call.gone, g[2] = RowAt(here(s))
                 PROVE  FALSE
      OBVIOUS
    <3>1. g[1] = here(s)
      BY <2>2, <2>4, <2>5 DEF ScanIsExact
    <3>2. g[1][1] = call.page /\ g[1][2] = s
      BY <3>1
    <3>3. g[1][2] < call.slot
      BY <1>t, <2>2, <3>2 DEF Inv, DeleteOK
    <3> QED BY <2>3, <2>4, <3>2, <3>3 DEF SlotIds
  <2>7. \A l \in Stored(pages) : RowAt(l) = RowAt(here(s)) => l = here(s)
    BY <1>t, <2>4 DEF UniquePk
  <2> DEFINE new == <<here(s), RowAt(here(s))>>
  <2>8. gone(s) = call.gone \cup {new} /\ new[1] = here(s) /\ new[2] = RowAt(here(s))
    BY <2>4
  <2>9. /\ call'.op = "delete" /\ call'.pred = call.pred /\ call'.page = call.page
        /\ call'.slot = s + 1 /\ call'.gone = call.gone \cup {new}
    BY <2>1, <2>8 DEF Deleting
  <2>10. ASSUME NEW l \in Stored(pages), Passed(l)', Matches(call.pred, RowAt(l))
         PROVE  \E g \in call.gone \cup {new} : g[1] = l
    <3>1. /\ l[1] \in PageIds /\ l[2] \in SlotIds /\ l = <<l[1], l[2]>>
          /\ Occupied(l[1], l[2])
      BY <1>t, StoredRow
    <3>2. CASE Passed(l)
      BY <2>2, <2>5, <2>10, <3>2 DEF ScanIsExact
    <3>3. CASE ~Passed(l)
      <4>1. l[1] = call.page /\ l[2] >= call.slot /\ l[2] <= s
        BY <2>3, <2>9, <2>10, <3>1, <3>3 DEF Passed, PageIds, SlotIds
      <4>2. Doomed(call.page, l[2])
        BY <2>10, <3>1, <4>1 DEF Doomed, RowAt
      <4>3. l[2] = s
        BY <2>3, <2>4, <3>1, <4>1, <4>2, PageShape DEF SlotIds
      <4> QED BY <2>8, <3>1, <4>1, <4>3
    <3> QED BY <3>2, <3>3
  <2>11. IsFiniteSet(call.gone \cup {new})
    BY <2>2, <2>5, FS_AddElement DEF ScanIsExact
  <2>12. \A g, h \in call.gone \cup {new} : g[2] = h[2] => g = h
    BY <2>2, <2>5, <2>6, <2>8 DEF ScanIsExact
  <2>13. \A g \in call.gone \cup {new}, l \in Stored(pages) : RowAt(l) = g[2] => g[1] = l
    BY <2>2, <2>5, <2>7, <2>8 DEF ScanIsExact
  <2>14. \A g \in call.gone \cup {new} : Matches(call.pred, g[2])
    BY <2>2, <2>4, <2>5, <2>8 DEF ScanIsExact
  <2>15. WellTyped(call.pred)
    BY <2>2, <2>5 DEF ScanIsExact
  <2>16. Stored(pages)' = Stored(pages) /\ \A l : RowAt(l)' = RowAt(l)
    BY <2>2, SamePages
  <2> HIDE DEF new
  <2>17. ScanIsExact'
    BY <2>9, <2>10, <2>11, <2>12, <2>13, <2>14, <2>15, <2>16 DEF ScanIsExact
  <2> QED BY <2>9, <2>17 DEF SetInv, PlacedCanBeWritten
<1>5. CASE LeavePage
  <2>1. /\ call.op = "delete" /\ call.page < pages /\ pages' = pages
        /\ call' = Deleting(call.pred, call.page + 1, 0, call.gone)
        /\ \A s \in SlotIds : ~NextDoomed(s)
    BY <1>5 DEF LeavePage, Scanning
  <2>2. /\ call.page \in PageIds /\ call.slot \in 0 .. Slots
        /\ call.gone \subseteq Locations \X Row
    BY <1>t, <2>1, DeleteFields, PageBound DEF Inv, PageIds
  <2>3. /\ call'.op = "delete" /\ call'.pred = call.pred /\ call'.page = call.page + 1
        /\ call'.slot = 0 /\ call'.gone = call.gone
    BY <2>1 DEF Deleting
  <2>4. \A l \in Stored(pages)' :
          /\ l \in Stored(pages) /\ RowAt(l)' = RowAt(l)
          /\ ~\E g \in call.gone : g[1] = l /\ l[1] = call.page
    <3> SUFFICES ASSUME NEW l \in Locations, l[1] < pages, ReadPage(l[1])'[l[2]] # Empty
                 PROVE  /\ Occupied(l[1], l[2])
                        /\ ReadPage(l[1])'[l[2]] = ReadPage(l[1])[l[2]]
                        /\ ~\E g \in call.gone : g[1] = l /\ l[1] = call.page
      BY <2>1 DEF Stored, RowAt, Occupied
    <3>1. Occupied(l[1], l[2])
      BY <1>t, <1>5, LeavePageFillsNone
    <3> QED BY <1>t, <1>5, <3>1, LeavePageEffect
  <2>5. ScanIsExact
    BY DEF SetInv
  <2>6. \A s \in SlotIds : s >= call.slot => ~Doomed(call.page, s)
    <3> DEFINE D == {s \in SlotIds : s >= call.slot /\ Doomed(call.page, s)}
    <3> SUFFICES ASSUME D # {} PROVE FALSE
      OBVIOUS
    <3>1. D \in SUBSET Nat
      BY DEF SlotIds
    <3>2. PICK m \in D : \A n \in D : m <= n
      <4> HIDE DEF D
      <4> QED BY <3>1, LeastOf
    <3>3. \A t \in call.slot .. m - 1 : t \in SlotIds /\ t \notin D
      BY <2>2, <3>2, PageShape DEF SlotIds
    <3>4. NextDoomed(m)
      BY <2>2, <3>2, <3>3 DEF NextDoomed
    <3> QED BY <2>1, <3>2, <3>4
  <2>7. ASSUME NEW l \in Stored(pages)', Passed(l)', Matches(call.pred, RowAt(l))
        PROVE  \E g \in call.gone : g[1] = l
    <3>1. /\ l[1] \in PageIds /\ l[2] \in SlotIds /\ l = <<l[1], l[2]>>
          /\ Occupied(l[1], l[2]) /\ l \in Stored(pages)
      BY <1>t, <2>4, StoredRow
    <3>2. l[1] <= call.page
      BY <2>2, <2>3, <2>7, <3>1 DEF Passed, PageIds, SlotIds
    <3>3. CASE Passed(l)
      BY <2>1, <2>5, <2>7, <3>1, <3>3 DEF ScanIsExact
    <3>4. CASE ~Passed(l)
      <4>1. l[1] = call.page /\ l[2] >= call.slot
        BY <2>2, <3>1, <3>2, <3>4 DEF Passed, PageIds, SlotIds
      <4>2. Doomed(call.page, l[2])
        BY <2>7, <3>1, <4>1 DEF Doomed, RowAt
      <4> QED BY <2>6, <3>1, <4>1, <4>2
    <3> QED BY <3>3, <3>4
  <2>8. ScanIsExact'
    BY <2>1, <2>3, <2>4, <2>5, <2>7 DEF ScanIsExact
  <2> QED BY <2>3, <2>8 DEF SetInv, PlacedCanBeWritten
<1>6. CASE Place \/ PlaceInNewPage
  <2>1. /\ call'.op = "insert" /\ call'.row = call.row /\ Encodable(call.row)
    <3>1. PICK i : PlaceIn(i)
      BY <1>6 DEF Place, PlaceInNewPage
    <3>2. PICK s \in SlotIds :
            Encodable(call.row) /\ call' = Inserting("index", call.row, i, s)
      BY <3>1 DEF PlaceIn
    <3> QED BY <3>2 DEF Inserting
  <2>2. PlacedCanBeWritten'
    BY <2>1 DEF PlacedCanBeWritten, Encodable
  <2>3. ScanIsExact'
    BY <2>1 DEF ScanIsExact
  <2> QED BY <2>2, <2>3 DEF SetInv
<1>7. CASE Grow \/ CreatePage
  BY <1>7 DEF Grow, CreatePage, Inserting, SetInv, PlacedCanBeWritten, ScanIsExact
<1>8. ASSUME NEW r \in Row, BeginInsert(r) PROVE SetInv'
  BY <1>8 DEF BeginInsert, Inserting, SetInv, PlacedCanBeWritten, ScanIsExact
<1>9. ASSUME NEW r \in Row, RefuseInsert(r) PROVE SetInv'
  BY <1>2, <1>9 DEF RefuseInsert, Idle
<1>10. ASSUME NEW p \in Predicates, RejectPredicate(p) \/ Select(p) PROVE SetInv'
  BY <1>2, <1>10 DEF RejectPredicate, Select, Idle
<1>11. CASE PlaceThrows \/ IndexRow \/ IndexRowThrows \/ DeleteThrows \/ EndDelete \/ Restart
  BY <1>2, <1>11
     DEF PlaceThrows, IndexRow, IndexRowThrows, DeleteThrows, EndDelete, Restart, Idle
<1> QED BY <1>1, <1>3, <1>4, <1>5, <1>6, <1>7, <1>8, <1>9, <1>10, <1>11
        DEF Next, Running, Statements

LEMMA SetInvAlways ==
  ASSUME PkType = "INT", ValType # "BOOL"
  PROVE  Spec => []SetInv
<1>1. KeyInv /\ SetInv /\ [Next]_vars => SetInv'
  BY SetInvStep
<1> QED BY SetInvInit, KeyInvAlways, <1>1, PTL DEF Spec
----------------------------------------------------------------------------
(***************************************************************************)
(* The rows the finished statements have left, and what becomes of them.   *)
(***************************************************************************)
LEMMA RowsWhenIdle ==
  ASSUME Idle
  PROVE  Rows = {RowAt(l) : l \in Stored(pages)}
BY DEF Rows, Idle, None, Unfinished

LEMMA RowsOfInsert ==
  ASSUME call.op = "insert", call.step # "index"
  PROVE  Rows = {RowAt(l) : l \in Stored(pages)}
BY DEF Rows, Unfinished

LEMMA RowsOfDelete ==
  ASSUME call.op = "delete"
  PROVE  Rows = {RowAt(l) : l \in Stored(pages)} \cup {g[2] : g \in call.gone}
BY DEF Rows, Unfinished

(* The operators of RowSet are those of TableStore. *)
LEMMA SameOperators ==
  /\ \A p, r : Table!Matches(p, r) = Matches(p, r)
  /\ \A p : Table!WellTyped(p) = WellTyped(p)
  /\ \A r : Table!Encodable(r) = Encodable(r)
  /\ Table!Row = Row
  /\ \A r, ok : Table!InsertReply(r, ok) = InsertReply(r, ok)
  /\ \A r : Table!InsertFailed(r) = InsertFailed(r)
  /\ \A p, n : Table!DeleteReply(p, n) = DeleteReply(p, n)
  /\ \A p, R : Table!SelectReply(p, R) = SelectReply(p, R)
  /\ \A p : Table!ErrorReply(p) = ErrorReply(p)
BY DEF Table!Matches, Matches, Table!WellTyped, WellTyped, Table!Encodable, Encodable,
   Table!Row, Row, Table!InsertReply, InsertReply, Table!InsertFailed, InsertFailed,
   Table!DeleteReply, DeleteReply, Table!SelectReply, SelectReply,
   Table!ErrorReply, ErrorReply

LEMMA CardinalitySame == ASSUME NEW S PROVE Table!Cardinality(S) = Cardinality(S)
BY Zenon DEF Table!Cardinality, Cardinality

(* Writing a row to a page adds no row yet. *)
LEMMA PlaceIsUnseen ==
  ASSUME Inv, Place \/ PlaceInNewPage
  PROVE  Rows' = Rows
<1>1. PICK i \in PageIds : i < pages /\ PlaceIn(i)
  <2>1. CASE Place
    BY <2>1, PageBound DEF Place, Inv, TypeOK, PageIds
  <2>2. CASE PlaceInNewPage
    BY <2>2, InsertFields, PageBound DEF PlaceInNewPage, Inv, InsertOK, TypeOK, PageIds
  <2> QED BY <2>1, <2>2
<1>2. call.op = "insert" /\ call.step # "index"
  BY DEF Place, PlaceInNewPage
<1>3. PICK here \in Locations :
        /\ here \notin Stored(pages)
        /\ Stored(pages)' = Stored(pages) \cup {here}
        /\ \A l \in Stored(pages) : RowAt(l)' = RowAt(l)
        /\ Unfinished' = {here}
        /\ call' = Inserting("index", call.row, here[1], here[2])
  BY <1>1, <1>2, PlaceInAddsRow
<1>4. Rows' = {RowAt(l)' : l \in Stored(pages)' \ Unfinished'}
  BY <1>3 DEF Rows, Inserting
<1>5. Stored(pages)' \ Unfinished' = Stored(pages)
  BY <1>3
<1> QED BY <1>2, <1>3, <1>4, <1>5, RowsOfInsert

(* Nor does a delete that runs take one away. *)
LEMMA DeleteRowIsUnseen ==
  ASSUME Inv, DeleteRow
  PROVE  Rows' = Rows
<1>1. PICK s \in SlotIds :
        /\ NextDoomed(s)
        /\ call' = Deleting(call.pred, call.page, s + 1,
              call.gone \cup {<<<<call.page, s>>, ReadPage(call.page)[s]>>})
  BY DEF DeleteRow
<1>2. call.op = "delete" /\ call.page < pages /\ UNCHANGED <<page, pages>>
  BY DEF DeleteRow, Scanning
<1>3. call.page \in PageIds
  BY <1>2, DeleteFields, PageBound DEF Inv, TypeOK, PageIds
<1> DEFINE here == <<call.page, s>>
<1>4. here \in Stored(pages) /\ RowAt(here) = ReadPage(call.page)[s]
  BY <1>1, <1>2, <1>3 DEF Stored, Locations, RowAt, NextDoomed, Doomed
<1>5. call'.op = "delete" /\ call'.gone = call.gone \cup {<<here, RowAt(here)>>}
  BY <1>1, <1>4 DEF Deleting
<1>6. {g[2] : g \in call'.gone} = {g[2] : g \in call.gone} \cup {RowAt(here)}
  <2> DEFINE new == <<here, RowAt(here)>>
  <2>1. new[2] = RowAt(here) /\ call'.gone = call.gone \cup {new}
    BY <1>5
  <2> HIDE DEF new
  <2> QED BY <2>1
<1>7. Rows' = {RowAt(l)' : l \in Stored(pages)'} \cup {g[2] : g \in call'.gone}
  BY <1>5 DEF Rows, Unfinished
<1> QED BY <1>2, <1>4, <1>6, <1>7, RowsOfDelete, SamePages

LEMMA LeavePageIsUnseen ==
  ASSUME Inv, LeavePage
  PROVE  Rows' = Rows
<1>1. /\ call.op = "delete" /\ pages' = pages
      /\ call'.op = "delete" /\ call'.gone = call.gone
  BY DEF LeavePage, Scanning, Deleting
<1>2. \A l \in Stored(pages)' : l \in Stored(pages) /\ RowAt(l)' = RowAt(l)
  <2> SUFFICES ASSUME NEW l \in Locations, l[1] < pages, ReadPage(l[1])'[l[2]] # Empty
               PROVE  /\ Occupied(l[1], l[2])
                      /\ ReadPage(l[1])'[l[2]] = ReadPage(l[1])[l[2]]
    BY <1>1 DEF Stored, RowAt, Occupied
  <2>1. Occupied(l[1], l[2])
    BY LeavePageFillsNone
  <2> QED BY <2>1, LeavePageEffect
<1>3. \A l \in Stored(pages) :
        l \in Stored(pages)' \/ RowAt(l) \in {g[2] : g \in call.gone}
  <2> SUFFICES ASSUME NEW l \in Stored(pages), l \notin Stored(pages)'
               PROVE  \E g \in call.gone : RowAt(l) = g[2]
    OBVIOUS
  <2>1. l \in Locations /\ l[1] < pages /\ Occupied(l[1], l[2])
    BY DEF Stored
  <2>2. ReadPage(l[1])'[l[2]] = Empty
    BY <1>1, <2>1 DEF Stored, Occupied
  <2>3. PICK g \in call.gone : g[1] = l /\ l[1] = call.page
    BY <2>1, <2>2, LeavePageEffect DEF Occupied
  <2> QED BY <1>1, <2>3 DEF Inv, DeleteOK
<1>4. Rows' = {RowAt(l)' : l \in Stored(pages)'} \cup {g[2] : g \in call.gone}
  BY <1>1 DEF Rows, Unfinished
<1> QED BY <1>1, <1>2, <1>3, <1>4, RowsOfDelete
----------------------------------------------------------------------------
(* An insert that comes to its end. *)
LEMMA IndexRowInserts ==
  ASSUME KeyInv, SetInv, IndexRow
  PROVE  \E r \in Row : Table!InsertNew(r)
<1>1. /\ call.op = "insert" /\ call.step = "index" /\ call' = None
      /\ reply' = InsertReply(call.row, TRUE) /\ UNCHANGED <<page, pages>>
  BY DEF IndexRow
<1> DEFINE here == <<call.page, call.slot>>
<1>2. call.row \in Row
  BY <1>1, InsertFields DEF KeyInv, Inv
<1>3. here \in Stored(pages) /\ RowAt(here) = call.row
  BY <1>1, InsertFields DEF KeyInv, Inv, InsertOK, Stored, Locations, RowAt
<1>4. Rows = {RowAt(l) : l \in Stored(pages) \ {here}}
  BY <1>1 DEF Rows, Unfinished
<1>5. Rows' = {RowAt(l) : l \in Stored(pages)}
  BY <1>1, SamePages DEF Rows, Unfinished, None
<1>6. Rows' = Rows \cup {call.row}
  BY <1>3, <1>4, <1>5
<1>7. \A r \in Rows : r.pk # call.row.pk
  BY <1>3, <1>4 DEF KeyInv, UniquePk
<1>8. Encodable(call.row)
  BY <1>1 DEF SetInv, PlacedCanBeWritten
<1> QED BY <1>1, <1>2, <1>6, <1>7, <1>8, SameOperators DEF Table!InsertNew, Table!Present

LEMMA PlaceThrowsInserts ==
  ASSUME KeyInv, PlaceThrows
  PROVE  \E r \in Row : Table!InsertTooLong(r)
<1>1. /\ call.op = "insert" /\ call.step # "index" /\ call' = None
      /\ ~Encodable(call.row)
      /\ reply' = InsertFailed(call.row) /\ UNCHANGED <<page, pages>>
  BY DEF PlaceThrows
<1>2. call.row \in Row
  BY <1>1, InsertFields DEF KeyInv, Inv
<1>3. Rows = {RowAt(l) : l \in Stored(pages)} /\ Rows' = Rows
  BY <1>1, SamePages DEF Rows, Unfinished, None
<1>4. \A r \in Rows : r.pk # call.row.pk
  BY <1>1, <1>3, PlacingRowsIndexed DEF KeyInv, KeyIsFree
<1> QED BY <1>1, <1>2, <1>3, <1>4, SameOperators DEF Table!InsertTooLong, Table!Present

(* An insert that is refused: the entry it met points at a row with a key  *)
(* of the same index key, which is the same key.                           *)
LEMMA RefusalIsMeant ==
  ASSUME PkType = "INT", Inv, IndexPointsAtRows, NEW r \in Row, RefuseInsert(r)
  PROVE  Table!InsertRefused(r)
<1>1. /\ Idle /\ UNCHANGED <<page, pages, call>> /\ reply' = InsertReply(r, FALSE)
      /\ Index!Holds(KeyOf[r.pk])
  BY DEF RefuseInsert
<1>2. PICK l \in Stored(pages) : KeyOf[r.pk] = KeyOf[RowAt(l).pk]
  BY <1>1 DEF Index!Holds, IndexPointsAtRows
<1>3. RowAt(l).pk = r.pk
  BY <1>2, StoredRow, CastsAreInjective DEF Row
<1>4. Rows = {RowAt(m) : m \in Stored(pages)}
  BY <1>1, RowsWhenIdle
<1>5. Rows' = Rows
  BY <1>1, SamePages DEF Rows, Unfinished
<1> QED BY <1>1, <1>3, <1>4, <1>5, SameOperators DEF Table!InsertRefused, Table!Present

(* Different removed rows are counted once each. *)
LEMMA RowsCounted ==
  ASSUME NEW A, IsFiniteSet(A), \A g, h \in A : g[2] = h[2] => g = h
  PROVE  Cardinality({g[2] : g \in A}) = Cardinality(A)
<1> DEFINE T == {g[2] : g \in A}
           f == [g \in A |-> g[2]]
<1>1. f \in [A -> T] /\ \A g \in A : f[g] = g[2]
  OBVIOUS
<1>2. \A t \in T : \E g \in A : f[g] = t
  OBVIOUS
<1> HIDE DEF f, T
<1>3. f \in Bijection(A, T)
  BY <1>1, <1>2 DEF Bijection, Injection, Surjection, IsInjective
<1>4. ExistsBijection(A, T)
  BY <1>3 DEF ExistsBijection
<1>5. Cardinality(T) = Cardinality(A)
  BY <1>4, FS_Bijection
<1> QED BY <1>5 DEF T

(* A delete that comes to its end has passed every slot: the rows it has   *)
(* removed are the rows its clause holds for, and it counted each once.    *)
LEMMA EndDeleteDeletes ==
  ASSUME KeyInv, SetInv, EndDelete
  PROVE  \E p \in Predicates : Table!DeleteRows(p)
<1>1. /\ call.op = "delete" /\ call.page >= pages /\ call' = None
      /\ reply' = DeleteReply(call.pred, Cardinality(call.gone))
      /\ UNCHANGED <<page, pages>>
  BY DEF EndDelete
<1>2. call.pred \in Predicates /\ call.page \in 0 .. MaxPages /\ pages \in 0 .. MaxPages
      /\ call.gone \subseteq Locations \X Row
  BY <1>1, DeleteFields DEF KeyInv, Inv, TypeOK
<1> DEFINE kept    == {RowAt(l) : l \in Stored(pages)}
           removed == {g[2] : g \in call.gone}
<1>3. Rows = kept \cup removed /\ Rows' = kept
  <2>1. Rows' = kept
    BY <1>1, SamePages DEF Rows, Unfinished, None
  <2> QED BY <1>1, <2>1, RowsOfDelete
<1>4. \A l \in Stored(pages) : ~Matches(call.pred, RowAt(l))
  <2> SUFFICES ASSUME NEW l \in Stored(pages), Matches(call.pred, RowAt(l)) PROVE FALSE
    OBVIOUS
  <2>1. l[1] < pages /\ l[1] \in PageIds /\ Occupied(l[1], l[2])
    BY StoredRow DEF KeyInv
  <2>2. l[1] < call.page
    BY <1>1, <1>2, <2>1, PageBound DEF PageIds
  <2>3. PICK g \in call.gone : g[1] = l
    BY <1>1, <2>2 DEF SetInv, ScanIsExact, Passed
  <2> QED BY <1>1, <2>1, <2>2, <2>3 DEF KeyInv, Inv, DeleteOK
<1>5. \A r \in removed : Matches(call.pred, r)
  BY <1>1 DEF SetInv, ScanIsExact
<1>6. Table!Selected(call.pred) = removed
  BY <1>3, <1>4, <1>5, SameOperators DEF Table!Selected
<1>7. Rows' = Rows \ removed
  BY <1>3, <1>4, <1>5
<1>8. Cardinality(removed) = Cardinality(call.gone)
  <2>1. \A g, h \in call.gone : g[2] = h[2] => g = h
    BY <1>1 DEF SetInv, ScanIsExact
  <2>2. IsFiniteSet(call.gone)
    BY <1>1 DEF SetInv, ScanIsExact
  <2> QED BY <2>1, <2>2, RowsCounted
<1>9. WellTyped(call.pred)
  BY <1>1 DEF SetInv, ScanIsExact
<1> HIDE DEF removed
<1>10. reply' = Table!DeleteReply(call.pred, Table!Cardinality(Table!Selected(call.pred)))
  BY <1>1, <1>6, <1>8, CardinalitySame, SameOperators
<1> QED BY <1>2, <1>6, <1>7, <1>9, <1>10, SameOperators DEF Table!DeleteRows
----------------------------------------------------------------------------
(* A table with an INT key and no BOOL column (bool_clause_throws) is a    *)
(* set of rows: an insert is refused exactly when its key is present, a    *)
(* delete removes and counts exactly the rows its clause holds for, a      *)
(* select answers with them, whatever pages, slots and restarts are behind *)
(* it.                                                                     *)
THEOREM SetImplemented ==
  ASSUME PkType = "INT", ValType # "BOOL"
  PROVE  Spec => ImplementsRowSet
<1>1. Init => Table!RowSetInit
  <2> SUFFICES ASSUME Init PROVE Rows = {} /\ reply = Table!NoReply
    BY DEF Table!RowSetInit
  <2>1. Stored(pages) = {} /\ Idle /\ reply = NoReply
    BY DEF Init, Stored, Locations, PageIds, Idle
  <2> QED BY <2>1, RowsWhenIdle DEF NoReply, Table!NoReply
<1>2. KeyInv /\ IndexPointsAtRows /\ SetInv /\ [Next]_vars
        => [Table!RowSetNext]_(Table!rowSetVars)
  <2> SUFFICES ASSUME KeyInv, IndexPointsAtRows, SetInv, [Next]_vars
               PROVE  Table!RowSetNext \/ (Rows' = Rows /\ reply' = reply)
    BY DEF Table!rowSetVars
  <2>t. Inv
    BY DEF KeyInv
  <2>1. CASE UNCHANGED vars
    BY <2>1, SamePages DEF vars, Rows, Unfinished
  <2>2. CASE Place \/ PlaceInNewPage
    <3>1. reply' = reply
      BY <2>2 DEF Place, PlaceInNewPage, PlaceIn
    <3> QED BY <2>t, <2>2, <3>1, PlaceIsUnseen
  <2>3. CASE Grow \/ CreatePage
    <3>1. /\ call.op = "insert" /\ call.step # "index" /\ reply' = reply
          /\ call'.op = "insert" /\ call'.step # "index"
      BY <2>3 DEF Grow, CreatePage, Inserting
    <3>2. Stored(pages)' = Stored(pages) /\ \A l \in Stored(pages) : RowAt(l)' = RowAt(l)
      BY <2>t, <2>3, GrowAddsNone, CreatePageAddsNone
    <3>3. Rows' = {RowAt(l)' : l \in Stored(pages)'}
      BY <3>1 DEF Rows, Unfinished
    <3> QED BY <3>1, <3>2, <3>3, RowsOfInsert
  <2>4. CASE PlaceThrows
    BY <2>4, PlaceThrowsInserts, SameOperators DEF Table!RowSetNext
  <2>5. CASE IndexRow
    BY <2>5, IndexRowInserts, SameOperators DEF Table!RowSetNext
  <2>6. ~IndexRowThrows /\ ~DeleteThrows
    BY DEF KeyInv, IndexRowThrows, DeleteThrows
  <2>7. CASE DeleteRow
    BY <2>t, <2>7, DeleteRowIsUnseen DEF DeleteRow
  <2>8. CASE LeavePage
    BY <2>t, <2>8, LeavePageIsUnseen DEF LeavePage
  <2>9. CASE EndDelete
    BY <2>9, EndDeleteDeletes DEF Table!RowSetNext
  <2>10. ASSUME NEW r \in Row, RefuseInsert(r) PROVE Table!RowSetNext
    BY <2>t, <2>10, RefusalIsMeant, SameOperators DEF Table!RowSetNext
  <2>11. ASSUME NEW r \in Row, BeginInsert(r) PROVE Rows' = Rows /\ reply' = reply
    <3>1. /\ Idle /\ UNCHANGED <<page, pages, reply>>
          /\ call'.op = "insert" /\ call'.step # "index"
      BY <2>11 DEF BeginInsert, Inserting
    <3>2. Rows' = {RowAt(l)' : l \in Stored(pages)'}
      BY <3>1 DEF Rows, Unfinished
    <3> QED BY <3>1, <3>2, RowsWhenIdle, SamePages
  <2>12. ASSUME NEW p \in Predicates, BeginDelete(p) PROVE Rows' = Rows /\ reply' = reply
    <3>1. /\ Idle /\ UNCHANGED <<page, pages, reply>>
          /\ call'.op = "delete" /\ call'.gone = {}
      BY <2>12 DEF BeginDelete, Deleting
    <3>2. Rows' = {RowAt(l)' : l \in Stored(pages)'}
      BY <3>1 DEF Rows, Unfinished
    <3> QED BY <3>1, <3>2, RowsWhenIdle, SamePages
  <2>13. ASSUME NEW p \in Predicates, RejectPredicate(p) PROVE Table!RowSetNext
    <3>1. /\ ~WellTyped(p) /\ reply' = ErrorReply(p) /\ UNCHANGED <<page, pages, call>>
      BY <2>13, RefusedIsIllTyped DEF RejectPredicate
    <3>2. Rows' = Rows
      BY <3>1, SamePages DEF Rows, Unfinished
    <3> QED BY <3>1, <3>2, SameOperators DEF Table!RejectPredicate, Table!RowSetNext
  <2>14. ASSUME NEW p \in Predicates, Select(p) PROVE Table!RowSetNext
    <3>1. /\ Idle /\ WellTyped(p) /\ UNCHANGED <<page, pages, call>>
          /\ reply' = SelectReply(p,
               {RowAt(l) : l \in {m \in Stored(pages) : Matches(p, RowAt(m))}})
      BY <2>14, RefusedIsIllTyped DEF Select
    <3>2. Rows' = Rows
      BY <3>1, SamePages DEF Rows, Unfinished
    <3>3. Table!Selected(p) = {RowAt(l) : l \in {m \in Stored(pages) : Matches(p, RowAt(m))}}
      BY <3>1, RowsWhenIdle, SameOperators DEF Table!Selected
    <3>4. Table!SelectRows(p)
      BY <3>1, <3>2, <3>3, SameOperators DEF Table!SelectRows
    <3> QED BY <3>4 DEF Table!RowSetNext
  <2>15. CASE Restart
    <3>1. UNCHANGED <<page, pages, call, reply>>
      BY <2>t, <2>15 DEF Restart, Inv, TypeOK
    <3> QED BY <3>1, SamePages DEF Rows, Unfinished
  <2> QED
    BY <2>1, <2>2, <2>3, <2>4, <2>5, <2>6, <2>7, <2>8, <2>9, <2>10, <2>11, <2>12, <2>13,
       <2>14, <2>15 DEF Next, Running, Statements
<1>3. Spec => []IndexPointsAtRows
  BY RunsAreCrashRuns, EntriesPointAtRows, PTL
<1>4. Spec => []SetInv
  BY SetInvAlways
<1> QED BY <1>1, <1>2, <1>3, <1>4, KeyInvAlways, PTL DEF Spec, ImplementsRowSet, Table!RowSetSpec
=============================================================================
