----------------------------- MODULE PageSlots -----------------------------
(***************************************************************************)
(* What the pages of a table promise: each is an array of slots that hold  *)
(* a row or nothing.  An insert takes the first free slot and adds a page  *)
(* only when there is none; a removed row is gone, and every other row is  *)
(* what was inserted.  PageBytes.tla is shown to implement this module.    *)
(***************************************************************************)
EXTENDS Integers, Sequences, FiniteSets

CONSTANTS
  Row,        \* the rows that can be written
  LongRow,    \* rows with a string that is too long
  Clauses,    \* the sets of rows a WHERE clause can pick
  Empty       \* the slot is free

VARIABLES
  slotsPer,   \* rows that fit in a page
  slots,      \* for each page, what its slots hold
  reply       \* what the last statement answered

slotVars == <<slotsPer, slots, reply>>

NoReply        == [is |-> "none"]
Inserted(r, l) == [is |-> "inserted", row |-> r, at |-> l]
Failed(r)      == [is |-> "failed", row |-> r]
Removed(n)     == [is |-> "removed", count |-> n]
Selected(rows) == [is |-> "selected", rows |-> rows]

(* Slots are numbered from 0, and so are pages; slots[1] is page 0.        *)
FreePage  == [s \in 0 .. slotsPer - 1 |-> Empty]
Locations == (0 .. Len(slots) - 1) \X (0 .. slotsPer - 1)
Held(l)   == slots[l[1] + 1][l[2]]
Free      == {l \in Locations : Held(l) = Empty}

Before(l, k) == l[1] < k[1] \/ (l[1] = k[1] /\ l[2] < k[2])
IsFirst(l)   == \A k \in Free : k = l \/ Before(l, k)

SlotsInit ==
  /\ slotsPer \in Nat
  /\ slots = <<>>
  /\ reply = NoReply

PutInFree(r) ==
  \E l \in Free :
    /\ reply' = Inserted(r, l)
    /\ IsFirst(l)
    /\ slots' = [slots EXCEPT ![l[1] + 1][l[2]] = r]
    /\ UNCHANGED slotsPer

PutInNew(r) ==
  /\ reply' = Inserted(r, <<Len(slots), 0>>)
  /\ slotsPer > 0
  /\ Free = {}
  /\ slots' = Append(slots, [FreePage EXCEPT ![0] = r])
  /\ UNCHANGED slotsPer

(* A row that fits in no page, or cannot be written: a page is added for   *)
(* it all the same.                                                        *)
Refuse(r) ==
  /\ reply' = Failed(r)
  /\ r \in Row => slotsPer = 0
  /\ slots' = IF Free = {} THEN Append(slots, FreePage) ELSE slots
  /\ UNCHANGED slotsPer

Holding(R) == {l \in Locations : Held(l) \in R}

Remove(R) ==
  /\ reply' = Removed(Cardinality(Holding(R)))
  /\ slots' = [p \in DOMAIN slots |->
                 [s \in DOMAIN slots[p] |-> IF slots[p][s] \in R THEN Empty ELSE slots[p][s]]]
  /\ UNCHANGED slotsPer

Select(R) ==
  /\ reply' = Selected({<<l, Held(l)>> : l \in Holding(R)})
  /\ UNCHANGED <<slotsPer, slots>>

SlotsNext ==
  \/ \E r \in Row : PutInFree(r) \/ PutInNew(r)
  \/ \E r \in Row \cup LongRow : Refuse(r)
  \/ \E R \in Clauses : Remove(R) \/ Select(R)

SlotsSpec == SlotsInit /\ [][SlotsNext]_slotVars
=============================================================================
