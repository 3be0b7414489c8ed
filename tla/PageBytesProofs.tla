-------------------------- MODULE PageBytesProofs --------------------------
(***************************************************************************)
(* Theorems about PageBytes.tla, for any types and sizes of values, any    *)
(* layout of columns and any page size.                                    *)
(***************************************************************************)
EXTENDS PageBytes, TLAPS, FiniteSetTheorems, WellFoundedInduction

(***************************************************************************)
(* Numbers.                                                                *)
(***************************************************************************)
LEMMA LeastOf ==
  ASSUME NEW S \in SUBSET Nat, S # {}
  PROVE  \E m \in S : \A n \in S : m <= n
<1> DEFINE Rel == {ss \in Nat \X Nat : ss[1] < ss[2]}
<1>1. IsWellFoundedOn(Rel, Nat)
  BY ONLY NatLessThanWellFounded, Zenon DEF OpToRel
<1>2. \E x \in S : \A y \in S : ~(<<y, x>> \in Rel)
  <2> HIDE DEF Rel
  <2> QED BY <1>1, WFMin
<1>3. \A x, y \in Nat : ~(<<y, x>> \in Rel) => x <= y
  BY SMT
<1> QED BY <1>2, <1>3

LEMMA DivDown ==
  ASSUME NEW a \in Nat, NEW b \in Nat \ {0}
  PROVE  a \div b \in Nat /\ (a \div b) * b <= a
OBVIOUS

LEMMA ProductMono ==
  ASSUME NEW p \in Nat, NEW q \in Nat, NEW b \in Nat, p < q
  PROVE  p * b \in Nat /\ p * b + b <= q * b
OBVIOUS

LEMMA DivOf ==
  ASSUME NEW p \in Nat, NEW b \in Nat \ {0}, NEW s \in 0 .. b - 1
  PROVE  (p * b + s) \div b = p /\ (p * b + s) % b = s
OBVIOUS

LEMMA ModSmall ==
  ASSUME NEW p \in Nat, NEW b \in Nat \ {0}, p < b
  PROVE  p % b = p
OBVIOUS

LEMMA ProductSmall ==
  ASSUME NEW p \in Nat, NEW b \in Nat \ {0}, p < b
  PROVE  p * b \in Nat /\ b * b \in Nat \ {0} /\ p * b < b * b
OBVIOUS

(* What pack_row_locator packs, unpack_row_locator unpacks. *)
THEOREM LocatorsUnpack ==
  ASSUME NEW p \in Nat, NEW s \in Nat, p < Stride, s < Stride
  PROVE  UnpackPage(Pack(p, s)) = p /\ UnpackSlot(Pack(p, s)) = s
<1>1. Stride \in Nat \ {0}
  BY PageShape
<1>2. (p * Stride) % (Stride * Stride) = p * Stride
  BY <1>1, ProductSmall, ModSmall
<1>3. s % Stride = s
  BY <1>1, ModSmall
<1>4. Pack(p, s) = p * Stride + s
  BY <1>2, <1>3 DEF Pack
<1>5. (p * Stride + s) \div Stride = p /\ (p * Stride + s) % Stride = s
  <2>1. s \in 0 .. Stride - 1
    BY <1>1
  <2> QED BY <1>1, <2>1, DivOf
<1> QED BY <1>4, <1>5 DEF UnpackPage, UnpackSlot

(***************************************************************************)
(* The offsets of columns: the running sum exists and columns do not       *)
(* overlap.                                                                *)
(***************************************************************************)
IsRunningSum(f, types, n) ==
  f[1] = 0 /\ \A c \in 1 .. n : f[c + 1] = f[c] + Size[types[c]]

LEMMA SizeOf ==
  ASSUME NEW types \in Layouts, NEW c \in 1 .. Len(types)
  PROVE  /\ types[c] \in Type
         /\ Size[types[c]] \in Nat \ {0}
         /\ Size[types[c]] <= Size[VARCHAR_16]
         /\ Size[VARCHAR_16] \in Nat \ {0}
BY Tables, Types, Widths

LEMMA SumStays ==
  ASSUME NEW a \in Nat, NEW w \in Nat, NEW x \in 0 .. a, NEW y \in 1 .. w
  PROVE  x + y \in 0 .. a + w
OBVIOUS

(* By the least length at which there is none. *)
LEMMA RunningSumExists ==
  ASSUME NEW types \in Layouts, NEW n \in 0 .. Len(types)
  PROVE  \E f \in [1 .. n + 1 -> 0 .. n * Size[VARCHAR_16]] : IsRunningSum(f, types, n)
<1> DEFINE W == Size[VARCHAR_16]
           P(k) == \E f \in [1 .. k + 1 -> 0 .. k * W] : IsRunningSum(f, types, k)
           Bad == {k \in 0 .. Len(types) : ~P(k)}
<1>0. Len(types) \in Nat /\ W \in Nat \ {0}
  BY Tables, Types
<1> SUFFICES Bad = {}
  OBVIOUS
<1> SUFFICES ASSUME Bad # {} PROVE FALSE
  OBVIOUS
<1>1. Bad \in SUBSET Nat
  BY <1>0
<1>2. PICK m \in Bad : \A k \in Bad : m <= k
  <2> HIDE DEF Bad
  <2> QED BY <1>1, LeastOf
<1>3. P(0)
  <2> DEFINE f == [c \in 1 .. 0 + 1 |-> 0]
  <2>1. f \in [1 .. 0 + 1 -> 0 .. 0 * W]
    BY <1>0
  <2>2. IsRunningSum(f, types, 0)
    BY DEF IsRunningSum
  <2> QED BY <2>1, <2>2
<1>4. m \in 0 .. Len(types) /\ ~P(m)
  OBVIOUS
<1>5. m # 0
  <2> HIDE DEF P
  <2> QED BY <1>3, <1>4
<1>6. m - 1 \in 0 .. Len(types)
  BY <1>0, <1>4, <1>5
<1>7. P(m - 1)
  <2>1. m - 1 \notin Bad
    <3>1. ~ (m <= m - 1)
      BY <1>4
    <3> HIDE DEF Bad
    <3> QED BY <1>2, <3>1
  <2> QED BY <2>1, <1>6
<1>8. PICK f \in [1 .. (m - 1) + 1 -> 0 .. (m - 1) * W] : IsRunningSum(f, types, m - 1)
  BY <1>7
<1> DEFINE g == [c \in 1 .. m + 1 |-> IF c = m + 1 THEN f[m] + Size[types[m]] ELSE f[c]]
<1>9. m \in 1 .. Len(types) /\ (m - 1) * W + W = m * W /\ (m - 1) * W \in Nat
  BY <1>0, <1>4, <1>5
<1>10. Size[types[m]] \in 1 .. W
  BY <1>9, SizeOf
<1>11. g \in [1 .. m + 1 -> 0 .. m * W]
  <2>1. \A c \in 1 .. m : f[c] \in 0 .. (m - 1) * W
    BY <1>8, <1>9
  <2> HIDE DEF W
  <2>2. m \in 1 .. m /\ m \in Nat
    BY <1>9
  <2>3. f[m] + Size[types[m]] \in 0 .. m * W
    <3>1. f[m] \in 0 .. (m - 1) * W
      BY <2>1, <2>2
    <3>2. W \in Nat
      BY <1>0
    <3>3. (m - 1) * W \in Nat /\ (m - 1) * W + W = m * W
      BY <1>9
    <3>4. f[m] + Size[types[m]] \in 0 .. (m - 1) * W + W
      BY <3>1, <3>2, <3>3, <1>10, SumStays, Zenon
    <3> QED BY <3>3, <3>4, Zenon
  <2>4. \A x : x \in 0 .. (m - 1) * W => x \in 0 .. m * W
    BY <1>0, <1>9
  <2>5. \A c \in 1 .. m + 1 : c # m + 1 => c \in 1 .. m
    BY <2>2
  <2> QED BY <2>1, <2>3, <2>4, <2>5
<1>12. IsRunningSum(g, types, m)
  BY <1>8, <1>9 DEF IsRunningSum
<1>13. P(m)
  BY <1>11, <1>12
<1> QED BY <1>4, <1>13

(* column_offsets is the running sum of the sizes. *)
LEMMA OffsetStep ==
  ASSUME columns \in Layouts
  PROVE  /\ Len(columns) \in Nat \ {0}
         /\ DOMAIN columns = 1 .. Len(columns)
         /\ Offset(1) = 0
         /\ \A c \in 1 .. Len(columns) + 1 : Offset(c) \in Nat
         /\ \A c \in 1 .. Len(columns) : Offset(c + 1) = Offset(c) + Size[columns[c]]
<1> DEFINE F(types) == [1 .. Len(types) + 1 -> 0 .. Len(types) * Size[VARCHAR_16]]
<1>1. Len(columns) \in Nat \ {0} /\ DOMAIN columns = 1 .. Len(columns)
  BY Tables
<1>2. \E f \in F(columns) : IsRunningSum(f, columns, Len(columns))
  BY <1>1, RunningSumExists
<1>3. Offsets[columns] \in F(columns) /\ IsRunningSum(Offsets[columns], columns, Len(columns))
  <2>1. Offsets[columns] = CHOOSE f \in F(columns) : IsRunningSum(f, columns, Len(columns))
    BY <1>1 DEF Offsets, IsRunningSum
  <2> HIDE DEF F
  <2> QED BY <2>1, <1>2
<1>4. Len(columns) * Size[VARCHAR_16] \in Nat
  BY <1>1, Types
<1> QED BY <1>1, <1>3, <1>4 DEF Offset, IsRunningSum

LEMMA OffsetsGrow ==
  ASSUME columns \in Layouts, NEW c \in 1 .. Len(columns), NEW d \in 1 .. Len(columns) + 1, c < d
  PROVE  Offset(c + 1) <= Offset(d)
<1> DEFINE Bad == {e \in 1 .. Len(columns) + 1 : c < e /\ Offset(c + 1) > Offset(e)}
<1>0. Len(columns) \in Nat
  BY OffsetStep
<1> SUFFICES Bad = {}
  <2> \A e \in 1 .. Len(columns) + 1 : Offset(e) \in Nat
    BY OffsetStep
  <2> c + 1 \in 1 .. Len(columns) + 1
    BY <1>0
  <2> HIDE DEF Offset
  <2> QED OBVIOUS
<1> SUFFICES ASSUME Bad # {} PROVE FALSE
  OBVIOUS
<1>1. PICK m \in Bad : \A k \in Bad : m <= k
  <2>1. Bad \in SUBSET Nat
    BY <1>0
  <2> HIDE DEF Bad
  <2> QED BY <2>1, LeastOf
<1>2. m \in 1 .. Len(columns) + 1 /\ c < m /\ Offset(c + 1) > Offset(m)
  OBVIOUS
<1>3. m # c + 1
  <2> Offset(c + 1) \in Nat
    BY OffsetStep
  <2> HIDE DEF Offset
  <2> QED BY <1>2
<1>4. m - 1 \in 1 .. Len(columns) /\ c < m - 1
  BY <1>0, <1>2, <1>3
<1>5. Offset(m) = Offset(m - 1) + Size[columns[m - 1]]
  <2>1. m = (m - 1) + 1
    BY <1>0, <1>2
  <2>2. Offset((m - 1) + 1) = Offset(m - 1) + Size[columns[m - 1]]
    BY <1>4, OffsetStep
  <2> HIDE DEF Offset
  <2> QED BY <2>1, <2>2
<1>6. Offset(m - 1) \in Nat /\ Size[columns[m - 1]] \in Nat /\ Offset(c + 1) \in Nat
  <2>1. Size[columns[m - 1]] \in Nat \ {0}
    BY <1>4, SizeOf
  <2>2. m - 1 \in 1 .. Len(columns) + 1 /\ c + 1 \in 1 .. Len(columns) + 1
    BY <1>0, <1>4
  <2>3. \A e \in 1 .. Len(columns) + 1 : Offset(e) \in Nat
    BY OffsetStep
  <2> HIDE DEF Offset
  <2> QED BY <2>1, <2>2, <2>3
<1>7. m - 1 \in Bad
  <2> HIDE DEF Offset
  <2> QED BY <1>0, <1>2, <1>4, <1>5, <1>6
<1> QED
  <2> HIDE DEF Bad
  <2> QED BY <1>0, <1>1, <1>2, <1>7

LEMMA RowSizeOf ==
  ASSUME columns \in Layouts
  PROVE  /\ RowSize \in Nat \ {0}
         /\ \A c \in 1 .. Len(columns) :
              /\ Offset(c) \in Nat
              /\ Offset(c) + Size[columns[c]] <= RowSize
<1>1. /\ Len(columns) \in Nat \ {0}
      /\ \A c \in 1 .. Len(columns) + 1 : Offset(c) \in Nat
      /\ \A c \in 1 .. Len(columns) : Offset(c + 1) = Offset(c) + Size[columns[c]]
  BY OffsetStep
<1>2. RowSize \in Nat
  <2> HIDE DEF Offset
  <2> QED BY <1>1 DEF RowSize
<1>3. ASSUME NEW c \in 1 .. Len(columns)
      PROVE  Offset(c) \in Nat /\ Offset(c) + Size[columns[c]] <= RowSize
  <2>1. Offset(c + 1) <= Offset(Len(columns) + 1)
    <3>1. Len(columns) + 1 \in 1 .. Len(columns) + 1 /\ c < Len(columns) + 1
      BY <1>1
    <3> QED BY <3>1, OffsetsGrow
  <2> QED BY <1>1, <2>1 DEF RowSize
<1>4. RowSize # 0
  <2>1. 1 \in 1 .. Len(columns)
    BY <1>1
  <2>2. Offset(1) \in Nat /\ Offset(1) + Size[columns[1]] <= RowSize /\ Size[columns[1]] \in Nat \ {0}
    BY <1>3, <2>1, SizeOf
  <2> QED BY <2>2, <1>2
<1> QED BY <1>2, <1>3, <1>4

(* max_occupancy rows fit in a page and have a bit each. *)
LEMMA SlotsFit ==
  ASSUME columns \in Layouts
  PROVE  /\ MaxRows \in Nat
         /\ MaxRows <= MAX_OCCUPANCY
         /\ \A s \in SlotIds : s * RowSize \in Nat /\ s * RowSize + RowSize <= SLOT_SPACE
<1>1. RowSize \in Nat \ {0}
  BY RowSizeOf
<1> HIDE DEF RowSize
<1> DEFINE q == SLOT_SPACE \div RowSize
<1>2. q \in Nat /\ q * RowSize <= SLOT_SPACE
  BY <1>1, DivDown, PageShape
<1> HIDE DEF q
<1>3. MaxRows = IF q < MAX_OCCUPANCY THEN q ELSE MAX_OCCUPANCY
  BY DEF MaxRows, q
<1>4. MaxRows \in Nat /\ MaxRows <= MAX_OCCUPANCY /\ MaxRows <= q
  BY <1>2, <1>3, PageShape
<1>5. ASSUME NEW s \in SlotIds
      PROVE  s * RowSize \in Nat /\ s * RowSize + RowSize <= SLOT_SPACE
  <2>1. s \in Nat /\ s < q
    BY <1>4, <1>2 DEF SlotIds
  <2>2. s * RowSize \in Nat /\ s * RowSize + RowSize <= q * RowSize
    BY <2>1, <1>1, <1>2, ProductMono
  <2>3. q * RowSize \in Nat /\ SLOT_SPACE \in Nat
    BY <1>1, <1>2, PageShape
  <2> QED BY <2>2, <2>3, <1>1, <1>2
<1> QED BY <1>4, <1>5

LEMMA FirstFreeOf ==
  ASSUME columns \in Layouts, NEW page \in Page, page.occupancy \subseteq SlotIds, HasRoom(page)
  PROVE  /\ FirstFree(page) \in SlotIds
         /\ FirstFree(page) \notin page.occupancy
         /\ \A k \in SlotIds : k < FirstFree(page) => k \in page.occupancy
<1> DEFINE Open == SlotIds \ page.occupancy
<1>1. MaxRows \in Nat
  BY SlotsFit
<1>2. SlotIds \in SUBSET Nat
  BY <1>1 DEF SlotIds
<1>3. Open # {}
  <2>1. Cardinality(SlotIds) = MaxRows
    BY <1>1, FS_Interval DEF SlotIds
  <2>2. Open = {} => page.occupancy = SlotIds
    OBVIOUS
  <2>3. ~ (MaxRows < MaxRows)
    BY <1>1
  <2> QED BY <2>1, <2>2, <2>3 DEF HasRoom
<1>4. PICK m \in Open : \A n \in Open : m <= n
  <2>1. Open \in SUBSET Nat
    BY <1>2
  <2> HIDE DEF Open
  <2> QED BY <2>1, <1>3, LeastOf
<1>5. ASSUME NEW k \in SlotIds, k < m
      PROVE  k \in page.occupancy
  <2>1. m \in Nat /\ k \in Nat
    BY <1>2
  <2>2. ~ (m <= k)
    BY <2>1, <1>5
  <2>3. k \notin Open
    <3> HIDE DEF Open
    <3> QED BY <1>4, <2>2
  <2> QED BY <2>3
<1> QED BY <1>4, <1>5 DEF FirstFree

LEMMA FullPage ==
  ASSUME columns \in Layouts, NEW page \in Page, page.occupancy \subseteq SlotIds, ~HasRoom(page)
  PROVE  page.occupancy = SlotIds
<1>1. MaxRows \in Nat
  BY SlotsFit
<1>2. IsFiniteSet(SlotIds) /\ Cardinality(SlotIds) = MaxRows
  BY <1>1, FS_Interval DEF SlotIds
<1>3. IsFiniteSet(page.occupancy) /\ Cardinality(page.occupancy) <= Cardinality(SlotIds)
  BY <1>2, FS_Subset
<1>4. Cardinality(page.occupancy) \in Nat
  BY <1>3, FS_CardinalityType
<1>5. Cardinality(page.occupancy) = MaxRows
  BY <1>1, <1>2, <1>3, <1>4 DEF HasRoom
<1> QED BY <1>2, <1>5, FS_Subset

(***************************************************************************)
(* A value written and read back.                                          *)
(***************************************************************************)
LEMMA WrittenBytes ==
  ASSUME NEW t \in Type, NEW v \in Writable(t)
  PROVE  /\ Size[t] \in Nat \ {0}
         /\ Encode(t, v) \in [1 .. Size[t] -> Byte]
         /\ Decode(t, Encode(t, v)) = v
<1>0. Size[t] \in Nat \ {0}
  BY Types
<1>1. CASE t # VARCHAR_16
  <2>1. v \in Seq(Byte) /\ Len(v) = Size[t]
    BY <1>1, Numbers DEF Writable, Value
  <2>2. v \in [1 .. Size[t] -> Byte]
    BY <2>1
  <2> QED BY <1>0, <1>1, <2>2 DEF Encode, Decode
<1>2. CASE t = VARCHAR_16
  <2> DEFINE N == Size[t]
             p == [i \in 1 .. N |-> IF i <= Len(v) THEN v[i] ELSE 0]
  <2>1. v \in Seq(Byte \ {0}) /\ Len(v) <= N /\ Len(v) \in Nat
    BY <1>2, Texts DEF Writable, Value
  <2>2. Encode(t, v) = p
    BY <1>2 DEF Encode, Padded
  <2>3. p \in [1 .. N -> Byte]
    BY <2>1, Bytes
  <2>4. p \in Seq(Byte) /\ Len(p) = N
    BY <2>3, <1>0
  <2>5. Terminator(p) = Len(v)
    <3> DEFINE Ends(n) == /\ \A i \in 1 .. n : p[i] # 0
                          /\ n < Len(p) => p[n + 1] = 0
    <3>1. Len(v) \in 0 .. Len(p) /\ Ends(Len(v))
      BY <2>1, <2>4, <1>0
    <3>2. ASSUME NEW n \in 0 .. Len(p), Ends(n) PROVE n = Len(v)
      <4>1. CASE n < Len(v)
        <5>1. n + 1 \in 1 .. Len(v) /\ n < Len(p)
          BY <4>1, <2>1, <2>4, <1>0
        <5>2. p[n + 1] # 0
          BY <5>1, <2>1, <1>0
        <5> QED BY <5>1, <5>2, <3>2
      <4>2. CASE n > Len(v)
        <5>1. Len(v) + 1 \in 1 .. n /\ Len(v) + 1 \in 1 .. N
          BY <4>2, <2>1, <2>4, <1>0
        <5>2. p[Len(v) + 1] = 0
          BY <5>1, <2>1
        <5> QED BY <5>1, <5>2, <3>2
      <4> QED BY <4>1, <4>2, <2>1, <2>4, <1>0
    <3>3. Terminator(p) = CHOOSE n \in 0 .. Len(p) : Ends(n)
      BY DEF Terminator
    <3> HIDE DEF Ends
    <3> QED BY <3>1, <3>2, <3>3
  <2>6. SubSeq(p, 1, Len(v)) = v
    BY <2>1, <2>4, <1>0
  <2> HIDE DEF p
  <2> QED BY <1>0, <1>2, <2>2, <2>3, <2>5, <2>6 DEF Decode
<1> QED BY <1>1, <1>2

(***************************************************************************)
(* A row written and read back.                                            *)
(***************************************************************************)
LEMMA BytePosition ==
  ASSUME NEW S \in Nat, NEW x \in Nat, NEW rs \in Nat, NEW o \in Nat, NEW z \in Nat,
         NEW i \in Nat, x + rs <= S, o + z <= rs, 1 <= i, i <= z
  PROVE  x + o + i - 1 \in 0 .. S - 1 /\ (x + o + i - 1) - x = o + i - 1
OBVIOUS

LEMMA BytesOfColumn ==
  ASSUME columns \in Layouts, NEW s \in SlotIds,
         NEW c \in 1 .. Len(columns), NEW i \in 1 .. Size[columns[c]]
  PROVE  /\ s * RowSize + Offset(c) + i - 1 \in DataByte
         /\ ColumnOf(s * RowSize + Offset(c) + i - 1, s * RowSize) = {c}
<1> DEFINE x == s * RowSize
           b == x + Offset(c) + i - 1
<1>1. x \in Nat /\ x + RowSize <= SLOT_SPACE /\ RowSize \in Nat /\ SLOT_SPACE \in Nat
  BY SlotsFit, RowSizeOf, PageShape
<1>2. /\ Len(columns) \in Nat /\ DOMAIN columns = 1 .. Len(columns)
      /\ \A d \in 1 .. Len(columns) + 1 : Offset(d) \in Nat
      /\ \A d \in 1 .. Len(columns) : Offset(d + 1) = Offset(d) + Size[columns[d]]
  BY OffsetStep
<1>3. Size[columns[c]] \in Nat /\ Offset(c) \in Nat /\ Offset(c) + Size[columns[c]] <= RowSize
  BY RowSizeOf, SizeOf
<1>4. ColumnOf(b, x) = {d \in 1 .. Len(columns) : b - x \in Offset(d) .. Offset(d + 1) - 1}
  BY <1>2 DEF ColumnOf
<1> HIDE DEF x, RowSize, Offset
<1>5. b \in DataByte /\ b - x = Offset(c) + i - 1
  <2> DEFINE o == Offset(c)
             z == Size[columns[c]]
  <2>1. i \in Nat /\ 1 <= i /\ i <= z
    BY <1>3
  <2>2. o \in Nat /\ z \in Nat /\ o + z <= RowSize
    BY <1>3
  <2> HIDE DEF o, z
  <2>3. x + o + i - 1 \in 0 .. SLOT_SPACE - 1 /\ (x + o + i - 1) - x = o + i - 1
    BY <2>1, <2>2, <1>1, BytePosition
  <2> QED BY <2>3 DEF o, DataByte
<1>6. b - x \in Offset(c) .. Offset(c + 1) - 1
  BY <1>2, <1>3, <1>5
<1>7. ASSUME NEW d \in 1 .. Len(columns), d # c
      PROVE  ~ (b - x \in Offset(d) .. Offset(d + 1) - 1)
  <2>1. CASE d < c
    <3>1. Offset(d + 1) <= Offset(c)
      BY <1>2, <2>1, OffsetsGrow
    <3>2. Offset(d + 1) \in Nat
      BY <1>2
    <3> QED BY <3>1, <3>2, <1>3, <1>5
  <2>2. CASE d > c
    <3>1. Offset(c + 1) <= Offset(d)
      BY <1>2, <2>2, OffsetsGrow
    <3>2. Offset(d) \in Nat /\ Offset(c + 1) \in Nat
      BY <1>2
    <3> QED BY <3>1, <3>2, <1>6, <1>3, <1>5
  <2> QED BY <1>7, <2>1, <2>2, <1>2
<1>8. ColumnOf(b, x) = {c}
  BY <1>4, <1>6, <1>7
<1> QED BY <1>5, <1>8 DEF x

LEMMA ApartSlots ==
  ASSUME NEW x \in Nat, NEW y \in Nat, NEW width \in Nat, y + width <= x \/ x + width <= y,
         NEW o \in Nat, NEW size \in Nat, o + size <= width,
         NEW i \in Nat \ {0}, i <= size,
         NEW p \in Nat, NEW len \in Nat, p + len <= width,
         NEW next, next = p + len
  PROVE  ~ ((y + o + i - 1) - x \in p .. next - 1)
OBVIOUS

LEMMA BytesOfOtherSlot ==
  ASSUME columns \in Layouts, NEW s \in SlotIds, NEW k \in SlotIds, k # s,
         NEW c \in 1 .. Len(columns), NEW i \in 1 .. Size[columns[c]]
  PROVE  ColumnOf(k * RowSize + Offset(c) + i - 1, s * RowSize) = {}
<1> DEFINE x == s * RowSize
           y == k * RowSize
           b == y + Offset(c) + i - 1
<1>1. x \in Nat /\ y \in Nat /\ RowSize \in Nat
  BY SlotsFit, RowSizeOf
<1>2. /\ Len(columns) \in Nat /\ DOMAIN columns = 1 .. Len(columns)
      /\ \A d \in 1 .. Len(columns) : Offset(d + 1) = Offset(d) + Size[columns[d]]
  BY OffsetStep
<1>3. Size[columns[c]] \in Nat /\ Offset(c) \in Nat /\ Offset(c) + Size[columns[c]] <= RowSize
  BY RowSizeOf, SizeOf
<1>4. \/ y + RowSize <= x
      \/ x + RowSize <= y
  <2>1. MaxRows \in Nat
    BY SlotsFit
  <2>2. s \in Nat /\ k \in Nat /\ (k < s \/ s < k)
    BY <2>1 DEF SlotIds
  <2> HIDE DEF RowSize
  <2>3. CASE k < s
    BY <2>2, <2>3, <1>1, ProductMono
  <2>4. CASE s < k
    BY <2>2, <2>4, <1>1, ProductMono
  <2> QED BY <2>2, <2>3, <2>4
<1>5. ColumnOf(b, x) = {d \in 1 .. Len(columns) : b - x \in Offset(d) .. Offset(d + 1) - 1}
  BY <1>2 DEF ColumnOf
<1>6. ASSUME NEW d \in 1 .. Len(columns)
      PROVE  ~ (b - x \in Offset(d) .. Offset(d + 1) - 1)
  <2>1. /\ Offset(d) \in Nat /\ Size[columns[d]] \in Nat
        /\ Offset(d) + Size[columns[d]] <= RowSize
        /\ Offset(d + 1) = Offset(d) + Size[columns[d]]
    BY <1>2, RowSizeOf, SizeOf
  <2> HIDE DEF x, y, RowSize, Offset
  <2>2. i \in Nat \ {0} /\ i <= Size[columns[c]]
    BY <1>3
  <2> QED BY <2>1, <2>2, <1>1, <1>3, <1>4, ApartSlots
<1>7. ColumnOf(b, x) = {}
  BY <1>5, <1>6
<1> QED BY <1>7 DEF x, y

LEMMA ColumnsOfRow ==
  ASSUME columns \in Layouts, NEW r \in Rows, NEW c \in 1 .. Len(columns)
  PROVE  columns[c] \in Type /\ r[c] \in Writable(columns[c])
<1>1. DOMAIN columns = 1 .. Len(columns) /\ columns[c] \in Type
  BY OffsetStep, SizeOf
<1> QED BY <1>1 DEF Rows, WritableRows

(* What is written to a slot is read from it. *)
LEMMA RowWritten ==
  ASSUME columns \in Layouts, NEW page \in Page, NEW s \in SlotIds, NEW r \in Rows
  PROVE  RowAt(WithRow(page, s, r), s) = r
<1> DEFINE new == WithRow(page, s, r)
<1>1. DOMAIN columns = 1 .. Len(columns)
  BY OffsetStep
<1>2. ASSUME NEW c \in 1 .. Len(columns)
      PROVE  Decode(columns[c], BytesAt(new, s, c)) = r[c]
  <2> DEFINE t == columns[c]
             e == Encode(t, r[c])
  <2>1. t \in Type /\ r[c] \in Writable(t)
    BY ColumnsOfRow
  <2>2. e \in [1 .. Size[t] -> Byte] /\ Decode(t, e) = r[c] /\ Size[t] \in Nat \ {0}
    BY <2>1, WrittenBytes
  <2> HIDE DEF e
  <2>3. ASSUME NEW i \in 1 .. Size[t]
        PROVE  new.data[s * RowSize + Offset(c) + i - 1] = e[i]
    <3> DEFINE from == s * RowSize
               b == from + Offset(c) + i - 1
    <3>1. b \in DataByte /\ ColumnOf(b, from) = {c}
      BY BytesOfColumn
    <3>2. from \in Nat /\ Offset(c) \in Nat
      BY SlotsFit, RowSizeOf
    <3>3. new.data[b] = WriteRow(page.data, s, r)[b]
      BY DEF WithRow
    <3>4. WriteRow(page.data, s, r)[b] = e[b - from - Offset(c) + 1]
      BY <3>1, Zenon DEF WriteRow, e
    <3> HIDE DEF from, Offset
    <3>5. b - from - Offset(c) + 1 = i
      BY <3>2, <2>2
    <3> QED BY <3>3, <3>4, <3>5 DEF from
  <2>4. BytesAt(new, s, c) = e
    BY <2>2, <2>3 DEF BytesAt
  <2> QED BY <2>2, <2>4
<1>3. RowAt(new, s) = [c \in 1 .. Len(columns) |-> r[c]]
  <2> HIDE DEF new
  <2> QED BY <1>1, <1>2 DEF RowAt
<1>4. r = [c \in 1 .. Len(columns) |-> r[c]]
  BY <1>1 DEF Rows, WritableRows, AnyRows
<1> QED BY <1>3, <1>4

(* And what is written to a slot does not touch another one. *)
LEMMA OtherRowsKept ==
  ASSUME columns \in Layouts, NEW page \in Page, NEW s \in SlotIds, NEW r \in Rows,
         NEW k \in SlotIds, k # s
  PROVE  RowAt(WithRow(page, s, r), k) = RowAt(page, k)
<1> DEFINE new == WithRow(page, s, r)
<1>1. DOMAIN columns = 1 .. Len(columns)
  BY OffsetStep
<1>2. ASSUME NEW c \in 1 .. Len(columns)
      PROVE  BytesAt(new, k, c) = BytesAt(page, k, c)
  <2>1. ASSUME NEW i \in 1 .. Size[columns[c]]
        PROVE  new.data[k * RowSize + Offset(c) + i - 1] = page.data[k * RowSize + Offset(c) + i - 1]
    <3> DEFINE b == k * RowSize + Offset(c) + i - 1
    <3>1. b \in DataByte
      BY BytesOfColumn
    <3>2. ColumnOf(b, s * RowSize) = {}
      BY BytesOfOtherSlot
    <3>3. new.data[b] = WriteRow(page.data, s, r)[b]
      BY DEF WithRow
    <3> HIDE DEF b
    <3>4. WriteRow(page.data, s, r)[b] = page.data[b]
      BY <3>1, <3>2, Zenon DEF WriteRow
    <3> QED BY <3>3, <3>4 DEF b
  <2> HIDE DEF new
  <2> QED BY <2>1 DEF BytesAt
<1> HIDE DEF new
<1>3. \A p : RowAt(p, k) = [c \in 1 .. Len(columns) |-> Decode(columns[c], BytesAt(p, k, c))]
  BY <1>1, Zenon DEF RowAt
<1>4. \A c \in 1 .. Len(columns) :
        Decode(columns[c], BytesAt(new, k, c)) = Decode(columns[c], BytesAt(page, k, c))
  BY <1>2
<1>5. RowAt(new, k) = RowAt(page, k)
  <2> DEFINE G(p) == [c \in 1 .. Len(columns) |-> Decode(columns[c], BytesAt(p, k, c))]
  <2>1. G(new) = G(page)
    BY <1>4
  <2> HIDE DEF G
  <2> QED BY <1>3, <2>1 DEF G
<1> QED BY <1>5 DEF new

LEMMA PageWritten ==
  ASSUME columns \in Layouts, NEW page \in Page, NEW s \in SlotIds, NEW r \in Rows
  PROVE  WithRow(page, s, r) \in Page
<1>1. page.occupancy \cup {s} \in SUBSET (0 .. MAX_OCCUPANCY - 1)
  BY SlotsFit, PageShape DEF Page, SlotIds
<1>2. ASSUME NEW b \in DataByte
      PROVE  WriteRow(page.data, s, r)[b] \in Byte
  <2> DEFINE from == s * RowSize
  <2>1. from \in Nat
    BY SlotsFit
  <2>2. CASE ColumnOf(b, from) = {}
    <3>1. WriteRow(page.data, s, r)[b] = page.data[b]
      BY <2>2, Zenon DEF WriteRow
    <3> QED BY <3>1 DEF Page
  <2>3. CASE ColumnOf(b, from) # {}
    <3> DEFINE c == CHOOSE d \in ColumnOf(b, from) : TRUE
               e == Encode(columns[c], r[c])
    <3>1. WriteRow(page.data, s, r)[b] = e[b - from - Offset(c) + 1]
      BY <2>3, Zenon DEF WriteRow
    <3>2. c \in ColumnOf(b, from)
      BY <2>3, Zenon
    <3> HIDE DEF c
    <3>3. c \in 1 .. Len(columns) /\ b - from \in Offset(c) .. Offset(c + 1) - 1
      BY <3>2, OffsetStep DEF ColumnOf
    <3>4. e \in [1 .. Size[columns[c]] -> Byte]
      BY <3>3, ColumnsOfRow, WrittenBytes
    <3>5. Offset(c + 1) = Offset(c) + Size[columns[c]] /\ Offset(c) \in Nat /\ Size[columns[c]] \in Nat
      BY <3>3, OffsetStep, RowSizeOf, SizeOf
    <3> HIDE DEF e, from, Offset
    <3>6. b \in Int
      BY PageShape DEF DataByte
    <3>7. b - from - Offset(c) + 1 \in 1 .. Size[columns[c]]
      BY <2>1, <3>3, <3>5, <3>6
    <3> QED BY <3>1, <3>4, <3>7
  <2> QED BY <2>2, <2>3
<1>3. WriteRow(page.data, s, r) \in [DataByte -> Byte]
  <2> DEFINE w == WriteRow(page.data, s, r)
  <2>1. w = [b \in DataByte |-> w[b]]
    BY DEF WriteRow
  <2> HIDE DEF w
  <2> QED BY <1>2, <2>1 DEF w
<1> QED BY <1>1, <1>3 DEF WithRow, Page

(***************************************************************************)
(* The invariant: occupied slots exist and what they hold are rows.        *)
(***************************************************************************)
OccupiedExist == \A i \in PageIds : file[i].occupancy \subseteq SlotIds
StoredRows    == \A i \in PageIds : \A s \in file[i].occupancy : RowAt(file[i], s) \in Rows
IInv          == TypeOK /\ OccupiedExist /\ StoredRows

(* The columns of a table never change, and with them nothing read from a  *)
(* page.                                                                   *)
LEMMA ColumnsFixed ==
  ASSUME columns' = columns
  PROVE  /\ MaxRows' = MaxRows
         /\ SlotIds' = SlotIds
         /\ Rows' = Rows
         /\ \A i, s : RowAt(file[i], s)' = RowAt(file'[i], s)
<1>1. RowSize' = RowSize /\ \A c : Offset(c)' = Offset(c)
  BY DEF RowSize, Offset
<1>2. MaxRows' = MaxRows
  BY <1>1 DEF MaxRows
<1>3. SlotIds' = SlotIds
  BY <1>2 DEF SlotIds
<1>4. Rows' = Rows
  BY DEF Rows
<1>5. \A i, s : RowAt(file[i], s)' = RowAt(file'[i], s)
  BY Zenon DEF RowAt, BytesAt, RowSize, Offset
<1> QED BY <1>2, <1>3, <1>4, <1>5

(* The null page has no row, in it or behind the last page. *)
LEMMA NullPageIsEmpty == NullPage \in Page /\ NullPage.occupancy = {}
BY Bytes DEF NullPage, Page

LEMMA PageOf ==
  ASSUME IInv, NEW i \in PageIds
  PROVE  /\ i \in DOMAIN file
         /\ file[i] \in Page
         /\ file[i].occupancy \subseteq SlotIds
BY PageShape DEF IInv, TypeOK, PageIds, OccupiedExist

(* A step that keeps the columns, replaces pages by well-formed ones and   *)
(* adds pages at the end keeps the invariant.                              *)
LEMMA PagesReplaced ==
  ASSUME IInv, columns' = columns, pages' \in pages .. MaxPages,
         file' \in [0 .. MaxPages - 1 -> Page],
         \A i \in 0 .. MaxPages - 1 : i >= pages' => file'[i] = file[i],
         \A i \in 0 .. pages' - 1 :
           /\ file'[i].occupancy \subseteq SlotIds
           /\ \A s \in file'[i].occupancy : RowAt(file'[i], s) \in Rows
  PROVE  IInv'
<1>1. /\ columns \in Layouts /\ pages \in 0 .. MaxPages /\ MaxPages \in Nat
      /\ \A i \in 0 .. MaxPages - 1 : i >= pages => file[i] = NullPage
  BY PageShape DEF IInv, TypeOK
<1>2. SlotIds' = SlotIds /\ Rows' = Rows /\ \A i, s : RowAt(file[i], s)' = RowAt(file'[i], s)
  BY ColumnsFixed
<1>3. TypeOK'
  <2>1. pages' \in 0 .. MaxPages
    BY <1>1
  <2>2. \A i \in 0 .. MaxPages - 1 : i >= pages' => file'[i] = NullPage
    BY <1>1
  <2> QED BY <1>1, <2>1, <2>2 DEF TypeOK
<1>4. OccupiedExist'
  BY <1>2 DEF OccupiedExist, PageIds
<1>5. StoredRows'
  BY <1>2 DEF StoredRows, PageIds
<1> QED BY <1>3, <1>4, <1>5 DEF IInv

(* A row written to a free slot of a page. *)
LEMMA RowAdded ==
  ASSUME columns \in Layouts, NEW page \in Page, page.occupancy \subseteq SlotIds, HasRoom(page),
         \A s \in page.occupancy : RowAt(page, s) \in Rows,
         NEW r \in Rows
  PROVE  LET s   == FirstFree(page)
             new == WithRow(page, s, r)
         IN  /\ new \in Page
             /\ new.occupancy = page.occupancy \cup {s}
             /\ new.occupancy \subseteq SlotIds
             /\ RowAt(new, s) = r
             /\ \A k \in page.occupancy : RowAt(new, k) = RowAt(page, k)
             /\ \A k \in new.occupancy : RowAt(new, k) \in Rows
<1> DEFINE s   == FirstFree(page)
           new == WithRow(page, s, r)
<1>1. s \in SlotIds /\ s \notin page.occupancy
  BY FirstFreeOf
<1> HIDE DEF s
<1>2. new \in Page
  BY <1>1, PageWritten
<1>3. new.occupancy = page.occupancy \cup {s}
  BY DEF WithRow
<1>4. RowAt(new, s) = r
  BY <1>1, RowWritten
<1>5. ASSUME NEW k \in page.occupancy
      PROVE  RowAt(new, k) = RowAt(page, k)
  <2>1. k \in SlotIds /\ k # s
    BY <1>1
  <2> QED BY <1>1, <2>1, OtherRowsKept
<1> HIDE DEF new
<1> QED BY <1>1, <1>2, <1>3, <1>4, <1>5 DEF s, new

LEMMA InsertKeeps ==
  ASSUME IInv, NEW r \in Rows, Insert(r)
  PROVE  IInv'
<1>1. PICK i \in Roomy : /\ file' = [file EXCEPT ![i] = WithRow(@, FirstFree(file[i]), r)]
                         /\ UNCHANGED <<columns, pages>>
  BY DEF Insert
<1>2. columns \in Layouts /\ pages \in 0 .. MaxPages /\ MaxPages \in Nat /\ file \in [0 .. MaxPages - 1 -> Page]
  BY PageShape DEF IInv, TypeOK
<1>3. i \in PageIds /\ HasRoom(file[i])
  BY DEF Roomy
<1>4. /\ i \in DOMAIN file /\ file[i] \in Page /\ file[i].occupancy \subseteq SlotIds
      /\ \A s \in file[i].occupancy : RowAt(file[i], s) \in Rows
  BY <1>3, PageOf DEF IInv, StoredRows
<1> DEFINE new == WithRow(file[i], FirstFree(file[i]), r)
<1>5. /\ new \in Page /\ new.occupancy \subseteq SlotIds
      /\ \A k \in new.occupancy : RowAt(new, k) \in Rows
  BY <1>2, <1>3, <1>4, RowAdded
<1> HIDE DEF new
<1>6. file' = [file EXCEPT ![i] = new]
  BY <1>1 DEF new
<1>7. file' \in [0 .. MaxPages - 1 -> Page] /\ file'[i] = new
  BY <1>2, <1>4, <1>5, <1>6
<1>8. \A j \in 0 .. MaxPages - 1 : j # i => file'[j] = file[j]
  BY <1>2, <1>6
<1>9. \A j \in PageIds : /\ file'[j].occupancy \subseteq SlotIds
                         /\ \A s \in file'[j].occupancy : RowAt(file'[j], s) \in Rows
  <2> TAKE j \in PageIds
  <2>1. CASE j = i
    BY <2>1, <1>5, <1>7
  <2>2. CASE j # i
    <3>1. file'[j] = file[j]
      BY <2>2, <1>2, <1>8 DEF PageIds
    <3> QED BY <3>1, PageOf DEF IInv, StoredRows
  <2> QED BY <2>1, <2>2
<1>10. \A j \in 0 .. MaxPages - 1 : j >= pages' => file'[j] = file[j]
  BY <1>1, <1>2, <1>3, <1>8 DEF PageIds
<1>11. pages' \in pages .. MaxPages /\ pages' = pages /\ columns' = columns
  BY <1>1, <1>2
<1> QED BY <1>7, <1>9, <1>10, <1>11, PagesReplaced DEF PageIds

LEMMA PageAdded ==
  ASSUME IInv, columns' = columns, pages < MaxPages, pages' = pages + 1,
         NEW new \in Page, file' = [file EXCEPT ![pages] = new],
         new.occupancy \subseteq SlotIds,
         \A s \in new.occupancy : RowAt(new, s) \in Rows
  PROVE  IInv'
<1>1. pages \in 0 .. MaxPages /\ MaxPages \in Nat /\ file \in [0 .. MaxPages - 1 -> Page]
  BY PageShape DEF IInv, TypeOK
<1>2. pages \in 0 .. MaxPages - 1 /\ pages' \in pages .. MaxPages
  BY <1>1
<1>3. file' \in [0 .. MaxPages - 1 -> Page] /\ file'[pages] = new
  BY <1>1, <1>2
<1>4. \A j \in 0 .. MaxPages - 1 : j # pages => file'[j] = file[j]
  BY <1>1
<1>5. \A j \in 0 .. MaxPages - 1 : j >= pages' => file'[j] = file[j]
  BY <1>1, <1>4
<1>6. \A j \in 0 .. pages' - 1 : /\ file'[j].occupancy \subseteq SlotIds
                                 /\ \A s \in file'[j].occupancy : RowAt(file'[j], s) \in Rows
  <2> TAKE j \in 0 .. pages' - 1
  <2>1. CASE j = pages
    BY <2>1, <1>3
  <2>2. CASE j # pages
    <3>1. j \in PageIds /\ j \in 0 .. MaxPages - 1
      BY <2>2, <1>1 DEF PageIds
    <3>2. file'[j] = file[j]
      BY <2>2, <3>1, <1>4
    <3> QED BY <3>1, <3>2, PageOf DEF IInv, StoredRows
  <2> QED BY <2>1, <2>2
<1> QED BY <1>2, <1>3, <1>5, <1>6, PagesReplaced

LEMMA NewPageKeeps ==
  ASSUME IInv, NEW r, \/ r \in Rows /\ InsertInNew(r)
                      \/ InsertTooWide(r)
                      \/ InsertTooLong(r)
  PROVE  IInv'
<1>1. columns \in Layouts
  BY DEF IInv, TypeOK
<1>2. NullPage \in Page /\ NullPage.occupancy = {}
  BY NullPageIsEmpty
<1> HIDE DEF NullPage
<1>3. CASE r \in Rows /\ InsertInNew(r)
  <2> DEFINE new == WithRow(NullPage, FirstFree(NullPage), r)
  <2>1. /\ new \in Page /\ new.occupancy \subseteq SlotIds
        /\ \A k \in new.occupancy : RowAt(new, k) \in Rows
    BY <1>1, <1>2, <1>3, RowAdded DEF InsertInNew
  <2>2. /\ columns' = columns /\ pages < MaxPages /\ pages' = pages + 1
        /\ file' = [file EXCEPT ![pages] = new]
    BY <1>3 DEF InsertInNew
  <2> HIDE DEF new
  <2> QED BY <2>1, <2>2, PageAdded
<1>4. ASSUME columns' = columns, pages < MaxPages, pages' = pages + 1,
             file' = [file EXCEPT ![pages] = NullPage]
      PROVE  IInv'
  BY <1>2, <1>4, PageAdded
<1>5. CASE InsertTooWide(r)
  BY <1>4, <1>5 DEF InsertTooWide
<1>6. CASE InsertTooLong(r)
  <2>1. CASE Roomy = {}
    BY <2>1, <1>4, <1>6 DEF InsertTooLong
  <2>2. CASE Roomy # {}
    <3>1. UNCHANGED <<columns, pages, file>>
      BY <2>2, <1>6 DEF InsertTooLong
    <3>2. /\ pages \in 0 .. MaxPages /\ MaxPages \in Nat /\ file \in [0 .. MaxPages - 1 -> Page]
      BY PageShape DEF IInv, TypeOK
    <3> QED BY <3>1, <3>2, PagesReplaced DEF IInv, OccupiedExist, StoredRows, PageIds
  <2> QED BY <2>1, <2>2
<1> QED BY <1>3, <1>5, <1>6

(* remove takes bits away and leaves the bytes. *)
LEMMA Cleared ==
  ASSUME IInv, NEW c, NEW V, Remove(c, V), NEW i \in 0 .. MaxPages - 1
  PROVE  /\ file'[i] \in Page
         /\ file'[i].occupancy = {s \in file[i].occupancy : <<i, s>> \notin Found(c, V)}
         /\ file'[i].data = file[i].data
<1>1. file \in [0 .. MaxPages - 1 -> Page]
  BY DEF IInv, TypeOK
<1> DEFINE left == {s \in file[i].occupancy : <<i, s>> \notin Found(c, V)}
<1>2. file'[i] = [file[i] EXCEPT !.occupancy = left]
  BY <1>1 DEF Remove
<1> QED BY <1>1, <1>2 DEF Page

(* RowAt reads the data area only. *)
LEMMA RowOfData ==
  ASSUME NEW p, NEW q, NEW s, p.data = q.data
  PROVE  RowAt(p, s) = RowAt(q, s)
BY DEF RowAt, BytesAt

LEMMA RemoveKeeps ==
  ASSUME IInv, NEW c, NEW V, Remove(c, V)
  PROVE  IInv'
<1>1. /\ pages \in 0 .. MaxPages /\ MaxPages \in Nat /\ file \in [0 .. MaxPages - 1 -> Page]
      /\ \A i \in 0 .. MaxPages - 1 : i >= pages => file[i] = NullPage
  BY PageShape DEF IInv, TypeOK
<1>2. UNCHANGED <<columns, pages>> /\ DOMAIN file' = 0 .. MaxPages - 1
  BY <1>1 DEF Remove
<1>3. file' \in [0 .. MaxPages - 1 -> Page]
  <2>1. file' = [i \in 0 .. MaxPages - 1 |-> file'[i]]
    BY <1>1 DEF Remove
  <2> QED BY <2>1, Cleared
<1>4. ASSUME NEW i \in 0 .. MaxPages - 1, i >= pages'
      PROVE  file'[i] = file[i]
  <2>1. file[i].occupancy = {} /\ file[i] \in Page
    BY <1>1, <1>2, <1>4, NullPageIsEmpty
  <2>2. file'[i].occupancy = {} /\ file'[i].data = file[i].data /\ file'[i] \in Page
    BY <2>1, Cleared
  <2>3. \A p \in Page : p = [occupancy |-> p.occupancy, data |-> p.data]
    BY DEF Page
  <2> HIDE DEF Page
  <2>4. file[i] = [occupancy |-> file[i].occupancy, data |-> file[i].data]
    BY <2>1, <2>3
  <2>5. file'[i] = [occupancy |-> file'[i].occupancy, data |-> file'[i].data]
    BY <2>2, <2>3
  <2> QED BY <2>1, <2>2, <2>4, <2>5
<1>5. \A i \in PageIds : /\ file'[i].occupancy \subseteq SlotIds
                         /\ \A s \in file'[i].occupancy : RowAt(file'[i], s) \in Rows
  <2> TAKE i \in PageIds
  <2>1. i \in 0 .. MaxPages - 1
    BY <1>1 DEF PageIds
  <2>2. file'[i].occupancy \subseteq file[i].occupancy /\ file'[i].data = file[i].data
    BY <2>1, Cleared
  <2>3. \A s : RowAt(file'[i], s) = RowAt(file[i], s)
    BY <2>2, RowOfData
  <2> QED BY <2>2, <2>3, PageOf DEF IInv, StoredRows
<1> QED BY <1>1, <1>2, <1>3, <1>4, <1>5, PagesReplaced DEF PageIds

LEMMA InvInit == ASSUME Init PROVE IInv
<1>1. columns \in Layouts /\ pages = 0 /\ MaxPages \in Nat /\ file = [i \in 0 .. MaxPages - 1 |-> NullPage]
  BY PageShape DEF Init
<1>2. NullPage \in Page
  BY NullPageIsEmpty
<1> HIDE DEF NullPage
<1>3. TypeOK
  BY <1>1, <1>2 DEF TypeOK
<1>4. PageIds = {}
  BY <1>1 DEF PageIds
<1> QED BY <1>3, <1>4 DEF IInv, OccupiedExist, StoredRows

LEMMA InvNext == ASSUME IInv, [Next]_vars PROVE IInv'
<1>1. CASE UNCHANGED vars
  <2>1. /\ pages \in 0 .. MaxPages /\ MaxPages \in Nat /\ file \in [0 .. MaxPages - 1 -> Page]
    BY PageShape DEF IInv, TypeOK
  <2> QED BY <1>1, <2>1, PagesReplaced DEF vars, IInv, OccupiedExist, StoredRows, PageIds
<1>2. ASSUME NEW r \in Rows, Insert(r) PROVE IInv'
  BY <1>2, InsertKeeps
<1>3. ASSUME NEW r \in Rows, InsertInNew(r) \/ InsertTooWide(r) PROVE IInv'
  BY <1>3, NewPageKeeps
<1>4. ASSUME NEW r \in LongRows, InsertTooLong(r) PROVE IInv'
  BY <1>4, NewPageKeeps
<1>5. ASSUME NEW c \in DOMAIN columns, NEW V \in Tests(columns[c]), Remove(c, V) PROVE IInv'
  BY <1>5, RemoveKeeps
<1>6. ASSUME NEW c \in DOMAIN columns, NEW V \in Tests(columns[c]), Select(c, V) PROVE IInv'
  <2>1. /\ pages \in 0 .. MaxPages /\ MaxPages \in Nat /\ file \in [0 .. MaxPages - 1 -> Page]
    BY PageShape DEF IInv, TypeOK
  <2>2. UNCHANGED <<columns, pages, file>>
    BY <1>6 DEF Select
  <2> QED BY <2>1, <2>2, PagesReplaced DEF IInv, OccupiedExist, StoredRows, PageIds
<1> QED BY <1>1, <1>2, <1>3, <1>4, <1>5, <1>6, Zenon DEF Next

LEMMA InvHolds == Spec => []IInv
BY InvInit, InvNext, PTL DEF Spec

(* Occupancy bits exist, pages keep their shape, pages past the count were *)
(* never written.                                                          *)
THEOREM TypeCorrect == Spec => []TypeOK
<1>1. IInv => TypeOK
  BY DEF IInv
<1> QED BY <1>1, InvHolds, PTL

(* Every row lies within its page: the bounds checks of select and remove  *)
(* skip no row and no write reaches another row, for every layout, page    *)
(* size and number of occupancy bits.                                      *)
THEOREM RowsFit == Spec => []RowsFitInPages
<1>1. ASSUME IInv PROVE RowsFitInPages
  <2> SUFFICES ASSUME NEW i \in PageIds, NEW s \in file[i].occupancy
               PROVE  s < MaxRows /\ s * RowSize + RowSize <= SLOT_SPACE
    BY DEF RowsFitInPages
  <2>1. columns \in Layouts /\ s \in SlotIds
    BY <1>1, PageOf DEF IInv, TypeOK
  <2>2. MaxRows \in Nat /\ s * RowSize + RowSize <= SLOT_SPACE
    BY <2>1, SlotsFit
  <2>3. s < MaxRows
    BY <2>1, <2>2 DEF SlotIds
  <2> QED BY <2>2, <2>3
<1> QED BY <1>1, InvHolds, PTL

(***************************************************************************)
(* The pages implement PageSlots.                                          *)
(***************************************************************************)
LEMMA EmptyIsNotHeld ==
  ASSUME columns \in Layouts
  PROVE  Empty \notin Rows /\ Rows \subseteq AllRows
BY EmptyIsNoRow DEF Rows, WritableRows, AllRows

LEMMA SlotsRead ==
  ASSUME IInv
  PROVE  /\ Len(SlotArrays) = pages /\ DOMAIN SlotArrays = 1 .. pages
         /\ Slots!Locations = PageIds \X SlotIds
         /\ \A i \in PageIds, s \in SlotIds :
              /\ Slots!Held(<<i, s>>) = SlotsOf(file[i])[s]
              /\ <<i, s>> \in Slots!Free <=> s \notin file[i].occupancy
<1>1. columns \in Layouts /\ pages \in Nat /\ MaxRows \in Nat
  BY SlotsFit, PageShape DEF IInv, TypeOK
<1>2. Len(SlotArrays) = pages /\ DOMAIN SlotArrays = 1 .. pages
  BY <1>1 DEF SlotArrays
<1>3. Slots!Locations = PageIds \X SlotIds
  BY <1>2 DEF Slots!Locations, PageIds, SlotIds
<1>4. ASSUME NEW i \in PageIds, NEW s \in SlotIds
      PROVE  /\ Slots!Held(<<i, s>>) = SlotsOf(file[i])[s]
             /\ <<i, s>> \in Slots!Free <=> s \notin file[i].occupancy
  <2>1. i + 1 \in 1 .. pages /\ (i + 1) - 1 = i
    BY <1>1 DEF PageIds
  <2>2. SlotArrays[i + 1] = SlotsOf(file[i])
    <3>1. SlotArrays[i + 1] = SlotsOf(file[(i + 1) - 1])
      BY <2>1, Zenon DEF SlotArrays
    <3> QED BY <2>1, <3>1
  <2>3. Slots!Held(<<i, s>>) = SlotsOf(file[i])[s]
    BY <2>2 DEF Slots!Held
  <2>4. SlotsOf(file[i])[s] = IF s \in file[i].occupancy THEN RowAt(file[i], s) ELSE Empty
    BY Zenon DEF SlotsOf
  <2>5. s \in file[i].occupancy => RowAt(file[i], s) # Empty
    BY <1>1, EmptyIsNotHeld DEF IInv, StoredRows
  <2>6. <<i, s>> \in Slots!Free <=> Slots!Held(<<i, s>>) = Empty
    BY <1>3 DEF Slots!Free
  <2> QED BY <2>3, <2>4, <2>5, <2>6
<1> QED BY <1>2, <1>3, <1>4

LEMMA RoomyHaveFree ==
  ASSUME IInv, NEW i \in PageIds
  PROVE  HasRoom(file[i]) <=> \E s \in SlotIds : <<i, s>> \in Slots!Free
<1>1. columns \in Layouts /\ file[i] \in Page /\ file[i].occupancy \subseteq SlotIds
  BY PageOf DEF IInv, TypeOK
<1>2. ASSUME HasRoom(file[i]) PROVE \E s \in SlotIds : <<i, s>> \in Slots!Free
  BY <1>1, <1>2, FirstFreeOf, SlotsRead
<1>3. ASSUME ~HasRoom(file[i]) PROVE ~ \E s \in SlotIds : <<i, s>> \in Slots!Free
  <2>1. file[i].occupancy = SlotIds
    BY <1>1, <1>3, FullPage
  <2> QED BY <2>1, SlotsRead
<1> QED BY <1>2, <1>3

LEMMA FreeIffRoomy ==
  ASSUME IInv
  PROVE  Slots!Free = {} <=> Roomy = {}
<1>1. \A l \in Slots!Free : \E i \in PageIds, s \in SlotIds : l = <<i, s>>
  BY SlotsRead DEF Slots!Free
<1> QED BY <1>1, RoomyHaveFree DEF Roomy

(* The slots after a step. *)
LEMMA SlotsAfter ==
  ASSUME columns' = columns
  PROVE  /\ MaxRows' = MaxRows
         /\ SlotArrays' = [n \in 1 .. pages' |-> SlotsOf(file'[n - 1])]
<1>1. MaxRows' = MaxRows /\ SlotIds' = SlotIds /\ \A i, s : RowAt(file[i], s)' = RowAt(file'[i], s)
  BY ColumnsFixed
<1>2. \A i : SlotsOf(file[i])' = SlotsOf(file'[i])
  BY <1>1 DEF SlotsOf
<1>3. SlotArrays' = [n \in 1 .. pages' |-> SlotsOf(file'[n - 1])]
  BY <1>2 DEF SlotArrays
<1> QED BY <1>1, <1>3

LEMMA SlotsInitially == ASSUME Init PROVE Slots!SlotsInit
<1>1. columns \in Layouts /\ pages = 0 /\ reply = NoReply
  BY DEF Init
<1>2. MaxRows \in Nat
  BY <1>1, SlotsFit
<1>3. SlotArrays = <<>>
  BY <1>1 DEF SlotArrays
<1>4. ReplyUnpacked = Slots!NoReply
  BY <1>1 DEF ReplyUnpacked, NoReply, Slots!NoReply
<1> QED BY <1>2, <1>3, <1>4 DEF Slots!SlotsInit

LEMMA ReplyInserted ==
  ASSUME columns \in Layouts, NEW r, NEW i \in 0 .. MaxPages - 1, NEW s \in SlotIds,
         reply' = Inserted(r, i, s)
  PROVE  ReplyUnpacked' = Slots!Inserted(r, <<i, s>>)
<1>1. i \in Nat /\ s \in Nat /\ i < Stride /\ s < Stride
  BY SlotsFit, PageShape DEF SlotIds
<1>2. UnpackPage(Pack(i, s)) = i /\ UnpackSlot(Pack(i, s)) = s
  BY <1>1, LocatorsUnpack
<1>3. reply'.is = "inserted" /\ reply'.row = r /\ reply'.locator = Pack(i, s)
  BY DEF Inserted
<1>4. ReplyUnpacked' = [is |-> "inserted", row |-> r, at |-> <<i, s>>]
  BY <1>2, <1>3 DEF ReplyUnpacked
<1> QED BY <1>4 DEF Slots!Inserted

LEMMA ReplyOther ==
  ASSUME reply'.is # "inserted"
  PROVE  ReplyUnpacked' = reply'
BY DEF ReplyUnpacked

LEMMA InsertPuts ==
  ASSUME IInv, NEW r \in Rows, Insert(r)
  PROVE  Slots!PutInFree(r)
<1>1. PICK i \in Roomy : /\ \A j \in Roomy : i <= j
                         /\ file' = [file EXCEPT ![i] = WithRow(@, FirstFree(file[i]), r)]
                         /\ reply' = Inserted(r, i, FirstFree(file[i]))
                         /\ UNCHANGED <<columns, pages>>
  BY DEF Insert
<1>2. /\ columns \in Layouts /\ pages \in 0 .. MaxPages /\ MaxPages \in Nat
      /\ file \in [0 .. MaxPages - 1 -> Page]
  BY PageShape DEF IInv, TypeOK
<1>3. i \in PageIds /\ HasRoom(file[i]) /\ i \in 0 .. MaxPages - 1 /\ i \in Nat
  BY <1>2 DEF Roomy, PageIds
<1>4. /\ file[i] \in Page /\ file[i].occupancy \subseteq SlotIds
      /\ \A s \in file[i].occupancy : RowAt(file[i], s) \in Rows
  BY <1>3, PageOf DEF IInv, StoredRows
<1> DEFINE s   == FirstFree(file[i])
           new == WithRow(file[i], s, r)
<1>5. s \in SlotIds /\ s \notin file[i].occupancy /\ \A k \in SlotIds : k < s => k \in file[i].occupancy
  BY <1>2, <1>3, <1>4, FirstFreeOf
<1>6. /\ new.occupancy = file[i].occupancy \cup {s}
      /\ RowAt(new, s) = r
      /\ \A k \in file[i].occupancy : RowAt(new, k) = RowAt(file[i], k)
  BY <1>2, <1>3, <1>4, RowAdded
<1>7. file' = [file EXCEPT ![i] = new] /\ reply' = Inserted(r, i, s)
  BY <1>1
<1> HIDE DEF s, new
<1>8. ReplyUnpacked' = Slots!Inserted(r, <<i, s>>)
  BY <1>2, <1>3, <1>5, <1>7, ReplyInserted
<1>9. <<i, s>> \in Slots!Free
  BY <1>3, <1>5, SlotsRead
<1>10. Slots!IsFirst(<<i, s>>)
  <2> SUFFICES ASSUME NEW l \in Slots!Free
               PROVE  l = <<i, s>> \/ Slots!Before(<<i, s>>, l)
    BY DEF Slots!IsFirst
  <2>1. PICK j \in PageIds, t \in SlotIds : l = <<j, t>>
    BY SlotsRead DEF Slots!Free
  <2>2. t \notin file[j].occupancy /\ HasRoom(file[j])
    BY <2>1, SlotsRead, RoomyHaveFree
  <2>3. j \in Nat /\ t \in Nat /\ s \in Nat /\ i <= j
    BY <1>1, <1>2, <1>5, <2>2, SlotsFit DEF Roomy, PageIds, SlotIds
  <2>4. i < j \/ (i = j /\ s <= t)
    BY <1>3, <1>5, <2>2, <2>3
  <2> QED BY <1>3, <2>1, <2>3, <2>4 DEF Slots!Before
<1>11. SlotArrays' = [SlotArrays EXCEPT ![i + 1][s] = r]
  <2>1. SlotArrays' = [n \in 1 .. pages |-> SlotsOf(file'[n - 1])]
    BY <1>1, SlotsAfter
  <2>2. SlotsOf(new) = [SlotsOf(file[i]) EXCEPT ![s] = r]
    BY <1>5, <1>6 DEF SlotsOf
  <2>3. \A n \in 1 .. pages : SlotsOf(file'[n - 1]) = IF n = i + 1 THEN [SlotsOf(file[i]) EXCEPT ![s] = r]
                                                                   ELSE SlotsOf(file[n - 1])
    <3> TAKE n \in 1 .. pages
    <3>1. n - 1 \in 0 .. MaxPages - 1 /\ (n = i + 1 <=> n - 1 = i)
      BY <1>2, <1>3
    <3>2. file'[n - 1] = IF n = i + 1 THEN new ELSE file[n - 1]
      BY <3>1, <1>2, <1>7
    <3> QED BY <2>2, <3>2
  <2>4. i + 1 \in 1 .. pages /\ SlotArrays[i + 1] = SlotsOf(file[i])
    <3>1. i + 1 \in 1 .. pages /\ (i + 1) - 1 = i
      BY <1>2, <1>3 DEF PageIds
    <3>2. SlotArrays[i + 1] = SlotsOf(file[(i + 1) - 1])
      BY <3>1, Zenon DEF SlotArrays
    <3> QED BY <3>1, <3>2
  <2> HIDE DEF SlotsOf
  <2>5. SlotArrays = [n \in 1 .. pages |-> SlotsOf(file[n - 1])]
    BY DEF SlotArrays
  <2> QED BY <2>1, <2>3, <2>4, <2>5
<1>12. MaxRows' = MaxRows
  BY <1>1, SlotsAfter
<1>13. \E l \in Slots!Free : /\ ReplyUnpacked' = Slots!Inserted(r, l)
                             /\ Slots!IsFirst(l)
                             /\ SlotArrays' = [SlotArrays EXCEPT ![l[1] + 1][l[2]] = r]
                             /\ MaxRows' = MaxRows
  BY <1>8, <1>9, <1>10, <1>11, <1>12
<1> QED BY <1>13 DEF Slots!PutInFree

(* A page added at the end is an array of slots added at the end. *)
LEMMA SlotsAppended ==
  ASSUME IInv, columns' = columns, pages < MaxPages, pages' = pages + 1,
         NEW new \in Page, file' = [file EXCEPT ![pages] = new]
  PROVE  SlotArrays' = Append(SlotArrays, SlotsOf(new))
<1>1. /\ pages \in 0 .. MaxPages /\ MaxPages \in Nat /\ file \in [0 .. MaxPages - 1 -> Page]
  BY PageShape DEF IInv, TypeOK
<1>2. SlotArrays' = [n \in 1 .. pages + 1 |-> SlotsOf(file'[n - 1])]
  BY SlotsAfter
<1>3. SlotArrays = [n \in 1 .. pages |-> SlotsOf(file[n - 1])]
  BY DEF SlotArrays
<1> DEFINE Old(n) == SlotsOf(file[n - 1])
           New(n) == SlotsOf(file'[n - 1])
<1>4. \A n \in 1 .. pages + 1 : file'[n - 1] = IF n = pages + 1 THEN new ELSE file[n - 1]
  BY <1>1
<1>5. \A n \in 1 .. pages + 1 : New(n) = IF n = pages + 1 THEN SlotsOf(new) ELSE Old(n)
  <2> HIDE DEF SlotsOf
  <2> QED BY <1>4
<1>6. SlotArrays' = [n \in 1 .. pages + 1 |-> New(n)] /\ SlotArrays = [n \in 1 .. pages |-> Old(n)]
  BY <1>2, <1>3
<1> HIDE DEF Old, New
<1> DEFINE top == SlotsOf(new)
<1> HIDE DEF top
<1>7. Append(SlotArrays, top) = [n \in 1 .. pages + 1 |-> IF n = pages + 1 THEN top ELSE Old(n)]
  <2>1. Len(SlotArrays) = pages /\ pages \in Nat
    BY <1>1, SlotsRead
  <2>2. Append(SlotArrays, top) = [n \in 1 .. Len(SlotArrays) + 1 |->
                                     IF n <= Len(SlotArrays) THEN SlotArrays[n] ELSE top]
    BY <1>6, <2>1
  <2> QED BY <1>6, <2>1, <2>2
<1>8. \A n \in 1 .. pages + 1 : New(n) = IF n = pages + 1 THEN top ELSE Old(n)
  BY <1>5 DEF top
<1> QED BY <1>6, <1>7, <1>8 DEF top

LEMMA NullPageSlots == SlotsOf(NullPage) = Slots!FreePage
BY NullPageIsEmpty DEF SlotsOf, Slots!FreePage, SlotIds

LEMMA InsertAdds ==
  ASSUME IInv, NEW r \in Rows, InsertInNew(r)
  PROVE  Slots!PutInNew(r)
<1>1. /\ Roomy = {} /\ pages < MaxPages /\ HasRoom(NullPage) /\ pages' = pages + 1
      /\ file' = [file EXCEPT ![pages] = WithRow(NullPage, FirstFree(NullPage), r)]
      /\ reply' = Inserted(r, pages, FirstFree(NullPage))
      /\ columns' = columns
  BY DEF InsertInNew
<1>2. columns \in Layouts /\ pages \in 0 .. MaxPages /\ MaxPages \in Nat
  BY PageShape DEF IInv, TypeOK
<1>3. NullPage \in Page /\ NullPage.occupancy = {}
  BY NullPageIsEmpty
<1> DEFINE s   == FirstFree(NullPage)
           new == WithRow(NullPage, s, r)
<1>4. s = 0 /\ s \in SlotIds /\ MaxRows > 0
  <2>1. s \in SlotIds /\ \A k \in SlotIds : ~ (k < s)
    BY <1>1, <1>2, <1>3, FirstFreeOf
  <2> HIDE DEF s
  <2>2. MaxRows \in Nat
    BY <1>2, SlotsFit
  <2>3. 0 \in SlotIds /\ s \in Nat /\ MaxRows > 0
    BY <2>1, <2>2 DEF SlotIds
  <2> QED BY <2>1, <2>3
<1>5. new \in Page /\ new.occupancy = {s} /\ RowAt(new, s) = r
  BY <1>1, <1>2, <1>3, RowAdded
<1>6. file' = [file EXCEPT ![pages] = new] /\ reply' = Inserted(r, pages, s)
  BY <1>1
<1> HIDE DEF s, new
<1>7. SlotArrays' = Append(SlotArrays, SlotsOf(new)) /\ MaxRows' = MaxRows
  BY <1>1, <1>5, <1>6, SlotsAppended, SlotsAfter
<1>8. SlotsOf(new) = [Slots!FreePage EXCEPT ![0] = r]
  BY <1>4, <1>5 DEF SlotsOf, Slots!FreePage, SlotIds
<1>9. ReplyUnpacked' = Slots!Inserted(r, <<pages, s>>)
  <2>1. pages \in 0 .. MaxPages - 1
    BY <1>1, <1>2
  <2> QED BY <1>2, <1>4, <1>6, <2>1, ReplyInserted
<1>10. Len(SlotArrays) = pages /\ Slots!Free = {}
  BY <1>1, SlotsRead, FreeIffRoomy
<1> QED BY <1>4, <1>7, <1>8, <1>9, <1>10 DEF Slots!PutInNew

LEMMA WideRowsRefused ==
  ASSUME IInv, NEW r \in Rows, InsertTooWide(r)
  PROVE  Slots!Refuse(r)
<1>1. /\ Roomy = {} /\ pages < MaxPages /\ ~HasRoom(NullPage) /\ pages' = pages + 1
      /\ file' = [file EXCEPT ![pages] = NullPage] /\ reply' = Failed(r) /\ columns' = columns
  BY DEF InsertTooWide
<1>2. columns \in Layouts
  BY DEF IInv, TypeOK
<1>3. NullPage \in Page /\ NullPage.occupancy = {} /\ SlotsOf(NullPage) = Slots!FreePage
  BY NullPageIsEmpty, NullPageSlots
<1> HIDE DEF NullPage
<1>4. MaxRows = 0
  <2>1. MaxRows \in Nat
    BY <1>2, SlotsFit
  <2>2. ~ (0 < MaxRows)
    BY <1>1, <1>3, FS_EmptySet DEF HasRoom
  <2> QED BY <2>1, <2>2
<1>5. SlotArrays' = Append(SlotArrays, Slots!FreePage) /\ MaxRows' = MaxRows
  BY <1>1, <1>3, SlotsAppended, SlotsAfter
<1>6. Slots!Free = {}
  BY <1>1, FreeIffRoomy
<1>7. ReplyUnpacked' = Slots!Failed(r)
  BY <1>1, ReplyOther DEF Failed, Slots!Failed
<1> QED BY <1>4, <1>5, <1>6, <1>7 DEF Slots!Refuse

(* A row with a string that is too long can be written in no layout.       *)
LEMMA LongIsLong ==
  ASSUME columns \in Layouts, NEW r \in LongRows
  PROVE  r \in AllLong /\ r \notin AllRows
<1>1. r \in AnyRows(columns) /\ r \notin WritableRows(columns) /\ r \in AllLong
  BY DEF LongRows, Rows, AllLong
<1>2. PICK c \in DOMAIN columns : r[c] \notin Writable(columns[c])
  BY <1>1 DEF WritableRows
<1>3. DOMAIN r = DOMAIN columns /\ r[c] \in Value(columns[c])
  BY <1>1 DEF AnyRows
<1>4. columns[c] = VARCHAR_16 /\ ~ (Len(r[c]) <= Size[VARCHAR_16])
  BY <1>2, <1>3 DEF Writable
<1>5. ASSUME NEW types \in Layouts, r \in WritableRows(types)
      PROVE  FALSE
  <2>1. c \in DOMAIN types /\ r[c] \in Writable(types[c])
    BY <1>3, <1>5 DEF WritableRows, AnyRows
  <2>2. types[c] \in Type
    BY <2>1, Tables
  <2>3. CASE types[c] = VARCHAR_16
    BY <1>4, <2>1, <2>3 DEF Writable
  <2>4. CASE types[c] # VARCHAR_16
    <3>1. r[c] \in Number[types[c]]
      BY <2>1, <2>4 DEF Writable, Value
    <3>2. Len(r[c]) = Size[types[c]]
      BY <2>2, <2>4, <3>1, Numbers
    <3> QED BY <1>4, <2>2, <3>2, Widths
  <2> QED BY <2>3, <2>4
<1> QED BY <1>1, <1>5 DEF AllRows

LEMMA LongRowsRefused ==
  ASSUME IInv, NEW r \in LongRows, InsertTooLong(r)
  PROVE  Slots!Refuse(r)
<1>1. columns' = columns /\ reply' = Failed(r)
  BY DEF InsertTooLong
<1>2. r \notin AllRows
  BY LongIsLong DEF IInv, TypeOK
<1>3. ReplyUnpacked' = Slots!Failed(r) /\ MaxRows' = MaxRows
  BY <1>1, ReplyOther, SlotsAfter DEF Failed, Slots!Failed
<1>4. CASE Roomy = {}
  <2>1. pages < MaxPages /\ pages' = pages + 1 /\ file' = [file EXCEPT ![pages] = NullPage]
    BY <1>4 DEF InsertTooLong
  <2>2. SlotArrays' = Append(SlotArrays, Slots!FreePage)
    BY <1>1, <2>1, NullPageIsEmpty, NullPageSlots, SlotsAppended
  <2>3. Slots!Free = {}
    BY <1>4, FreeIffRoomy
  <2> QED BY <1>2, <1>3, <2>2, <2>3 DEF Slots!Refuse
<1>5. CASE Roomy # {}
  <2>1. UNCHANGED <<pages, file>>
    BY <1>5 DEF InsertTooLong
  <2>2. SlotArrays' = SlotArrays
    BY <1>1, <2>1, SlotsAfter DEF SlotArrays
  <2>3. Slots!Free # {}
    BY <1>5, FreeIffRoomy
  <2> QED BY <1>2, <1>3, <2>2, <2>3 DEF Slots!Refuse
<1> QED BY <1>4, <1>5

(* The clause a statement tests, and the rows it holds for. *)
Meant(c, V) == {r \in Rows : r[c] \in V}

LEMMA MeantIsClause ==
  ASSUME columns \in Layouts, NEW c \in DOMAIN columns, NEW V \in Tests(columns[c])
  PROVE  Meant(c, V) \in AllClauses
<1>1. Meant(c, V) = {r \in WritableRows(columns) : r[c] \in V}
  BY DEF Meant, Rows
<1> DEFINE Picked(types, d, W) == {r \in WritableRows(types) : r[d] \in W}
           Of(types, d)        == {Picked(types, d, W) : W \in Tests(types[d])}
           In(types)           == UNION {Of(types, d) : d \in DOMAIN types}
<1>2. AllClauses = UNION {In(types) : types \in Layouts}
  BY Zenon DEF AllClauses
<1>3. Meant(c, V) \in Of(columns, c)
  BY <1>1
<1> HIDE DEF Of
<1>4. Meant(c, V) \in In(columns)
  BY <1>3, Zenon
<1> HIDE DEF In
<1> QED BY <1>2, <1>4, Zenon

(* The scan finds the rows the clause holds for. *)
LEMMA ScanFinds ==
  ASSUME IInv, NEW c \in DOMAIN columns, NEW V \in Tests(columns[c])
  PROVE  /\ Slots!Holding(Meant(c, V)) = Found(c, V)
         /\ \A l \in Found(c, V) : Slots!Held(l) = RowAt(file[l[1]], l[2])
<1>1. columns \in Layouts /\ Empty \notin Rows
  BY EmptyIsNotHeld DEF IInv, TypeOK
<1>2. ASSUME NEW i \in PageIds, NEW s \in SlotIds
      PROVE  /\ <<i, s>> \in Slots!Holding(Meant(c, V)) <=> <<i, s>> \in Found(c, V)
             /\ s \in file[i].occupancy => Slots!Held(<<i, s>>) = RowAt(file[i], s)
  <2>1. Slots!Held(<<i, s>>) = IF s \in file[i].occupancy THEN RowAt(file[i], s) ELSE Empty
    BY SlotsRead, Zenon DEF SlotsOf
  <2>2. s * RowSize + RowSize <= SLOT_SPACE
    BY <1>1, SlotsFit
  <2>3. s \in file[i].occupancy => RowAt(file[i], s) \in Rows
    BY DEF IInv, StoredRows
  <2>4. <<i, s>> \in Slots!Holding(Meant(c, V)) <=> Slots!Held(<<i, s>>) \in Meant(c, V)
    BY SlotsRead DEF Slots!Holding
  <2>5. <<i, s>> \in Found(c, V) <=> s \in file[i].occupancy /\ RowAt(file[i], s)[c] \in V
    BY <2>2 DEF Found
  <2> QED BY <1>1, <2>1, <2>3, <2>4, <2>5 DEF Meant
<1>3. Slots!Holding(Meant(c, V)) \subseteq PageIds \X SlotIds
  BY SlotsRead DEF Slots!Holding
<1>4. Found(c, V) \subseteq PageIds \X SlotIds
  BY DEF Found
<1>5. \A l \in PageIds \X SlotIds : l \in Slots!Holding(Meant(c, V)) <=> l \in Found(c, V)
  BY <1>2
<1>6. ASSUME NEW l \in Found(c, V)
      PROVE  Slots!Held(l) = RowAt(file[l[1]], l[2])
  <2>1. PICK i \in PageIds, s \in SlotIds : l = <<i, s>> /\ s \in file[i].occupancy
    BY DEF Found
  <2> QED BY <1>2, <2>1
<1> QED BY <1>3, <1>4, <1>5, <1>6

LEMMA CardinalitySame == ASSUME NEW S PROVE Slots!Cardinality(S) = Cardinality(S)
BY Zenon DEF Slots!Cardinality, Cardinality

LEMMA RemoveEmpties ==
  ASSUME IInv, NEW c \in DOMAIN columns, NEW V \in Tests(columns[c]), Remove(c, V)
  PROVE  Slots!Remove(Meant(c, V))
<1> DEFINE R == Meant(c, V)
<1>1. columns' = columns /\ pages' = pages /\ reply' = Removed(Cardinality(Found(c, V)))
  BY DEF Remove
<1>2. /\ columns \in Layouts /\ pages \in 0 .. MaxPages /\ MaxPages \in Nat
  BY PageShape DEF IInv, TypeOK
<1>3. Slots!Holding(R) = Found(c, V)
  BY ScanFinds
<1>4. ReplyUnpacked' = Slots!Removed(Cardinality(Slots!Holding(R)))
  BY <1>1, <1>3, ReplyOther DEF Removed, Slots!Removed
<1>5. SlotArrays' = [n \in 1 .. pages |-> SlotsOf(file'[n - 1])] /\ MaxRows' = MaxRows
  BY <1>1, SlotsAfter
<1>6. ASSUME NEW n \in 1 .. pages
      PROVE  /\ SlotArrays[n] = SlotsOf(file[n - 1])
             /\ DOMAIN SlotArrays[n] = SlotIds
             /\ SlotsOf(file'[n - 1]) =
                  [s \in SlotIds |-> IF SlotArrays[n][s] \in R THEN Empty ELSE SlotArrays[n][s]]
  <2>1. n - 1 \in PageIds /\ n - 1 \in 0 .. MaxPages - 1
    BY <1>2 DEF PageIds
  <2>2. SlotArrays[n] = SlotsOf(file[n - 1])
    BY DEF SlotArrays
  <2>3. DOMAIN SlotArrays[n] = SlotIds
    BY <2>2 DEF SlotsOf
  <2> DEFINE i == n - 1
  <2>4. i \in PageIds /\ i \in 0 .. MaxPages - 1
    BY <2>1
  <2> HIDE DEF i
  <2>5. /\ file'[i].occupancy = {s \in file[i].occupancy : <<i, s>> \notin Found(c, V)}
        /\ file'[i].data = file[i].data
    BY <2>4, Cleared
  <2>6. \A s : RowAt(file'[i], s) = RowAt(file[i], s)
    BY <2>5, RowOfData
  <2>7. ASSUME NEW s \in SlotIds
        PROVE  SlotsOf(file'[i])[s] = IF SlotsOf(file[i])[s] \in R THEN Empty ELSE SlotsOf(file[i])[s]
    <3>1. \A p : SlotsOf(p)[s] = IF s \in p.occupancy THEN RowAt(p, s) ELSE Empty
      BY Zenon DEF SlotsOf
    <3>2. <<i, s>> \in Found(c, V) <=> SlotsOf(file[i])[s] \in R
      BY <2>4, <1>3, SlotsRead DEF Slots!Holding
    <3>3. <<i, s>> \in Found(c, V) => s \in file[i].occupancy
      BY DEF Found
    <3> HIDE DEF R
    <3>4. SlotsOf(file'[i])[s] = IF s \in file'[i].occupancy THEN RowAt(file'[i], s) ELSE Empty
      BY <3>1
    <3>5. SlotsOf(file[i])[s] = IF s \in file[i].occupancy THEN RowAt(file[i], s) ELSE Empty
      BY <3>1
    <3> QED BY <2>5, <2>6, <3>2, <3>3, <3>4, <3>5
  <2>8. SlotsOf(file'[i]) = [s \in SlotIds |-> SlotsOf(file'[i])[s]]
    BY DEF SlotsOf
  <2>9. SlotsOf(file'[i]) =
          [s \in SlotIds |-> IF SlotsOf(file[i])[s] \in R THEN Empty ELSE SlotsOf(file[i])[s]]
    <3> HIDE DEF R
    <3> QED BY <2>7, <2>8
  <2> QED BY <2>2, <2>3, <2>9 DEF i
<1> HIDE DEF R
<1>7. SlotArrays' = [p \in DOMAIN SlotArrays |->
                       [s \in DOMAIN SlotArrays[p] |->
                          IF SlotArrays[p][s] \in R THEN Empty ELSE SlotArrays[p][s]]]
  <2>1. DOMAIN SlotArrays = 1 .. pages
    BY SlotsRead
  <2> DEFINE Left(p) == [s \in SlotIds |-> IF SlotArrays[p][s] \in R THEN Empty ELSE SlotArrays[p][s]]
  <2>2. \A p \in 1 .. pages : SlotsOf(file'[p - 1]) = Left(p)
    BY <1>6
  <2>3. SlotArrays' = [p \in 1 .. pages |-> Left(p)]
    <3> HIDE DEF Left
    <3> QED BY <1>5, <2>2
  <2> DEFINE Kept(p) == [s \in DOMAIN SlotArrays[p] |->
                          IF SlotArrays[p][s] \in R THEN Empty ELSE SlotArrays[p][s]]
  <2>4. \A p \in 1 .. pages : Left(p) = Kept(p)
    BY <1>6
  <2>5. SlotArrays' = [p \in DOMAIN SlotArrays |-> Kept(p)]
    <3> HIDE DEF Left, Kept
    <3>1. [p \in 1 .. pages |-> Left(p)] = [p \in 1 .. pages |-> Kept(p)]
      BY <2>4
    <3> QED BY <2>1, <2>3, <3>1
  <2> QED BY <2>5
<1>8. Slots!Remove(R)
  BY CardinalitySame, <1>4, <1>5, <1>7 DEF Slots!Remove
<1> QED BY <1>8 DEF R

LEMMA SelectReads ==
  ASSUME IInv, NEW c \in DOMAIN columns, NEW V \in Tests(columns[c]), Select(c, V)
  PROVE  Slots!Select(Meant(c, V))
<1>1. /\ UNCHANGED <<columns, pages, file>>
      /\ reply' = Selected({<<l, RowAt(file[l[1]], l[2])>> : l \in Found(c, V)})
  BY DEF Select
<1>2. SlotArrays' = SlotArrays /\ MaxRows' = MaxRows
  BY <1>1, SlotsAfter DEF SlotArrays
<1>3. ReplyUnpacked' = reply'
  BY <1>1, ReplyOther DEF Selected
<1>4. {<<l, RowAt(file[l[1]], l[2])>> : l \in Found(c, V)} =
        {<<l, Slots!Held(l)>> : l \in Slots!Holding(Meant(c, V))}
  BY ScanFinds
<1> QED BY <1>1, <1>2, <1>3, <1>4 DEF Selected, Slots!Selected, Slots!Select

LEMMA StepsMatch ==
  ASSUME IInv, [Next]_vars
  PROVE  [Slots!SlotsNext]_Slots!slotVars
<1>1. columns \in Layouts
  BY DEF IInv, TypeOK
<1>2. CASE UNCHANGED vars
  <2>1. UNCHANGED <<columns, pages, file, reply>>
    BY <1>2 DEF vars
  <2>2. SlotArrays' = SlotArrays /\ MaxRows' = MaxRows
    BY <2>1, SlotsAfter DEF SlotArrays
  <2>3. ReplyUnpacked' = ReplyUnpacked
    BY <2>1 DEF ReplyUnpacked
  <2> QED BY <2>2, <2>3 DEF Slots!slotVars
<1>3. \A r \in Rows : r \in AllRows
  BY <1>1, EmptyIsNotHeld
<1>4. ASSUME NEW r \in Rows, Insert(r) PROVE Slots!SlotsNext
  BY <1>3, <1>4, InsertPuts DEF Slots!SlotsNext
<1>5. ASSUME NEW r \in Rows, InsertInNew(r) PROVE Slots!SlotsNext
  BY <1>3, <1>5, InsertAdds DEF Slots!SlotsNext
<1>6. ASSUME NEW r \in Rows, InsertTooWide(r) PROVE Slots!SlotsNext
  BY <1>3, <1>6, WideRowsRefused DEF Slots!SlotsNext
<1>7. ASSUME NEW r \in LongRows, InsertTooLong(r) PROVE Slots!SlotsNext
  BY <1>1, <1>7, LongIsLong, LongRowsRefused DEF Slots!SlotsNext
<1>8. ASSUME NEW c \in DOMAIN columns, NEW V \in Tests(columns[c]), Remove(c, V)
      PROVE  Slots!SlotsNext
  BY <1>1, <1>8, MeantIsClause, RemoveEmpties DEF Slots!SlotsNext
<1>9. ASSUME NEW c \in DOMAIN columns, NEW V \in Tests(columns[c]), Select(c, V)
      PROVE  Slots!SlotsNext
  BY <1>1, <1>9, MeantIsClause, SelectReads DEF Slots!SlotsNext
<1> QED BY <1>2, <1>4, <1>5, <1>6, <1>7, <1>8, <1>9, Zenon DEF Next

(* Bytes as they are, a table is an array of slots: a row is read back as  *)
(* it was inserted, whatever its slot held before, no statement disturbs   *)
(* another row, and the locator handed to the index leads to the row.      *)
THEOREM SlotsImplemented == Spec => ImplementsSlots
<1>1. Init => Slots!SlotsInit
  BY SlotsInitially
<1>2. IInv /\ [Next]_vars => [Slots!SlotsNext]_Slots!slotVars
  BY StepsMatch
<1> QED BY <1>1, <1>2, InvHolds, PTL DEF Spec, ImplementsSlots, Slots!SlotsSpec
=============================================================================
