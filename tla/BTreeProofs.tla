----------------------------- MODULE BTreeProofs -----------------------------
(***************************************************************************)
(* Theorems about BTree for every node size, set of keys and number of     *)
(* node files, with the process killed, and its metadata file absent at a  *)
(* start, at any time.                                                     *)
(***************************************************************************)
EXTENDS BTreeProps, SequenceTheorems, FiniteSetTheorems, TLAPS

(* Every nonempty set of naturals has a least element: Min is not an       *)
(* arbitrary value.  The sets {y \in A : y < x} are finite, so that one of *)
(* them includes no other.                                                 *)
LEMMA MinExists ==
  ASSUME NEW A \in SUBSET Nat, A # {}
  PROVE  Min(A) \in A /\ \A y \in A : Min(A) <= y
<1> DEFINE Below(x) == {y \in A : y < x}
           T == {Below(x) : x \in A}
<1>1. \A x \in A : IsFiniteSet(Below(x))
  <2> SUFFICES ASSUME NEW x \in A PROVE IsFiniteSet(Below(x))
    OBVIOUS
  <2> QED BY FS_BoundedSetOfNaturals
<1>2. T \subseteq FiniteSubsetsOf(A) /\ T # {}
  BY <1>1 DEF FiniteSubsetsOf
<1>3. PICK B \in T : \A C \in T : <<C, B>> \notin StrictSubsetOrdering(A)
  BY <1>2, WFMin, FS_StrictSubsetOrderingWellFounded
<1>4. PICK x \in A : B = Below(x)
  OBVIOUS
<1>5. \A y \in A : x <= y
  <2> SUFFICES ASSUME NEW y \in A, y < x PROVE FALSE
    OBVIOUS
  <2>1. Below(y) \subseteq Below(x)
    <3> SUFFICES ASSUME NEW z \in A, z < y PROVE z < x
      OBVIOUS
    <3> QED OBVIOUS
  <2>2. Below(y) # Below(x)
    <3>1. y \in Below(x) /\ y \notin Below(y)
      OBVIOUS
    <3> QED BY <3>1
  <2>3. Below(y) \in T /\ Below(y) \in SUBSET A /\ B \in SUBSET A
    BY <1>4
  <2> HIDE DEF Below, T
  <2>4. <<Below(y), B>> \in StrictSubsetOrdering(A)
    BY <1>4, <2>1, <2>2, <2>3 DEF StrictSubsetOrdering
  <2> QED BY <1>3, <2>3, <2>4
<1> QED BY <1>5 DEF Min

LEMMA MaxExists ==
  ASSUME NEW N \in Nat, NEW A \in SUBSET (0 .. N), A # {}
  PROVE  Max(A) \in A /\ \A y \in A : y <= Max(A)
<1> DEFINE B == {N - y : y \in A}
<1>1. B \in SUBSET Nat /\ B # {}
  <2>1. \A y \in A : N - y \in Nat
    OBVIOUS
  <2> QED BY <2>1
<1>2. PICK x \in A : Min(B) = N - x
  BY <1>1, MinExists
<1>3. \A y \in A : y <= x
  <2> SUFFICES ASSUME NEW y \in A PROVE y <= x
    OBVIOUS
  <2>1. N - y \in B
    OBVIOUS
  <2>2. Min(B) <= N - y
    BY <1>1, <2>1, MinExists
  <2> QED BY <1>2, <2>2
<1> QED BY <1>3 DEF Max
----------------------------------------------------------------------------
(* The positions that the loops of b_tree.cpp stop at exist.               *)
LEMMA ChildIndexStops ==
  ASSUME NEW n, n.keys \in Seq(Key), NEW k \in Key
  PROVE  /\ ChildIndex(n, k) \in 1 .. Len(n.keys) + 1
         /\ \A j \in 1 .. ChildIndex(n, k) - 1 : n.keys[j] <= k
         /\ ChildIndex(n, k) <= Len(n.keys) => k < n.keys[ChildIndex(n, k)]
<1> DEFINE len == Len(n.keys)
           A == {i \in 1 .. len + 1 : i <= len => k < n.keys[i]}
<1>1. len \in Nat /\ \A j \in 1 .. len : n.keys[j] \in Nat /\ k \in Nat
  BY LenProperties, KeysAreNumbers
<1>2. A \in SUBSET Nat /\ len + 1 \in A
  BY <1>1
<1>3. Min(A) \in A /\ \A i \in A : Min(A) <= i
  BY <1>2, MinExists
<1>4. \A j \in 1 .. Min(A) - 1 : n.keys[j] <= k
  <2> SUFFICES ASSUME NEW j \in 1 .. Min(A) - 1 PROVE n.keys[j] <= k
    OBVIOUS
  <2>1. j \in 1 .. len /\ j < Min(A)
    BY <1>1, <1>3
  <2>2. j \notin A
    BY <1>3, <2>1
  <2>3. n.keys[j] \in Nat
    BY <1>1, <2>1
  <2> QED BY <1>1, <2>1, <2>2, <2>3
<1>5. \E i \in 1 .. Len(n.keys) + 1 :
        /\ \A j \in 1 .. i - 1 : n.keys[j] <= k
        /\ i <= Len(n.keys) => k < n.keys[i]
  BY <1>3, <1>4
<1> QED BY <1>5 DEF ChildIndex

LEMMA LeafIndexStops ==
  ASSUME NEW n, n.keys \in Seq(Key), NEW k \in Key
  PROVE  /\ LeafIndex(n, k) \in 1 .. Len(n.keys) + 1
         /\ \A j \in 1 .. LeafIndex(n, k) - 1 : n.keys[j] < k
         /\ LeafIndex(n, k) <= Len(n.keys) => k <= n.keys[LeafIndex(n, k)]
<1> DEFINE len == Len(n.keys)
           A == {i \in 1 .. len + 1 : i <= len => k <= n.keys[i]}
<1>1. len \in Nat /\ \A j \in 1 .. len : n.keys[j] \in Nat /\ k \in Nat
  BY LenProperties, KeysAreNumbers
<1>2. A \in SUBSET Nat /\ len + 1 \in A
  BY <1>1
<1>3. Min(A) \in A /\ \A i \in A : Min(A) <= i
  BY <1>2, MinExists
<1>4. \A j \in 1 .. Min(A) - 1 : n.keys[j] < k
  <2> SUFFICES ASSUME NEW j \in 1 .. Min(A) - 1 PROVE n.keys[j] < k
    OBVIOUS
  <2>1. j \in 1 .. len /\ j < Min(A)
    BY <1>1, <1>3
  <2>2. j \notin A
    BY <1>3, <2>1
  <2>3. n.keys[j] \in Nat
    BY <1>1, <2>1
  <2> QED BY <1>1, <2>1, <2>2, <2>3
<1>5. \E i \in 1 .. Len(n.keys) + 1 :
        /\ \A j \in 1 .. i - 1 : n.keys[j] < k
        /\ i <= Len(n.keys) => k <= n.keys[i]
  BY <1>3, <1>4
<1> QED BY <1>5 DEF LeafIndex

LEMMA InsertIndexStops ==
  ASSUME NEW n, n.keys \in Seq(Key), NEW k \in Key
  PROVE  /\ InsertIndex(n, k) \in 1 .. Len(n.keys) + 1
         /\ \A j \in InsertIndex(n, k) .. Len(n.keys) : n.keys[j] > k
         /\ InsertIndex(n, k) > 1 => n.keys[InsertIndex(n, k) - 1] <= k
<1> DEFINE len == Len(n.keys)
           A == {i \in 1 .. len + 1 : \A j \in i .. len : n.keys[j] > k}
<1>1. len \in Nat /\ \A j \in 1 .. len : n.keys[j] \in Nat /\ k \in Nat
  BY LenProperties, KeysAreNumbers
<1>2. A \in SUBSET Nat /\ len + 1 \in A
  BY <1>1
<1>3. Min(A) \in A /\ \A i \in A : Min(A) <= i
  BY <1>2, MinExists
<1>4. ASSUME Min(A) > 1 PROVE n.keys[Min(A) - 1] <= k
  <2>1. Min(A) - 1 \in 1 .. len + 1 /\ Min(A) - 1 \notin A
    BY <1>1, <1>3, <1>4
  <2>2. PICK j \in Min(A) - 1 .. len : ~(n.keys[j] > k)
    BY <2>1
  <2>3. j = Min(A) - 1
    BY <1>1, <1>3, <2>2
  <2>4. j \in 1 .. len
    BY <1>1, <1>3, <1>4, <2>3
  <2>5. n.keys[j] \in Nat /\ k \in Nat
    BY <1>1, <2>4
  <2> QED BY <2>2, <2>3, <2>5
<1>5. \E i \in 1 .. Len(n.keys) + 1 :
        /\ \A j \in i .. Len(n.keys) : n.keys[j] > k
        /\ i > 1 => n.keys[i - 1] <= k
  BY <1>3, <1>4
<1> QED BY <1>5 DEF InsertIndex
----------------------------------------------------------------------------
LEMMA InsertAtSeq ==
  ASSUME NEW S, NEW s \in Seq(S), NEW e \in S, NEW i \in 1 .. Len(s) + 1
  PROVE  InsertAt(s, i, e) \in Seq(S) /\ Len(InsertAt(s, i, e)) = Len(s) + 1
<1> DEFINE a == SubSeq(s, 1, i - 1)
           b == SubSeq(s, i, Len(s))
<1>1. Len(s) \in Nat /\ \A j \in 1 .. Len(s) : s[j] \in S
  BY LenProperties
<1>2. a \in Seq(S) /\ Len(a) = i - 1
  BY <1>1, SubSeqProperties
<1>3. b \in Seq(S) /\ Len(b) = Len(s) - i + 1
  BY <1>1, SubSeqProperties
<1>4. <<e>> \in Seq(S) /\ Len(<<e>>) = 1
  OBVIOUS
<1> HIDE DEF a, b
<1> DEFINE c == a \o <<e>>
<1>5. c \in Seq(S) /\ Len(c) = i
  BY <1>2, <1>4, ConcatProperties
<1> HIDE DEF c
<1>6. c \o b \in Seq(S) /\ Len(c \o b) = Len(c) + Len(b)
  BY <1>3, <1>5, ConcatProperties
<1>7. Len(c \o b) = Len(s) + 1
  BY <1>1, <1>3, <1>5, <1>6
<1> QED BY <1>6, <1>7 DEF InsertAt, a, b, c

LEMMA RemoveAtSeq ==
  ASSUME NEW S, NEW s \in Seq(S), NEW i \in 1 .. Len(s)
  PROVE  RemoveAt(s, i) \in Seq(S) /\ Len(RemoveAt(s, i)) = Len(s) - 1
<1> DEFINE a == SubSeq(s, 1, i - 1)
           b == SubSeq(s, i + 1, Len(s))
<1>1. Len(s) \in Nat /\ \A j \in 1 .. Len(s) : s[j] \in S
  BY LenProperties
<1>2. a \in Seq(S) /\ Len(a) = i - 1
  BY <1>1, SubSeqProperties
<1>3. b \in Seq(S) /\ Len(b) = Len(s) - i
  BY <1>1, SubSeqProperties
<1> HIDE DEF a, b
<1>4. a \o b \in Seq(S) /\ Len(a \o b) = Len(a) + Len(b)
  BY <1>2, <1>3, ConcatProperties
<1>5. Len(a \o b) = Len(s) - 1
  BY <1>1, <1>2, <1>3, <1>4
<1> QED BY <1>4, <1>5 DEF RemoveAt, a, b

LEMMA SubSeqType ==
  ASSUME NEW S, NEW s \in Seq(S), NEW i \in Nat \ {0}, NEW j \in Nat, j <= Len(s)
  PROVE  /\ SubSeq(s, i, j) \in Seq(S)
         /\ Len(SubSeq(s, i, j)) = IF i <= j THEN j - i + 1 ELSE 0
<1>1. Len(s) \in Nat /\ \A m \in i .. j : s[m] \in S
  BY LenProperties
<1> QED BY <1>1, SubSeqProperties
----------------------------------------------------------------------------
(* The parts of a node have the types of Leaf and Inner. *)
LEMMA LeafParts ==
  ASSUME NEW n \in Node, n.leaf
  PROVE  /\ n.keys \in Seq(Key) /\ n.kids \in Seq(Value) /\ n.link \in Ids
         /\ Len(n.keys) \in Nat /\ Len(n.kids) = Len(n.keys)
<1>1. n \in Leaf
  BY DEF Node, Inner
<1> QED BY <1>1, LenProperties DEF Leaf

LEMMA InnerParts ==
  ASSUME NEW n \in Node, ~n.leaf
  PROVE  /\ n.keys \in Seq(Key) /\ n.kids \in Seq(Ids)
         /\ Len(n.keys) \in Nat /\ Len(n.kids) = Len(n.keys) + 1
<1>1. n \in Inner
  BY DEF Node, Leaf
<1> QED BY <1>1, LenProperties DEF Inner

LEMMA KeysOfNode ==
  ASSUME NEW n \in Node
  PROVE  n.keys \in Seq(Key) /\ Len(n.keys) \in Nat /\ n.leaf \in BOOLEAN
<1>1. n.leaf \in BOOLEAN
  BY DEF Node, Leaf, Inner
<1> QED BY <1>1, LeafParts, InnerParts

LEMMA LeafMade ==
  ASSUME NEW ks \in Seq(Key), NEW vs \in Seq(Value), NEW l \in Ids, Len(vs) = Len(ks)
  PROVE  /\ LeafNode(ks, vs, l) \in Node
         /\ LeafNode(ks, vs, l).leaf /\ LeafNode(ks, vs, l).keys = ks
BY DEF Node, Leaf, LeafNode

LEMMA InnerMade ==
  ASSUME NEW ks \in Seq(Key), NEW is \in Seq(Ids), Len(is) = Len(ks) + 1
  PROVE  /\ InnerNode(ks, is) \in Node /\ ~InnerNode(ks, is).leaf
         /\ InnerNode(ks, is).keys = ks /\ InnerNode(ks, is).kids = is
<1>1. 0 \in Ids
  BY Bounds DEF Ids
<1> QED BY <1>1 DEF Node, Inner, InnerNode

LEMMA FreshNodes ==
  /\ EmptyLeaf \in Node /\ Len(EmptyLeaf.keys) = 0
  /\ \A r \in Ids :
       /\ NewRoot(r) \in Node /\ ~NewRoot(r).leaf
       /\ Len(NewRoot(r).keys) = 0 /\ NewRoot(r).kids = <<r>>
<1>1. <<>> \in Seq(Key) /\ <<>> \in Seq(Value) /\ Len(<<>>) = 0 /\ 0 \in Ids
  BY EmptySeq, Bounds DEF Ids
<1>2. EmptyLeaf \in Node /\ Len(EmptyLeaf.keys) = 0
  BY <1>1, LeafMade DEF EmptyLeaf
<1>3. ASSUME NEW r \in Ids
      PROVE  /\ NewRoot(r) \in Node /\ ~NewRoot(r).leaf
             /\ Len(NewRoot(r).keys) = 0 /\ NewRoot(r).kids = <<r>>
  <2>1. <<r>> \in Seq(Ids) /\ Len(<<r>>) = Len(<<>>) + 1
    BY <1>1
  <2>2. /\ InnerNode(<<>>, <<r>>) \in Node /\ ~InnerNode(<<>>, <<r>>).leaf
        /\ InnerNode(<<>>, <<r>>).keys = <<>> /\ InnerNode(<<>>, <<r>>).kids = <<r>>
    BY <1>1, <2>1, InnerMade
  <2> QED BY <1>1, <2>2 DEF NewRoot
<1> QED BY <1>2, <1>3

(* insert_non_full and remove_from_node keep a leaf a leaf; the first adds *)
(* one key, the second takes one.                                          *)
LEMMA WithEntryNode ==
  ASSUME NEW n \in Node, n.leaf, NEW k \in Key, NEW v \in Value
  PROVE  WithEntry(n, k, v) \in Node /\ Len(WithEntry(n, k, v).keys) = Len(n.keys) + 1
<1> DEFINE i == InsertIndex(n, k)
           ks == InsertAt(n.keys, i, k)
           vs == InsertAt(n.kids, i, v)
<1>1. i \in 1 .. Len(n.keys) + 1
  BY LeafParts, InsertIndexStops
<1>2. ks \in Seq(Key) /\ Len(ks) = Len(n.keys) + 1
  BY <1>1, LeafParts, InsertAtSeq
<1>3. vs \in Seq(Value) /\ Len(vs) = Len(n.keys) + 1
  BY <1>1, LeafParts, InsertAtSeq
<1>4. WithEntry(n, k, v) = LeafNode(ks, vs, n.link)
  BY DEF WithEntry
<1> HIDE DEF i, ks, vs
<1> QED BY <1>2, <1>3, <1>4, LeafParts, LeafMade

LEMMA WithoutEntryNode ==
  ASSUME NEW n \in Node, n.leaf, NEW k \in Key, HasKey(n, k)
  PROVE  WithoutEntry(n, k) \in Node /\ Len(WithoutEntry(n, k).keys) = Len(n.keys) - 1
<1> DEFINE i == LeafIndex(n, k)
           ks == RemoveAt(n.keys, i)
           vs == RemoveAt(n.kids, i)
<1>1. i \in 1 .. Len(n.keys)
  BY LeafParts, LeafIndexStops DEF HasKey
<1>2. ks \in Seq(Key) /\ Len(ks) = Len(n.keys) - 1
  BY <1>1, LeafParts, RemoveAtSeq
<1>3. vs \in Seq(Value) /\ Len(vs) = Len(n.keys) - 1
  BY <1>1, LeafParts, RemoveAtSeq
<1>4. WithoutEntry(n, k) = LeafNode(ks, vs, n.link)
  BY DEF WithoutEntry
<1> HIDE DEF i, ks, vs
<1> QED BY <1>2, <1>3, <1>4, LeafParts, LeafMade

(* split_child: both halves are nodes with room for one more key. *)
LEMMA Halves ==
  ASSUME NEW n \in Node, Full(n), NEW r \in Ids
  PROVE  /\ LeftHalf(n, r) \in Node /\ Len(LeftHalf(n, r).keys) < MaxKeys
         /\ RightHalf(n) \in Node /\ Len(RightHalf(n).keys) < MaxKeys
         /\ Separator(n) \in Key
<1>1. /\ Len(n.keys) = MaxKeys /\ MaxKeys = 2 * MinKeys + 1 /\ MinKeys \in Nat \ {0}
      /\ n.keys \in Seq(Key)
  BY NodeSizes, KeysOfNode DEF Full
<1> DEFINE lks == SubSeq(n.keys, 1, MinKeys)
<1>2. lks \in Seq(Key) /\ Len(lks) = MinKeys
  BY <1>1, SubSeqType
<1>3. Separator(n) \in Key
  BY <1>1, ElementOfSeq DEF Separator
<1>4. CASE n.leaf
  <2>1. n.kids \in Seq(Value) /\ n.link \in Ids /\ Len(n.kids) = MaxKeys
    BY <1>1, <1>4, LeafParts
  <2> DEFINE lvs == SubSeq(n.kids, 1, MinKeys)
             rks == SubSeq(n.keys, MinKeys + 1, MaxKeys)
             rvs == SubSeq(n.kids, MinKeys + 1, MinKeys + 1 + MinKeys)
  <2>2. lvs \in Seq(Value) /\ Len(lvs) = MinKeys
    BY <1>1, <2>1, SubSeqType
  <2>3. rks \in Seq(Key) /\ Len(rks) = MinKeys + 1
    BY <1>1, SubSeqType
  <2>4. rvs \in Seq(Value) /\ Len(rvs) = MinKeys + 1
    BY <1>1, <2>1, SubSeqType
  <2>5. LeftHalf(n, r) = LeafNode(lks, lvs, r)
    BY <1>4 DEF LeftHalf
  <2>6. RightHalf(n) = LeafNode(rks, rvs, n.link)
    BY <1>4 DEF RightHalf, RightLeaf
  <2> HIDE DEF lks, lvs, rks, rvs
  <2>7. LeftHalf(n, r) \in Node /\ LeftHalf(n, r).keys = lks
    BY <1>2, <2>2, <2>5, LeafMade
  <2>8. RightHalf(n) \in Node /\ RightHalf(n).keys = rks
    BY <2>1, <2>3, <2>4, <2>6, LeafMade
  <2> QED BY <1>1, <1>2, <1>3, <2>3, <2>7, <2>8
<1>5. CASE ~n.leaf
  <2>1. n.kids \in Seq(Ids) /\ Len(n.kids) = MaxKeys + 1
    BY <1>1, <1>5, InnerParts
  <2> DEFINE lvs == SubSeq(n.kids, 1, MinKeys + 1)
             rks == SubSeq(n.keys, MinKeys + 2, MaxKeys)
             rvs == SubSeq(n.kids, MinKeys + 2, MaxKeys + 1)
  <2>2. lvs \in Seq(Ids) /\ Len(lvs) = MinKeys + 1
    BY <1>1, <2>1, SubSeqType
  <2>3. rks \in Seq(Key) /\ Len(rks) = MinKeys
    BY <1>1, SubSeqType
  <2>4. rvs \in Seq(Ids) /\ Len(rvs) = MinKeys + 1
    BY <1>1, <2>1, SubSeqType
  <2>5. LeftHalf(n, r) = InnerNode(lks, lvs)
    BY <1>5 DEF LeftHalf
  <2>6. RightHalf(n) = InnerNode(rks, rvs)
    BY <1>5 DEF RightHalf, RightInner
  <2> HIDE DEF lks, lvs, rks, rvs
  <2>7. LeftHalf(n, r) \in Node /\ LeftHalf(n, r).keys = lks
    BY <1>2, <2>2, <2>5, InnerMade
  <2>8. RightHalf(n) \in Node /\ RightHalf(n).keys = rks
    BY <2>3, <2>4, <2>6, InnerMade
  <2> QED BY <1>1, <1>2, <1>3, <2>3, <2>7, <2>8
<1> QED BY <1>4, <1>5

(* The parent of a split child gains a key and a child. *)
LEMMA WithChildNode ==
  ASSUME NEW p \in Node, ~p.leaf, NEW i \in 1 .. Len(p.keys) + 1, NEW k \in Key,
         NEW r \in Ids
  PROVE  /\ WithChild(p, i, k, r) \in Node
         /\ ~WithChild(p, i, k, r).leaf
         /\ Len(WithChild(p, i, k, r).keys) = Len(p.keys) + 1
         /\ WithChild(p, i, k, r).kids = InsertAt(p.kids, i + 1, r)
<1>1. /\ p.keys \in Seq(Key) /\ p.kids \in Seq(Ids)
      /\ Len(p.kids) = Len(p.keys) + 1 /\ Len(p.keys) \in Nat
      /\ \A j \in 1 .. Len(p.keys) : p.keys[j] \in Key
  BY InnerParts, ElementOfSeq
<1> DEFINE written(j) == IF j = i THEN k ELSE p.keys[j]
           ks == [j \in 1 .. Len(p.keys) + 1 |-> IF j <= i THEN written(j) ELSE written(j - 1)]
           is == InsertAt(p.kids, i + 1, r)
<1>2. ks \in Seq(Key) /\ Len(ks) = Len(p.keys) + 1
  <2>1. \A j \in 1 .. Len(p.keys) + 1 :
          (IF j <= i THEN written(j) ELSE written(j - 1)) \in Key
    BY <1>1
  <2>2. Len(p.keys) + 1 \in Nat
    BY <1>1
  <2>3. ks \in [1 .. Len(p.keys) + 1 -> Key]
    BY <2>1
  <2> HIDE DEF ks
  <2>4. ks \in Seq(Key)
    BY <2>2, <2>3, SeqDef
  <2> QED BY <2>2, <2>3, <2>4, LenProperties
<1>3. is \in Seq(Ids) /\ Len(is) = Len(p.keys) + 2
  <2>1. i + 1 \in 1 .. Len(p.kids) + 1
    BY <1>1
  <2> QED BY <1>1, <2>1, InsertAtSeq
<1>4. WithChild(p, i, k, r) = InnerNode(ks, is)
  BY DEF WithChild
<1> HIDE DEF ks, is
<1>5. Len(is) = Len(ks) + 1
  BY <1>1, <1>2, <1>3
<1> QED BY <1>2, <1>3, <1>4, <1>5, InnerMade DEF is

(* The position it gives them: the old child stays at i, the new one is    *)
(* next to it.                                                             *)
LEMMA WithChildKids ==
  ASSUME NEW p \in Node, ~p.leaf, NEW i \in 1 .. Len(p.keys) + 1, NEW r \in Ids
  PROVE  /\ InsertAt(p.kids, i + 1, r)[i] = p.kids[i]
         /\ InsertAt(p.kids, i + 1, r)[i + 1] = r
<1>1. p.kids \in Seq(Ids) /\ Len(p.kids) = Len(p.keys) + 1 /\ Len(p.keys) \in Nat
  BY InnerParts
<1> DEFINE a == SubSeq(p.kids, 1, i)
           b == SubSeq(p.kids, i + 1, Len(p.kids))
           c == a \o <<r>>
<1>2. \A j \in 1 .. Len(p.kids) : p.kids[j] \in Ids
  BY <1>1, ElementOfSeq
<1>3. a \in Seq(Ids) /\ Len(a) = i /\ a[i] = p.kids[i]
  BY <1>1, <1>2, SubSeqProperties
<1>4. b \in Seq(Ids) /\ Len(b) \in Nat
  BY <1>1, <1>2, SubSeqProperties, LenProperties
<1>5. <<r>> \in Seq(Ids) /\ Len(<<r>>) = 1 /\ <<r>>[1] = r
  OBVIOUS
<1>6. InsertAt(p.kids, i + 1, r) = c \o b
  <2>1. (i + 1) - 1 = i
    BY <1>1
  <2> QED BY <2>1 DEF InsertAt
<1> HIDE DEF a, b
<1>7. c \in Seq(Ids) /\ Len(c) = i + 1 /\ c[i] = a[i] /\ c[i + 1] = r
  BY <1>3, <1>5, ConcatProperties
<1> HIDE DEF c
<1>8. (c \o b)[i] = c[i] /\ (c \o b)[i + 1] = c[i + 1]
  BY <1>4, <1>7, ConcatProperties
<1> QED BY <1>3, <1>6, <1>7, <1>8
----------------------------------------------------------------------------
Step == Running \/ Calls \/ MetadataAbsent \/ Crash

(* The writes that are still to be made: no node file is written twice, a  *)
(* node fits in its arrays, and every write of the metadata says what the  *)
(* open object says.                                                       *)
PendOK ==
  \A j \in 1 .. Len(pend) :
    /\ \A i \in 1 .. Len(pend) : pend[i].to = pend[j].to => i = j \/ pend[j].to = MetaFile
    /\ pend[j].to = MetaFile => pend[j].data.next = next
    /\ pend[j].to # MetaFile =>
         /\ Len(pend[j].data.keys) <= MaxKeys
         /\ pend[j].to < next
         /\ file[0] = NoFile => pend[j].to = 0
         /\ meta # NoFile => pend[j].to < meta.next \/ pend[1].to = MetaFile

(* Node ids below the next one, in memory and in the metadata file, are    *)
(* the only ones in use, and the node files of a tree include node 0.      *)
IdsOK ==
  /\ next >= 1
  /\ meta # NoFile => meta.next >= 1 /\ meta.next <= next
  /\ \A i \in Ids : file[i] # NoFile =>
       /\ i < next
       /\ meta # NoFile => i < meta.next
       /\ file[0] # NoFile

Narrow == \A i \in Ids : file[i] # NoFile => Len(file[i].keys) <= MaxKeys

(* A node that is there and has room for one more key. *)
HasRoom(i) == Now[i] # NoFile /\ ~Full(Now[i])

(* What the steps of an insert rely on: the node it stands at has room,    *)
(* the child it is about to split is full, and both halves of the child it *)
(* has split have room.  A closed tree has no writes to make.              *)
CallOK ==
  /\ call = Closed => Ready
  /\ call.op = "insert" =>
       /\ HasRoom(call.at) \/ call.step = "pick"
       /\ call.step = "splitRoot" => Len(Now[call.at].keys) = 0
       /\ call.step \in {"split", "splitRoot"} =>
            /\ ~Now[call.at].leaf
            /\ call.idx \in 1 .. Len(Now[call.at].keys) + 1
            /\ Now[Now[call.at].kids[call.idx]] # NoFile
            /\ Full(Now[Now[call.at].kids[call.idx]])
       /\ call.step = "pick" =>
            /\ Now[call.at] # NoFile /\ ~Now[call.at].leaf
            /\ call.idx \in 1 .. Len(Now[call.at].keys)
            /\ HasRoom(Now[call.at].kids[call.idx])
            /\ HasRoom(Now[call.at].kids[call.idx + 1])

Inv == TypeOK /\ PendOK /\ IdsOK /\ Narrow /\ CallOK

(* The fields of a call and of a write have the types of their sets. *)
LEMMA InsertFields ==
  ASSUME TypeOK, call.op = "insert"
  PROVE  /\ call.key \in Key /\ call.val \in Value /\ call.at \in Ids /\ call.idx \in Nat
         /\ call.step \in {"descend", "split", "splitRoot", "pick"}
BY DEF TypeOK, CallType, None, Closed

LEMMA RemoveFields ==
  ASSUME TypeOK, call.op = "remove"
  PROVE  call.key \in Key /\ call.at \in Ids
BY DEF TypeOK, CallType, None, Closed

LEMMA WriteFields ==
  ASSUME NEW w \in Write
  PROVE  /\ w.to = MetaFile => w.data \in Meta
         /\ w.to # MetaFile => w.to \in Ids /\ w.data \in Node
BY Bounds DEF Write, MetaFile, Ids

LEMMA WritesMade ==
  /\ \A r \in Ids, n \in Nat : MetaWrite(r, n) \in Write /\ MetaWrite(r, n).to = MetaFile
                               /\ MetaWrite(r, n).data.next = n
  /\ \A i \in Ids, n \in Node : NodeWrite(i, n) \in Write /\ NodeWrite(i, n).to = i
                                /\ NodeWrite(i, n).data = n
  /\ MetaFile \notin Ids
BY Bounds DEF Write, Meta, MetaWrite, NodeWrite, MetaFile, Ids

(* What Now means: the pending write of a node if there is one, and else   *)
(* its file.                                                               *)
LEMMA NowPending ==
  ASSUME TypeOK, PendOK, NEW j \in 1 .. Len(pend), pend[j].to # MetaFile
  PROVE  Now[pend[j].to] = pend[j].data
<1>1. pend[j] \in Write /\ Len(pend) \in Nat
  BY ElementOfSeq, LenProperties DEF TypeOK
<1>2. pend[j].to \in Ids
  BY <1>1, WriteFields
<1> DEFINE P(m) == pend[m].to = pend[j].to
           c == CHOOSE m \in 1 .. Len(pend) : P(m)
<1>3. c \in 1 .. Len(pend) /\ P(c)
  BY <1>1
<1>4. c = j
  BY <1>3 DEF PendOK
<1>5. pend # <<>>
  BY <1>1, EmptySeq
<1>6. Now[pend[j].to] = pend[c].data
  BY <1>2, <1>5 DEF Now, Ready
<1> QED BY <1>4, <1>6

LEMMA NowOnDisk ==
  ASSUME TypeOK, NEW i \in Ids, \A j \in 1 .. Len(pend) : pend[j].to # i
  PROVE  Now[i] = file[i]
BY DEF Now, Ready

LEMMA NowWhenReady == Ready => Now = file
BY DEF Now

LEMMA NowType ==
  ASSUME Inv, NEW i \in Ids, Now[i] # NoFile
  PROVE  Now[i] \in Node /\ Len(Now[i].keys) <= MaxKeys /\ i < next
<1>1. CASE \A j \in 1 .. Len(pend) : pend[j].to # i
  <2>1. Now[i] = file[i]
    BY <1>1, NowOnDisk DEF Inv
  <2> QED BY <2>1 DEF Inv, TypeOK, Narrow, IdsOK
<1>2. ASSUME NEW j \in 1 .. Len(pend), pend[j].to = i
      PROVE  Now[i] \in Node /\ Len(Now[i].keys) <= MaxKeys /\ i < next
  <2>1. i # MetaFile
    BY WritesMade
  <2>2. Now[i] = pend[j].data
    BY <1>2, <2>1, NowPending DEF Inv
  <2>3. pend[j] \in Write
    BY ElementOfSeq DEF Inv, TypeOK
  <2>4. pend[j].data \in Node
    BY <1>2, <2>1, <2>3, WriteFields
  <2> QED BY <1>2, <2>1, <2>2, <2>4 DEF Inv, PendOK
<1> QED BY <1>1, <1>2

(* Making the next write changes nothing that is to be seen in the end. *)
LEMMA WriteKeepsNow ==
  ASSUME Inv, PendOK', TypeOK', WriteFile
  PROVE  \A i \in Ids : Now'[i] = Now[i]
<1> SUFFICES ASSUME NEW i \in Ids PROVE Now'[i] = Now[i]
  OBVIOUS
<1> DEFINE w == Head(pend)
<1>1. /\ pend \in Seq(Write) /\ pend # <<>> /\ pend' = Tail(pend)
      /\ w.to = MetaFile => UNCHANGED file
      /\ w.to # MetaFile => file' = [file EXCEPT ![w.to] = w.data]
      /\ file \in [Ids -> Node \cup {NoFile}]
  BY DEF Inv, TypeOK, WriteFile, Ready
<1>2. /\ Len(pend) \in Nat /\ Len(pend) >= 1 /\ w = pend[1] /\ w \in Write
      /\ Len(pend') = Len(pend) - 1
      /\ \A j \in 1 .. Len(pend') : pend'[j] = pend[j + 1]
  BY <1>1, HeadTailProperties, LenProperties, EmptySeq
<1>3. i # MetaFile
  BY WritesMade
<1>4. CASE w.to = i
  <2>1. Now[i] = w.data
    BY <1>2, <1>3, <1>4, NowPending DEF Inv
  <2>2. \A j \in 1 .. Len(pend') : pend'[j].to # i
    <3> SUFFICES ASSUME NEW j \in 1 .. Len(pend'), pend[j + 1].to = i PROVE FALSE
      BY <1>2
    <3>1. j + 1 \in 1 .. Len(pend) /\ 1 \in 1 .. Len(pend) /\ j + 1 # 1
      BY <1>2
    <3> QED BY <1>2, <1>3, <1>4, <3>1 DEF Inv, PendOK
  <2>3. Now'[i] = file'[i]
    BY <2>2 DEF Now, Ready
  <2> QED BY <1>1, <1>3, <1>4, <2>1, <2>3
<1>5. CASE w.to # i
  <2>1. file'[i] = file[i]
    <3>1. CASE w.to = MetaFile
      BY <1>1, <3>1
    <3>2. CASE w.to # MetaFile
      BY <1>1, <1>2, <1>5, <3>2, WriteFields
    <3> QED BY <3>1, <3>2
  <2>2. CASE \A j \in 1 .. Len(pend) : pend[j].to # i
    <3>1. \A j \in 1 .. Len(pend') : pend'[j].to # i
      <4> SUFFICES ASSUME NEW j \in 1 .. Len(pend') PROVE pend'[j].to # i
        OBVIOUS
      <4>1. j + 1 \in 1 .. Len(pend)
        BY <1>2
      <4> QED BY <1>2, <2>2, <4>1
    <3>2. Now'[i] = file'[i]
      BY <3>1 DEF Now, Ready
    <3>3. Now[i] = file[i]
      BY <2>2, NowOnDisk DEF Inv
    <3> QED BY <2>1, <3>2, <3>3
  <2>3. ASSUME NEW j \in 1 .. Len(pend), pend[j].to = i PROVE Now'[i] = Now[i]
    <3>1. j # 1
      BY <1>2, <1>5, <2>3
    <3>2. j - 1 \in 1 .. Len(pend') /\ pend'[j - 1] = pend[j]
      <4>1. j - 1 \in 1 .. Len(pend')
        BY <1>2, <3>1
      <4>2. (j - 1) + 1 = j
        OBVIOUS
      <4> QED BY <1>2, <4>1, <4>2
    <3>3. Now[i] = pend[j].data
      BY <1>3, <2>3, NowPending DEF Inv
    <3>4. Now'[i] = pend'[j - 1].data
      <4> DEFINE c == CHOOSE m \in 1 .. Len(pend') : pend'[m].to = i
      <4>1. c \in 1 .. Len(pend') /\ pend'[c].to = i
        BY <2>3, <3>2
      <4>2. c = j - 1
        BY <1>3, <2>3, <3>2, <4>1 DEF PendOK
      <4>3. pend' # <<>>
        BY <3>2, EmptySeq
      <4>4. Now'[i] = pend'[c].data
        BY <2>3, <3>2, <4>3 DEF Now, Ready
      <4> QED BY <4>2, <4>4
    <3> QED BY <3>2, <3>3, <3>4
  <2> QED BY <2>2, <2>3
<1> QED BY <1>4, <1>5
----------------------------------------------------------------------------
(* Now as a function of the directory and of the writes to be made.        *)
Made(f, q) ==
  IF q = <<>> THEN f
  ELSE [i \in Ids |->
          IF \E j \in 1 .. Len(q) : q[j].to = i
          THEN q[CHOOSE j \in 1 .. Len(q) : q[j].to = i].data
          ELSE f[i]]

LEMMA NowIsMade == Now = Made(file, pend) /\ Now' = Made(file', pend')
BY DEF Now, Ready, Made

LEMMA MadeWrite ==
  ASSUME NEW f, NEW q, q # <<>>, NEW j \in 1 .. Len(q), q[j].to \in Ids,
         \A i \in 1 .. Len(q) : q[i].to = q[j].to => i = j
  PROVE  Made(f, q)[q[j].to] = q[j].data
<1> DEFINE P(m) == q[m].to = q[j].to
           c == CHOOSE m \in 1 .. Len(q) : P(m)
<1>1. c \in 1 .. Len(q) /\ P(c)
  OBVIOUS
<1>2. c = j
  BY <1>1
<1>3. Made(f, q)[q[j].to] = q[c].data
  BY DEF Made
<1> QED BY <1>2, <1>3

LEMMA MadeElsewhere ==
  ASSUME NEW f, NEW q, NEW i \in Ids, \A j \in 1 .. Len(q) : q[j].to # i
  PROVE  Made(f, q)[i] = f[i]
BY DEF Made

LEMMA CallMade ==
  /\ None \in CallType /\ Closed \in CallType /\ None # Closed
  /\ None.op = "none" /\ Closed.op = "closed"
  /\ \A s \in {"descend", "split", "splitRoot", "pick"}, k \in Key, v \in Value,
        at \in Ids, idx \in Nat :
       LET c == Inserting(s, k, v, at, idx)
       IN  /\ c \in CallType /\ c # Closed /\ c.op = "insert"
           /\ c.step = s /\ c.at = at /\ c.idx = idx
  /\ \A k \in Key, at \in Ids :
       Removing(k, at) \in CallType /\ Removing(k, at).op = "remove" /\ Removing(k, at) # Closed
BY DEF CallType, None, Closed, Inserting, Removing

(* A step that writes no file and allocates no id leaves the directory as  *)
(* it was to be.                                                           *)
LEMMA Quiet ==
  ASSUME Inv, UNCHANGED <<file, meta, next, pend>>
  PROVE  PendOK' /\ IdsOK' /\ Narrow' /\ Now' = Now /\ Ready' = Ready
<1>1. PendOK /\ IdsOK /\ Narrow
  BY DEF Inv
<1>2. PendOK'
  BY <1>1 DEF PendOK
<1>3. IdsOK'
  BY <1>1 DEF IdsOK
<1>4. Narrow'
  BY <1>1 DEF Narrow
<1> QED BY <1>2, <1>3, <1>4 DEF Now, Ready

LEMMA InvStart == Init => Inv
<1> SUFFICES ASSUME Init PROVE Inv
  OBVIOUS
<1>1. /\ file = [i \in Ids |-> NoFile] /\ meta = NoFile /\ root = 0 /\ next = 1
      /\ call = Closed /\ pend = <<>> /\ 0 \in Ids /\ Len(<<>>) = 0
  BY Bounds DEF Init, Ids
<1>2. TypeOK
  BY <1>1, CallMade DEF TypeOK
<1>3. PendOK
  BY <1>1 DEF PendOK
<1>4. IdsOK
  BY <1>1 DEF IdsOK
<1>5. Narrow
  BY <1>1 DEF Narrow
<1>6. CallOK
  BY <1>1, CallMade DEF CallOK, Ready
<1> QED BY <1>2, <1>3, <1>4, <1>5, <1>6 DEF Inv

LEMMA WriteStep == ASSUME Inv, WriteFile PROVE Inv'
<1> DEFINE w == Head(pend)
<1>1. /\ pend \in Seq(Write) /\ pend # <<>> /\ pend' = Tail(pend)
      /\ w.to = MetaFile => meta' = w.data /\ UNCHANGED file
      /\ w.to # MetaFile => file' = [file EXCEPT ![w.to] = w.data] /\ UNCHANGED meta
      /\ UNCHANGED <<root, next, call>>
      /\ file \in [Ids -> Node \cup {NoFile}]
  BY DEF Inv, TypeOK, WriteFile, Ready
<1>2. /\ Len(pend) \in Nat /\ Len(pend) >= 1 /\ w = pend[1] /\ w \in Write
      /\ pend' \in Seq(Write) /\ Len(pend') = Len(pend) - 1
      /\ \A j \in 1 .. Len(pend') : pend'[j] = pend[j + 1]
  BY <1>1, HeadTailProperties, LenProperties, EmptySeq
<1>3. /\ w.to = MetaFile => w.data \in Meta /\ w.data.next = next
      /\ w.to # MetaFile =>
           /\ w.to \in Ids /\ w.data \in Node /\ w.data # NoFile
           /\ Len(w.data.keys) <= MaxKeys /\ w.to < next
           /\ file[0] = NoFile => w.to = 0
           /\ meta # NoFile => w.to < meta.next
  <2>1. 1 \in 1 .. Len(pend)
    BY <1>2
  <2> QED BY <1>2, <2>1, WriteFields, NoFileIsNoContent DEF Inv, PendOK
<1>4. TypeOK'
  BY <1>1, <1>2, <1>3 DEF Inv, TypeOK
<1>5. w.to # MetaFile => file'[0] # NoFile
  <2>1. 0 \in Ids
    BY Bounds DEF Ids
  <2> QED BY <1>1, <1>3, <2>1
<1>6. PendOK'
  <2> SUFFICES ASSUME NEW j \in 1 .. Len(pend')
               PROVE  /\ \A i \in 1 .. Len(pend') :
                           pend'[i].to = pend'[j].to => i = j \/ pend'[j].to = MetaFile
                      /\ pend'[j].to = MetaFile => pend'[j].data.next = next
                      /\ pend'[j].to # MetaFile =>
                           /\ Len(pend'[j].data.keys) <= MaxKeys
                           /\ pend'[j].to < next
                           /\ file'[0] = NoFile => pend'[j].to = 0
                           /\ meta' # NoFile => pend'[j].to < meta'.next
    BY <1>1 DEF PendOK
  <2>1. j + 1 \in 1 .. Len(pend) /\ pend'[j] = pend[j + 1]
    BY <1>2
  <2>2. \A i \in 1 .. Len(pend') :
          pend'[i].to = pend'[j].to => i = j \/ pend'[j].to = MetaFile
    <3> SUFFICES ASSUME NEW i \in 1 .. Len(pend'), pend'[i].to = pend'[j].to,
                        pend'[j].to # MetaFile
                 PROVE  i = j
      OBVIOUS
    <3>1. i + 1 \in 1 .. Len(pend) /\ pend'[i] = pend[i + 1]
      BY <1>2
    <3>2. i + 1 = j + 1
      BY <2>1, <3>1 DEF Inv, PendOK
    <3> QED BY <3>2
  <2>3. pend'[j].to = MetaFile => pend'[j].data.next = next
    BY <2>1 DEF Inv, PendOK
  <2>4. pend'[j].to # MetaFile => Len(pend'[j].data.keys) <= MaxKeys /\ pend'[j].to < next
    BY <2>1 DEF Inv, PendOK
  <2>5. pend'[j].to # MetaFile /\ file'[0] = NoFile => pend'[j].to = 0
    BY <1>1, <1>5, <2>1 DEF Inv, PendOK
  <2>6. pend'[j].to # MetaFile /\ meta' # NoFile => pend'[j].to < meta'.next
    BY <1>1, <1>2, <1>3, <2>1, <2>4 DEF Inv, PendOK
  <2> QED BY <2>2, <2>3, <2>4, <2>5, <2>6
<1>7. IdsOK'
  <2>1. next >= 1 /\ next \in Nat
    BY DEF Inv, IdsOK, TypeOK
  <2>2. meta' # NoFile => meta'.next >= 1 /\ meta'.next <= next
    BY <1>1, <1>3, <2>1 DEF Inv, IdsOK
  <2>3. ASSUME NEW i \in Ids, file'[i] # NoFile
        PROVE  i < next /\ (meta' # NoFile => i < meta'.next) /\ file'[0] # NoFile
    <3>1. CASE w.to = MetaFile
      BY <1>1, <1>3, <2>3, <3>1 DEF Inv, IdsOK
    <3>2. CASE w.to # MetaFile /\ i = w.to
      BY <1>1, <1>3, <1>5, <3>2
    <3>3. CASE w.to # MetaFile /\ i # w.to
      <4>1. file'[i] = file[i]
        BY <1>1, <3>3
      <4> QED BY <1>1, <1>5, <2>3, <3>3, <4>1 DEF Inv, IdsOK
    <3> QED BY <3>1, <3>2, <3>3
  <2> QED BY <1>1, <2>1, <2>2, <2>3 DEF IdsOK
<1>8. Narrow'
  <2> SUFFICES ASSUME NEW i \in Ids, file'[i] # NoFile PROVE Len(file'[i].keys) <= MaxKeys
    BY DEF Narrow
  <2>1. CASE w.to # MetaFile /\ i = w.to
    BY <1>1, <1>3, <2>1
  <2>2. CASE w.to = MetaFile \/ i # w.to
    <3>1. file'[i] = file[i]
      BY <1>1, <2>2
    <3> QED BY <3>1 DEF Inv, Narrow
  <2> QED BY <2>1, <2>2
<1>9. CallOK'
  <2>1. \A i \in Ids : Now'[i] = Now[i]
    BY <1>4, <1>6, WriteKeepsNow
  <2>2. call' = call /\ call # Closed
    BY <1>1 DEF Inv, CallOK, Ready
  <2> SUFFICES ASSUME call.op = "insert" PROVE CallOK'
    BY <2>2 DEF CallOK
  <2>3. call.at \in Ids
    BY InsertFields DEF Inv
  <2>4. ASSUME Now[call.at] # NoFile, ~Now[call.at].leaf,
               NEW i \in 1 .. Len(Now[call.at].keys) + 1
        PROVE  Now[call.at].kids[i] \in Ids
    <3>1. Now[call.at] \in Node
      BY <2>3, <2>4, NowType
    <3> QED BY <2>4, <3>1, InnerParts, ElementOfSeq
  <2>5. Now'[call.at] = Now[call.at] /\ \A i \in Ids : HasRoom(i)' = HasRoom(i)
    BY <2>1, <2>3 DEF HasRoom
  <2>6. Now[call.at] # NoFile => Len(Now[call.at].keys) \in Nat
    BY <2>3, NowType, KeysOfNode
  <2>7. ASSUME call.step \in {"split", "splitRoot"}
        PROVE  /\ ~Now'[call.at].leaf
               /\ call.idx \in 1 .. Len(Now'[call.at].keys) + 1
               /\ Now'[Now'[call.at].kids[call.idx]] # NoFile
               /\ Full(Now'[Now'[call.at].kids[call.idx]])
    <3>1. /\ Now[call.at] # NoFile /\ ~Now[call.at].leaf
          /\ call.idx \in 1 .. Len(Now[call.at].keys) + 1
          /\ Now[Now[call.at].kids[call.idx]] # NoFile
          /\ Full(Now[Now[call.at].kids[call.idx]])
      BY <2>7 DEF Inv, CallOK, HasRoom
    <3>2. Now[call.at].kids[call.idx] \in Ids
      BY <2>4, <3>1
    <3> QED BY <2>1, <2>5, <3>1, <3>2
  <2>8. ASSUME call.step = "pick"
        PROVE  /\ Now'[call.at] # NoFile /\ ~Now'[call.at].leaf
               /\ call.idx \in 1 .. Len(Now'[call.at].keys)
               /\ HasRoom(Now[call.at].kids[call.idx])'
               /\ HasRoom(Now[call.at].kids[call.idx + 1])'
    <3>1. /\ Now[call.at] # NoFile /\ ~Now[call.at].leaf
          /\ call.idx \in 1 .. Len(Now[call.at].keys)
          /\ HasRoom(Now[call.at].kids[call.idx])
          /\ HasRoom(Now[call.at].kids[call.idx + 1])
      BY <2>8 DEF Inv, CallOK
    <3>2. /\ call.idx \in 1 .. Len(Now[call.at].keys) + 1
          /\ call.idx + 1 \in 1 .. Len(Now[call.at].keys) + 1
      BY <2>6, <3>1
    <3>3. Now[call.at].kids[call.idx] \in Ids /\ Now[call.at].kids[call.idx + 1] \in Ids
      BY <2>4, <3>1, <3>2
    <3>4. \A i \in Ids : HasRoom(i) => Now'[i] # NoFile /\ ~Full(Now'[i])
      BY <2>1 DEF HasRoom
    <3>5. \A j \in {call.idx, call.idx + 1} :
            LET c == Now'[call.at].kids[j] IN Now'[c] # NoFile /\ ~Full(Now'[c])
      BY <2>5, <3>1, <3>3, <3>4
    <3> QED BY <2>2, <2>5, <3>1, <3>5 DEF HasRoom
  <2> QED BY <2>2, <2>3, <2>5, <2>7, <2>8 DEF CallOK, Inv, HasRoom
<1> QED BY <1>4, <1>6, <1>7, <1>8, <1>9 DEF Inv
----------------------------------------------------------------------------
(* A step that writes nothing keeps the invariant if the call it leads to  *)
(* is in order.                                                            *)
LEMMA QuietStep ==
  ASSUME Inv, UNCHANGED <<file, meta, root, next, pend>>, call' \in CallType, CallOK'
  PROVE  Inv'
<1>1. TypeOK'
  BY DEF Inv, TypeOK
<1> QED BY <1>1, Quiet DEF Inv

(* So it is for every call that is not an insert. *)
LEMMA QuietEnd ==
  ASSUME Inv, UNCHANGED <<file, meta, root, next, pend>>, call' \in CallType,
         call'.op # "insert", call' = Closed => Ready
  PROVE  Inv'
<1>1. CallOK'
  BY DEF CallOK, Ready
<1> QED BY <1>1, QuietStep

(* read_metadata, or what the constructor does without the file. *)
LEMMA OpenStep ==
  ASSUME Inv, OpenExisting \/ OpenFresh \/ OpenInferring
  PROVE  Inv'
<1>1. TypeOK /\ PendOK /\ IdsOK /\ Narrow /\ 0 \in Ids /\ call = Closed /\ pend = <<>>
  BY Bounds DEF Inv, Ids, CallOK, Ready, OpenExisting, OpenFresh, OpenInferring
<1>2. CallOK' /\ call' = None /\ call' \in CallType
  BY CallMade DEF CallOK, OpenExisting, OpenFresh, OpenInferring
<1>3. UNCHANGED <<file, meta>> /\ Narrow'
  BY <1>1 DEF Narrow, OpenExisting, OpenFresh, OpenInferring
<1>4. CASE OpenExisting
  <2>1. meta \in Meta /\ root' = meta.root /\ next' = meta.next /\ pend' = <<>>
    BY <1>1, <1>4 DEF OpenExisting, TypeOK
  <2>2. TypeOK'
    BY <1>1, <1>2, <1>3, <2>1 DEF TypeOK, Meta
  <2>3. PendOK'
    BY <2>1 DEF PendOK
  <2>4. IdsOK'
    BY <1>1, <1>3, <1>4, <2>1 DEF IdsOK, OpenExisting, Meta
  <2> QED BY <1>2, <1>3, <2>2, <2>3, <2>4 DEF Inv
<1>5. CASE OpenFresh
  <2>1. /\ meta = NoFile /\ file[0] = NoFile /\ root' = 0 /\ next' = 1
        /\ pend' = <<NodeWrite(0, EmptyLeaf), MetaWrite(0, 1)>>
    BY <1>5 DEF OpenFresh
  <2>2. /\ NodeWrite(0, EmptyLeaf) \in Write /\ NodeWrite(0, EmptyLeaf).to = 0
        /\ NodeWrite(0, EmptyLeaf).data = EmptyLeaf
        /\ MetaWrite(0, 1) \in Write /\ MetaWrite(0, 1).to = MetaFile
        /\ MetaWrite(0, 1).data.next = 1 /\ MetaFile # 0
    BY <1>1, WritesMade, FreshNodes
  <2>3. /\ pend' \in Seq(Write) /\ Len(pend') = 2
        /\ pend'[1] = NodeWrite(0, EmptyLeaf) /\ pend'[2] = MetaWrite(0, 1)
    BY <2>1, <2>2
  <2>4. TypeOK'
    BY <1>1, <1>2, <1>3, <2>1, <2>3 DEF TypeOK
  <2>5. PendOK'
    <3>1. Len(EmptyLeaf.keys) <= MaxKeys
      BY FreshNodes, NodeSizes
    <3>2. ASSUME NEW j \in 1 .. Len(pend')
          PROVE  /\ \A i \in 1 .. Len(pend') :
                      pend'[i].to = pend'[j].to => i = j \/ pend'[j].to = MetaFile
                 /\ pend'[j].to = MetaFile => pend'[j].data.next = 1
                 /\ pend'[j].to # MetaFile =>
                      Len(pend'[j].data.keys) <= MaxKeys /\ pend'[j].to = 0
      <4>1. j = 1 \/ j = 2
        BY <2>3
      <4>2. \A i \in 1 .. Len(pend') : i = 1 \/ i = 2
        BY <2>3
      <4> QED BY <2>2, <2>3, <3>1, <4>1, <4>2
    <3> QED BY <1>3, <2>1, <3>2 DEF PendOK
  <2>6. IdsOK'
    BY <1>1, <1>3, <2>1 DEF IdsOK
  <2> QED BY <1>2, <1>3, <2>4, <2>5, <2>6 DEF Inv
<1>6. CASE OpenInferring
  <2> DEFINE r == InferRoot(file)
             n == InferNext(file)
  <2>1. /\ meta = NoFile /\ file[0] # NoFile /\ root' = r /\ next' = n
        /\ pend' = <<MetaWrite(r, n)>>
    BY <1>6 DEF OpenInferring
  <2>2. r \in Ids
    <3>1. Unreferenced(file) \subseteq Ids /\ Ids \subseteq Nat
      BY DEF Unreferenced, Files, Ids
    <3>2. Unreferenced(file) # {} => Min(Unreferenced(file)) \in Unreferenced(file)
      BY <3>1, MinExists
    <3> QED BY <1>1, <3>1, <3>2 DEF InferRoot
  <2>3. n \in Nat /\ \A i \in Ids : file[i] # NoFile => i < n
    <3>1. Files(file) \in SUBSET (0 .. MaxNodeId) /\ Files(file) # {} /\ MaxNodeId \in Nat
      BY <1>1, <2>1, Bounds DEF Files, Ids
    <3>2. Max(Files(file)) \in Files(file) /\ \A i \in Files(file) : i <= Max(Files(file))
      BY <3>1, MaxExists
    <3>3. n = Max(Files(file)) + 1
      BY <3>1 DEF InferNext
    <3>4. Max(Files(file)) \in Nat
      BY <3>1, <3>2
    <3>5. ASSUME NEW i \in Ids, file[i] # NoFile PROVE i < n
      <4>1. i \in Files(file) /\ i \in Nat
        BY <3>5 DEF Files, Ids
      <4> QED BY <3>2, <3>3, <3>4, <4>1
    <3> QED BY <3>3, <3>4, <3>5
  <2> HIDE DEF r, n
  <2>4. n >= 1
    BY <1>1, <2>1, <2>3
  <2>5. /\ MetaWrite(r, n) \in Write /\ MetaWrite(r, n).to = MetaFile
        /\ MetaWrite(r, n).data.next = n
    BY <2>2, <2>3, WritesMade
  <2>6. pend' \in Seq(Write) /\ Len(pend') = 1 /\ pend'[1] = MetaWrite(r, n)
    BY <2>1, <2>5
  <2>7. TypeOK'
    BY <1>1, <1>2, <1>3, <2>1, <2>2, <2>3, <2>6 DEF TypeOK
  <2>8. PendOK'
    <3>1. \A j \in 1 .. Len(pend') : j = 1
      BY <2>6
    <3> QED BY <2>1, <2>5, <2>6, <3>1 DEF PendOK
  <2>9. IdsOK'
    BY <1>3, <2>1, <2>3, <2>4 DEF IdsOK
  <2> QED BY <1>2, <1>3, <2>7, <2>8, <2>9 DEF Inv
<1> QED BY <1>4, <1>5, <1>6

(* The steps that only choose where the call goes on, or end it. *)
LEMMA WalkStep ==
  ASSUME Inv,
         \/ Close \/ PickHalf \/ DescendInsert \/ DescendRemove \/ CallThrows
         \/ \E k \in Key : BeginRemove(k) \/ \E v \in Value : BeginInsert(k, v)
  PROVE  Inv'
<1>1. TypeOK /\ PendOK /\ IdsOK /\ Narrow /\ CallOK /\ root \in Ids
  BY DEF Inv, TypeOK
<1>2. UNCHANGED <<file, meta, root, next, pend>> /\ Ready /\ Now = file /\ Now' = file
  BY DEF Close, PickHalf, DescendInsert, DescendRemove, CallThrows, BeginRemove,
         BeginInsert, MayInsert, Idle, Now, Ready
<1>3. \A i \in Ids : file[i] # NoFile => file[i] \in Node /\ Len(file[i].keys) \in Nat
  BY <1>1, KeysOfNode DEF TypeOK
<1>4. \A i \in Ids, k \in Key :
        file[i] # NoFile /\ ~file[i].leaf =>
          /\ ChildIndex(file[i], k) \in 1 .. Len(file[i].keys) + 1
          /\ file[i].kids[ChildIndex(file[i], k)] \in Ids
          /\ \A j \in 1 .. Len(file[i].keys) + 1 : file[i].kids[j] \in Ids
  BY <1>3, InnerParts, ChildIndexStops, ElementOfSeq
<1>5. CASE Close
  BY <1>2, <1>5, CallMade, QuietEnd DEF Close
<1>6. CASE CallThrows
  BY <1>2, <1>6, CallMade, QuietEnd DEF CallThrows
<1>7. ASSUME NEW k \in Key, BeginRemove(k) PROVE Inv'
  <2>1. call' = Removing(k, root)
    BY <1>7 DEF BeginRemove
  <2> QED BY <1>1, <1>2, <2>1, CallMade, QuietEnd
<1>8. CASE DescendRemove
  <2>1. call.op = "remove" /\ file[call.at] # NoFile /\ ~file[call.at].leaf
    BY <1>8 DEF DescendRemove
  <2>2. call.key \in Key /\ call.at \in Ids
    BY <1>1, <2>1, RemoveFields
  <2>3. /\ file[call.at].kids[ChildIndex(file[call.at], call.key)] \in Ids
        /\ call' = Removing(call.key, file[call.at].kids[ChildIndex(file[call.at], call.key)])
    BY <1>4, <1>8, <2>1, <2>2 DEF DescendRemove
  <2> QED BY <1>2, <2>2, <2>3, CallMade, QuietEnd
<1>9. ASSUME NEW k \in Key, NEW v \in Value, BeginInsert(k, v) PROVE Inv'
  <2>1. call' = Inserting("descend", k, v, root, 0) /\ file[root] # NoFile /\ ~Full(file[root])
    BY <1>9 DEF BeginInsert, MayInsert
  <2>2. /\ call' \in CallType /\ call' # Closed
        /\ call'.step = "descend" /\ call'.at = root
    BY <1>1, <2>1, CallMade
  <2>3. CallOK'
    BY <1>2, <2>1, <2>2 DEF CallOK, HasRoom
  <2> QED BY <1>2, <2>2, <2>3, QuietStep
<1>10. CASE PickHalf
  <2> DEFINE n == file[call.at]
             i == IF call.idx <= Len(n.keys) /\ call.key >= n.keys[call.idx]
                  THEN call.idx + 1 ELSE call.idx
  <2>1. /\ call.op = "insert" /\ call.step = "pick"
        /\ call' = Inserting("descend", call.key, call.val, n.kids[i], 0)
    BY <1>10 DEF PickHalf, Continue
  <2>2. call.key \in Key /\ call.val \in Value /\ call.at \in Ids /\ call.idx \in Nat
    BY <1>1, <2>1, InsertFields
  <2>3. /\ n # NoFile /\ ~n.leaf /\ call.idx \in 1 .. Len(n.keys)
        /\ \A j \in {call.idx, call.idx + 1} : file[n.kids[j]] # NoFile /\ ~Full(file[n.kids[j]])
    BY <1>1, <1>2, <2>1 DEF CallOK, HasRoom
  <2>4. i \in {call.idx, call.idx + 1} /\ i \in 1 .. Len(n.keys) + 1
    BY <1>3, <2>2, <2>3
  <2>5. n.kids[i] \in Ids /\ file[n.kids[i]] # NoFile /\ ~Full(file[n.kids[i]])
    BY <1>4, <2>2, <2>3, <2>4
  <2> HIDE DEF n, i
  <2>6. /\ call' \in CallType /\ call' # Closed
        /\ call'.step = "descend" /\ call'.at = n.kids[i]
    BY <2>1, <2>2, <2>5, CallMade
  <2>7. CallOK'
    BY <1>2, <2>5, <2>6 DEF CallOK, HasRoom
  <2> QED BY <1>2, <2>6, <2>7, QuietStep
<1>11. CASE DescendInsert
  <2> DEFINE n == file[call.at]
             i == ChildIndex(n, call.key)
             c == n.kids[i]
  <2>1. /\ call.op = "insert" /\ call.step = "descend" /\ n # NoFile /\ ~n.leaf
        /\ file[c] # NoFile
        /\ call' = IF Full(file[c])
                   THEN Inserting("split", call.key, call.val, call.at, i)
                   ELSE Inserting("descend", call.key, call.val, c, 0)
    BY <1>11 DEF DescendInsert, Continue
  <2>2. call.key \in Key /\ call.val \in Value /\ call.at \in Ids
    BY <1>1, <2>1, InsertFields
  <2>3. i \in 1 .. Len(n.keys) + 1 /\ i \in Nat /\ c \in Ids
    BY <1>3, <1>4, <2>1, <2>2
  <2>4. ~Full(n)
    BY <1>1, <1>2, <2>1 DEF CallOK, HasRoom
  <2>5. CASE Full(file[c])
    <3> HIDE DEF i
    <3>1. /\ call' \in CallType /\ call' # Closed /\ call'.step = "split"
          /\ call'.at = call.at /\ call'.idx = i
      BY <2>1, <2>2, <2>3, <2>5, CallMade
    <3>2. CallOK'
      BY <1>2, <2>1, <2>3, <2>4, <2>5, <3>1 DEF CallOK, HasRoom
    <3> QED BY <1>2, <3>1, <3>2, QuietStep
  <2>6. CASE ~Full(file[c])
    <3> HIDE DEF n, c
    <3>1. /\ call' \in CallType /\ call' # Closed
          /\ call'.step = "descend" /\ call'.at = c
      BY <2>1, <2>2, <2>3, <2>6, CallMade
    <3>2. CallOK'
      BY <1>2, <2>1, <2>6, <3>1 DEF CallOK, HasRoom
    <3> QED BY <1>2, <3>1, <3>2, QuietStep
  <2> QED BY <2>5, <2>6
<1> QED BY <1>5, <1>6, <1>7, <1>8, <1>9, <1>10, <1>11
----------------------------------------------------------------------------
(* The step that writes a leaf, and ends the call. *)
LEMMA LeafStep ==
  ASSUME Inv, InsertIntoLeaf \/ RemoveFromLeaf
  PROVE  Inv'
<1>1. /\ TypeOK /\ PendOK /\ IdsOK /\ Narrow /\ CallOK
      /\ file \in [Ids -> Node \cup {NoFile}] /\ MaxKeys \in Nat
  BY NodeSizes DEF Inv, TypeOK
<1>2. /\ UNCHANGED <<meta, root, next, pend>> /\ pend = <<>> /\ Now = file /\ Ready
      /\ call' = None /\ file[call.at] # NoFile /\ file[call.at].leaf
      /\ call.at \in Ids /\ call.key \in Key
  BY <1>1, InsertFields, RemoveFields DEF InsertIntoLeaf, RemoveFromLeaf, Now, Ready
<1>3. /\ file[call.at] \in Node
      /\ Len(file[call.at].keys) \in Nat /\ Len(file[call.at].keys) <= MaxKeys
  BY <1>1, <1>2, KeysOfNode DEF Narrow
<1>4. PICK n \in Node : /\ file' = [file EXCEPT ![call.at] = n]
                        /\ Len(n.keys) <= MaxKeys
  <2>1. CASE InsertIntoLeaf
    <3> DEFINE w == WithEntry(file[call.at], call.key, call.val)
    <3>1. call.op = "insert" /\ call.step = "descend" /\ file' = [file EXCEPT ![call.at] = w]
      BY <2>1 DEF InsertIntoLeaf
    <3>2. w \in Node /\ Len(w.keys) = Len(file[call.at].keys) + 1
      BY <1>1, <1>2, <1>3, <3>1, InsertFields, WithEntryNode
    <3>3. Len(file[call.at].keys) # MaxKeys
      BY <1>1, <1>2, <3>1 DEF CallOK, HasRoom, Full
    <3> HIDE DEF w
    <3>4. Len(w.keys) <= MaxKeys
      BY <1>1, <1>3, <3>2, <3>3
    <3> QED BY <3>1, <3>2, <3>4, Zenon
  <2>2. CASE RemoveFromLeaf /\ HasKey(file[call.at], call.key)
    <3> DEFINE w == WithoutEntry(file[call.at], call.key)
    <3>1. file' = [file EXCEPT ![call.at] = w]
      BY <2>2 DEF RemoveFromLeaf
    <3>2. w \in Node /\ Len(w.keys) = Len(file[call.at].keys) - 1
      BY <1>2, <1>3, <2>2, WithoutEntryNode
    <3> HIDE DEF w
    <3>3. Len(w.keys) <= MaxKeys
      BY <1>1, <1>3, <3>2
    <3> QED BY <3>1, <3>2, <3>3, Zenon
  <2>3. CASE RemoveFromLeaf /\ ~HasKey(file[call.at], call.key)
    <3>1. file' = file
      BY <2>3 DEF RemoveFromLeaf
    <3>2. file' = [file EXCEPT ![call.at] = file[call.at]]
      BY <1>1, <3>1
    <3> QED BY <1>3, <3>2
  <2> QED BY <2>1, <2>2, <2>3
<1>5. \A i \in Ids : /\ file'[i] # NoFile <=> file[i] # NoFile
                     /\ file'[i] = IF i = call.at THEN n ELSE file[i]
  BY <1>1, <1>2, <1>4, NoFileIsNoContent
<1>6. TypeOK'
  BY <1>1, <1>2, <1>4, CallMade DEF TypeOK
<1>7. PendOK'
  BY <1>2 DEF PendOK
<1>8. IdsOK'
  <2>1. 0 \in Ids
    BY Bounds DEF Ids
  <2> QED BY <1>1, <1>2, <1>5, <2>1 DEF IdsOK
<1>9. Narrow'
  BY <1>1, <1>4, <1>5 DEF Narrow
<1>10. CallOK'
  BY <1>2, CallMade DEF CallOK
<1> QED BY <1>6, <1>7, <1>8, <1>9, <1>10 DEF Inv

(* Growing the root: the new root has a child, no keys, and thus room. *)
LEMMA GrowStep ==
  ASSUME Inv, NEW k \in Key, NEW v \in Value, GrowRoot(k, v)
  PROVE  Inv'
<1>1. /\ TypeOK /\ PendOK /\ IdsOK /\ Narrow /\ CallOK
      /\ root \in Ids /\ next \in Nat /\ MaxKeys \in Nat /\ MaxKeys > 0
  BY NodeSizes DEF Inv, TypeOK
<1>2. /\ UNCHANGED <<file, meta>> /\ pend = <<>> /\ Now = file
      /\ root' = next /\ next' = next + 1 /\ file[root] # NoFile /\ Full(file[root])
      /\ next + Headroom <= MaxNodeId
      /\ pend' = <<MetaWrite(root, next + 1), NodeWrite(next, NewRoot(root)),
                   MetaWrite(next, next + 1)>>
      /\ call' = Inserting("splitRoot", k, v, next, 1)
  BY DEF GrowRoot, MayInsert, Idle, Now, Ready, GrowWrites
<1>3. next \in Ids /\ root < next /\ file[0] # NoFile
  BY <1>1, <1>2, Bounds DEF Ids, IdsOK
<1> DEFINE m1 == MetaWrite(root, next + 1)
           new == NodeWrite(next, NewRoot(root))
           m2 == MetaWrite(next, next + 1)
<1>4. /\ NewRoot(root) \in Node /\ ~NewRoot(root).leaf /\ NewRoot(root) # NoFile
      /\ Len(NewRoot(root).keys) = 0 /\ NewRoot(root).kids = <<root>>
  BY <1>1, FreshNodes, NoFileIsNoContent
<1>5. /\ m1 \in Write /\ m1.to = MetaFile /\ m1.data.next = next + 1
      /\ m2 \in Write /\ m2.to = MetaFile /\ m2.data.next = next + 1
      /\ new \in Write /\ new.to = next /\ new.data = NewRoot(root)
      /\ MetaFile # next /\ MetaFile # root
  BY <1>1, <1>3, <1>4, WritesMade
<1> HIDE DEF m1, new, m2
<1>6. /\ pend' \in Seq(Write) /\ pend' # <<>> /\ Len(pend') = 3
      /\ pend'[1] = m1 /\ pend'[2] = new /\ pend'[3] = m2
  <2>1. pend' = <<m1, new, m2>>
    BY <1>2 DEF m1, new, m2
  <2> QED BY <1>5, <2>1
<1>7. \A j \in 1 .. Len(pend') : j = 1 \/ j = 2 \/ j = 3
  BY <1>6
<1>8. /\ call' \in CallType /\ call' # Closed
      /\ call'.step = "splitRoot" /\ call'.at = next /\ call'.idx = 1
  BY <1>2, <1>3, CallMade
<1>9. TypeOK'
  BY <1>1, <1>2, <1>3, <1>6, <1>8 DEF TypeOK
<1>10. PendOK'
  <2>1. ASSUME NEW j \in 1 .. Len(pend')
        PROVE  /\ \A i \in 1 .. Len(pend') :
                    pend'[i].to = pend'[j].to => i = j \/ pend'[j].to = MetaFile
               /\ pend'[j].to = MetaFile => pend'[j].data.next = next + 1
               /\ pend'[j].to # MetaFile =>
                    Len(pend'[j].data.keys) <= MaxKeys /\ pend'[j].to < next + 1
    BY <1>1, <1>4, <1>5, <1>6, <1>7
  <2> QED BY <1>2, <1>3, <1>5, <1>6, <2>1 DEF PendOK
<1>11. IdsOK'
  BY <1>1, <1>2 DEF IdsOK, Ids, TypeOK, Meta
<1>12. Narrow'
  BY <1>1, <1>2 DEF Narrow
<1>13. CallOK'
  <2>1. Now'[next] = NewRoot(root)
    <3>1. 2 \in 1 .. Len(pend') /\ \A i \in 1 .. Len(pend') : pend'[i].to = next => i = 2
      BY <1>5, <1>6, <1>7
    <3> QED BY <1>3, <1>5, <1>6, <3>1, MadeWrite, NowIsMade
  <2>2. Now'[root] = file[root]
    <3>1. \A j \in 1 .. Len(pend') : pend'[j].to # root
      BY <1>1, <1>3, <1>5, <1>6, <1>7
    <3> QED BY <1>1, <1>2, <3>1, MadeElsewhere, NowIsMade
  <2>3. NewRoot(root).kids[1] = root /\ ~Full(NewRoot(root)) /\ 1 \in 1 .. 0 + 1
    BY <1>1, <1>4 DEF Full
  <2> QED BY <1>2, <1>4, <1>8, <2>1, <2>2, <2>3 DEF CallOK, HasRoom
<1> QED BY <1>9, <1>10, <1>11, <1>12, <1>13 DEF Inv

(* split_child: the parent and the two halves are three different nodes,   *)
(* because the parent had room, the child had none, and the right half is  *)
(* new.                                                                    *)
LEMMA SplitStep ==
  ASSUME Inv, SplitChild
  PROVE  Inv'
<1> DEFINE p == call.at
           l == file[p].kids[call.idx]
           n == file[l]
           parent == WithChild(file[p], call.idx, Separator(n), next)
           left == LeftHalf(n, next)
           right == RightHalf(n)
<1>1. /\ TypeOK /\ PendOK /\ IdsOK /\ Narrow /\ CallOK
      /\ next \in Nat /\ root \in Ids /\ MaxKeys \in Nat /\ MaxKeys > 1
  BY NodeSizes DEF Inv, TypeOK
<1>2. /\ UNCHANGED <<file, meta, root>> /\ pend = <<>> /\ Now = file
      /\ call.op = "insert" /\ call.step \in {"split", "splitRoot"}
      /\ next <= MaxNodeId /\ next' = next + 1
      /\ pend' = <<MetaWrite(root, next + 1), NodeWrite(p, parent), NodeWrite(l, left),
                   NodeWrite(next, right)>>
      /\ call' = Inserting(IF call.step = "splitRoot" THEN "descend" ELSE "pick",
                           call.key, call.val, p, call.idx)
  BY DEF SplitChild, SplitWrites, Continue, Now, Ready
<1>3. /\ p \in Ids /\ call.key \in Key /\ call.val \in Value /\ call.idx \in Nat
  BY <1>1, <1>2, InsertFields
<1>4. /\ file[p] # NoFile /\ ~Full(file[p]) /\ ~file[p].leaf
      /\ call.idx \in 1 .. Len(file[p].keys) + 1
      /\ n # NoFile /\ Full(n)
      /\ call.step = "splitRoot" => Len(file[p].keys) = 0
  BY <1>1, <1>2 DEF CallOK, HasRoom
<1>5. /\ file[p] \in Node /\ Len(file[p].keys) \in Nat
      /\ Len(file[p].keys) < MaxKeys /\ p < next
  BY <1>1, <1>2, <1>3, <1>4, NowType, KeysOfNode DEF Full
<1>6. l \in Ids
  BY <1>4, <1>5, InnerParts, ElementOfSeq
<1>7. n \in Node /\ l < next /\ l # p /\ next \in Ids /\ next # p /\ next # l
  <2>1. n \in Node /\ l < next
    BY <1>2, <1>4, <1>6, NowType
  <2>2. next \in Ids
    BY <1>1, <1>2, Bounds DEF Ids
  <2> QED BY <1>1, <1>3, <1>4, <1>5, <1>6, <2>1, <2>2 DEF Ids
<1>8. /\ left \in Node /\ Len(left.keys) < MaxKeys
      /\ right \in Node /\ Len(right.keys) < MaxKeys
      /\ Separator(n) \in Key
  BY <1>4, <1>7, Halves
<1>9. /\ parent \in Node /\ ~parent.leaf /\ Len(parent.keys) = Len(file[p].keys) + 1
      /\ parent.kids[call.idx] = l /\ parent.kids[call.idx + 1] = next
  <2> DEFINE i == call.idx
             s == Separator(n)
  <2>1. file[p] \in Node /\ ~file[p].leaf /\ i \in 1 .. Len(file[p].keys) + 1 /\ s \in Key
    BY <1>4, <1>5, <1>8
  <2>2. parent = WithChild(file[p], i, s, next) /\ l = file[p].kids[i] /\ next \in Ids
    BY <1>7
  <2> HIDE DEF i, s, p, l, n, parent
  <2>3. /\ parent \in Node /\ ~parent.leaf /\ Len(parent.keys) = Len(file[p].keys) + 1
        /\ parent.kids = InsertAt(file[p].kids, i + 1, next)
    BY <2>1, <2>2, WithChildNode
  <2>4. /\ InsertAt(file[p].kids, i + 1, next)[i] = l
        /\ InsertAt(file[p].kids, i + 1, next)[i + 1] = next
    BY <2>1, <2>2, WithChildKids
  <2> QED BY <2>3, <2>4 DEF i
<1> HIDE DEF p, l, n, parent, left, right
<1> DEFINE m == MetaWrite(root, next + 1)
           wp == NodeWrite(p, parent)
           wl == NodeWrite(l, left)
           wr == NodeWrite(next, right)
<1>10. /\ m \in Write /\ m.to = MetaFile /\ m.data.next = next + 1
       /\ wp \in Write /\ wp.to = p /\ wp.data = parent
       /\ wl \in Write /\ wl.to = l /\ wl.data = left
       /\ wr \in Write /\ wr.to = next /\ wr.data = right
       /\ MetaFile # p /\ MetaFile # l /\ MetaFile # next
  <2>1. next + 1 \in Nat
    BY <1>1
  <2>2. m \in Write /\ m.to = MetaFile /\ m.data.next = next + 1
    BY <1>1, <2>1, WritesMade
  <2>3. wp \in Write /\ wp.to = p /\ wp.data = parent
    BY <1>3, <1>9, WritesMade
  <2>4. wl \in Write /\ wl.to = l /\ wl.data = left
    BY <1>6, <1>8, WritesMade
  <2>5. wr \in Write /\ wr.to = next /\ wr.data = right
    BY <1>7, <1>8, WritesMade
  <2>6. MetaFile # p /\ MetaFile # l /\ MetaFile # next
    BY <1>3, <1>6, <1>7, WritesMade
  <2> HIDE DEF m, wp, wl, wr
  <2> QED BY <2>2, <2>3, <2>4, <2>5, <2>6
<1> HIDE DEF m, wp, wl, wr
<1>11. /\ pend' \in Seq(Write) /\ pend' # <<>> /\ Len(pend') = 4
       /\ pend'[1] = m /\ pend'[2] = wp /\ pend'[3] = wl /\ pend'[4] = wr
  <2>1. pend' = <<m, wp, wl, wr>>
    BY <1>2 DEF m, wp, wl, wr
  <2> QED BY <1>10, <2>1
<1>12. \A j \in 1 .. Len(pend') : j = 1 \/ j = 2 \/ j = 3 \/ j = 4
  BY <1>11
<1>13. /\ call' \in CallType /\ call' # Closed /\ call'.at = p /\ call'.idx = call.idx
       /\ call'.step = IF call.step = "splitRoot" THEN "descend" ELSE "pick"
  BY <1>2, <1>3, CallMade
<1>14. TypeOK'
  BY <1>1, <1>2, <1>11, <1>13 DEF TypeOK
<1>15. PendOK'
  <2>1. ASSUME NEW j \in 1 .. Len(pend'), NEW i \in 1 .. Len(pend'),
               pend'[i].to = pend'[j].to
        PROVE  i = j
    BY <1>7, <1>10, <1>11, <1>12, <2>1
  <2>2. ASSUME NEW j \in 1 .. Len(pend')
        PROVE  /\ pend'[j].to = MetaFile => pend'[j].data.next = next + 1
               /\ pend'[j].to # MetaFile =>
                    Len(pend'[j].data.keys) <= MaxKeys /\ pend'[j].to < next + 1
    <3>1. CASE j = 1
      BY <1>10, <1>11, <3>1
    <3>2. CASE j = 2
      <4>1. Len(parent.keys) <= MaxKeys /\ p < next + 1
        BY <1>1, <1>3, <1>5, <1>9 DEF Ids
      <4> QED BY <1>10, <1>11, <3>2, <4>1
    <3>3. CASE j = 3
      <4>1. Len(left.keys) <= MaxKeys /\ l < next + 1
        BY <1>1, <1>6, <1>7, <1>8, KeysOfNode DEF Ids
      <4> QED BY <1>10, <1>11, <3>3, <4>1
    <3>4. CASE j = 4
      <4>1. Len(right.keys) <= MaxKeys /\ next < next + 1
        BY <1>1, <1>8, KeysOfNode
      <4> QED BY <1>10, <1>11, <3>4, <4>1
    <3> QED BY <1>12, <3>1, <3>2, <3>3, <3>4
  <2>3. file[0] # NoFile
    BY <1>1, <1>3, <1>4 DEF IdsOK
  <2> QED BY <1>2, <1>10, <1>11, <2>1, <2>2, <2>3 DEF PendOK
<1>16. IdsOK'
  BY <1>1, <1>2 DEF IdsOK, Ids, TypeOK, Meta
<1>17. Narrow'
  BY <1>1, <1>2 DEF Narrow
<1>18. CallOK'
  <2>1. Now'[p] = parent
    <3>1. 2 \in 1 .. Len(pend') /\ \A i \in 1 .. Len(pend') : pend'[i].to = p => i = 2
      BY <1>7, <1>10, <1>11, <1>12
    <3>2. p \in Ids
      BY <1>3
    <3> QED BY <1>10, <1>11, <3>1, <3>2, MadeWrite, NowIsMade
  <2>2. Now'[l] = left
    <3>1. /\ 3 \in 1 .. Len(pend') /\ pend'[3].to = l /\ pend'[3].data = left
          /\ \A i \in 1 .. Len(pend') : pend'[i].to = pend'[3].to => i = 3
      BY <1>7, <1>10, <1>11, <1>12
    <3>2. Made(file', pend')[pend'[3].to] = pend'[3].data
      BY <1>6, <1>11, <3>1, MadeWrite
    <3> QED BY <1>11, <3>1, <3>2, NowIsMade
  <2>3. Now'[next] = right
    <3>1. 4 \in 1 .. Len(pend') /\ \A i \in 1 .. Len(pend') : pend'[i].to = next => i = 4
      BY <1>7, <1>10, <1>11, <1>12
    <3> QED BY <1>7, <1>10, <1>11, <3>1, MadeWrite, NowIsMade
  <2>4. parent # NoFile /\ left # NoFile /\ right # NoFile /\ ~Full(left) /\ ~Full(right)
    BY <1>1, <1>8, <1>9, NoFileIsNoContent, KeysOfNode DEF Full
  <2>5. CASE call.step = "splitRoot"
    <3>1. ~Full(parent)
      BY <1>1, <1>4, <1>9, <2>5 DEF Full, n, p
    <3> QED BY <1>13, <2>1, <2>4, <2>5, <3>1 DEF CallOK, HasRoom
  <2>6. CASE call.step = "split"
    <3>1. call.idx \in 1 .. Len(parent.keys)
      BY <1>4, <1>5, <1>9
    <3> QED BY <1>9, <1>13, <2>1, <2>2, <2>3, <2>4, <2>6, <3>1 DEF CallOK, HasRoom
  <2> QED BY <1>2, <2>5, <2>6
<1> QED BY <1>14, <1>15, <1>16, <1>17, <1>18 DEF Inv
----------------------------------------------------------------------------
LEMMA InvStep == Inv /\ [Step]_vars => Inv'
<1> SUFFICES ASSUME Inv, [Step]_vars PROVE Inv'
  OBVIOUS
<1>1. CASE WriteFile
  BY <1>1, WriteStep
<1>2. CASE SplitChild
  BY <1>2, SplitStep
<1>3. CASE InsertIntoLeaf \/ RemoveFromLeaf
  BY <1>3, LeafStep
<1>4. CASE Close \/ PickHalf \/ DescendInsert \/ DescendRemove \/ CallThrows
  BY <1>4, WalkStep
<1>5. CASE OpenExisting \/ OpenFresh \/ OpenInferring
  BY <1>5, OpenStep
<1>6. ASSUME NEW k \in Key, BeginRemove(k) PROVE Inv'
  BY <1>6, WalkStep
<1>7. ASSUME NEW k \in Key, NEW v \in Value, BeginInsert(k, v) PROVE Inv'
  BY <1>7, WalkStep
<1>8. ASSUME NEW k \in Key, NEW v \in Value, GrowRoot(k, v) PROVE Inv'
  BY <1>8, GrowStep
<1>9. CASE MetadataAbsent
  <2>1. /\ UNCHANGED <<file, root, next, call, pend>> /\ call = Closed
        /\ meta' = NoFile /\ pend = <<>>
    BY <1>9 DEF MetadataAbsent, Inv, CallOK, Ready
  <2>2. TypeOK'
    BY <2>1 DEF Inv, TypeOK
  <2>3. PendOK'
    BY <2>1 DEF PendOK
  <2>4. IdsOK' /\ Narrow'
    BY <2>1 DEF Inv, IdsOK, Narrow
  <2>5. CallOK'
    BY <2>1, CallMade DEF CallOK, Ready
  <2> QED BY <2>2, <2>3, <2>4, <2>5 DEF Inv
<1>10. CASE Crash
  <2>1. UNCHANGED <<file, meta, root, next>> /\ call' = Closed /\ pend' = <<>>
    BY <1>10 DEF Crash
  <2>2. TypeOK'
    BY <2>1, CallMade DEF Inv, TypeOK
  <2>3. PendOK'
    BY <2>1 DEF PendOK
  <2>4. IdsOK' /\ Narrow'
    BY <2>1 DEF Inv, IdsOK, Narrow
  <2>5. CallOK'
    BY <2>1, CallMade DEF CallOK, Ready
  <2> QED BY <2>2, <2>3, <2>4, <2>5 DEF Inv
<1>11. CASE UNCHANGED vars
  <2>1. UNCHANGED <<file, meta, root, next, call, pend>> /\ CallOK
    BY <1>11 DEF vars, Inv
  <2>2. Now' = Now /\ Ready' = Ready
    BY <2>1, Quiet
  <2>3. CallOK'
    BY <2>1, <2>2 DEF CallOK, HasRoom
  <2>4. call' \in CallType
    BY <2>1 DEF Inv, TypeOK
  <2> QED BY <2>1, <2>3, <2>4, QuietStep
<1> QED
  BY <1>1, <1>2, <1>3, <1>4, <1>5, <1>6, <1>7, <1>8, <1>9, <1>10, <1>11
  DEF Step, Running, Calls

(* Every behaviour of the tree, killed or not, with or without its         *)
(* metadata file.                                                          *)
AnySpec == Init /\ [][Step]_vars

LEMMA InvAlways == AnySpec => []Inv
BY InvStart, InvStep, PTL DEF AnySpec

LEMMA SpecsAreAny ==
  /\ Spec => AnySpec
  /\ CrashSpec => AnySpec
<1>1. [Next]_vars => [Step]_vars
  BY DEF Next, Step
<1>2. [Running \/ Calls \/ Crash]_vars => [Step]_vars
  BY DEF Step
<1> QED BY <1>1, <1>2, PTL DEF Spec, CrashSpec, AnySpec

(* Files, metadata, the running call and the writes it has still to make   *)
(* keep their types: every walk stays among node ids, every leaf holds one *)
(* value for each key, every inner node one child more than keys, in       *)
(* whatever state a kill has left the directory.                           *)
THEOREM TypeCorrect == AnySpec => []TypeOK
<1>1. Inv => TypeOK
  BY DEF Inv
<1> QED BY <1>1, InvAlways, PTL

(* No node file is ever written with more than BTREE_MAX_KEYS keys, which  *)
(* is what keys[BTREE_MAX_KEYS] and children[BTREE_MAX_KEYS + 1] have      *)
(* space for: an insert only stands at nodes with room (b_tree.cpp:134,    *)
(* :305), and splitting a full child makes two halves with room.     *)
THEOREM ArraysHold == AnySpec => []NoOverflow
<1>1. Inv => NoOverflow
  BY NowType DEF NoOverflow
<1> QED BY <1>1, InvAlways, PTL

(* allocate_node saves the next id before the node is written, so that no  *)
(* crash, and no inference of the metadata from the files, makes the tree  *)
(* hand out the id of an existing node a second time.                      *)
THEOREM IdsAreNew == AnySpec => NoFileReplaced
<1>1. Inv /\ [Step]_vars => [next' = next + 1 => Now[next] = NoFile]_vars
  <2> SUFFICES ASSUME Inv, Step, next' = next + 1 PROVE Now[next] = NoFile
    OBVIOUS
  <2>1. next \in Nat /\ next # next + 1
    BY DEF Inv, TypeOK
  <2>2. next <= MaxNodeId
    <3>1. CASE OpenExisting \/ OpenFresh \/ OpenInferring
      <4>1. CASE OpenExisting
        BY <2>1, <4>1 DEF OpenExisting, Inv, IdsOK, TypeOK, Meta
      <4>2. CASE OpenFresh
        BY <2>1, <4>2 DEF OpenFresh, Inv, IdsOK
      <4>3. CASE OpenInferring
        <5>1. /\ Files(file) \in SUBSET (0 .. MaxNodeId) /\ Files(file) # {}
              /\ MaxNodeId \in Nat /\ \A i \in Files(file) : i < next
          BY <4>3, Bounds DEF OpenInferring, Files, Ids, Inv, IdsOK
        <5>2. Max(Files(file)) \in Files(file)
          BY <5>1, MaxExists
        <5>3. Max(Files(file)) + 1 = next + 1 /\ Max(Files(file)) < next
          BY <4>3, <5>1, <5>2 DEF OpenInferring, InferNext
        <5> QED BY <2>1, <5>1, <5>2, <5>3
      <4> QED BY <3>1, <4>1, <4>2, <4>3
    <3>2. CASE SplitChild
      BY <3>2 DEF SplitChild
    <3>3. ASSUME NEW k \in Key, NEW v \in Value, GrowRoot(k, v) PROVE next <= MaxNodeId
      BY <2>1, <3>3, Bounds DEF GrowRoot, MayInsert
    <3>4. ASSUME UNCHANGED next PROVE FALSE
      BY <2>1, <3>4
    <3> QED
      BY <3>1, <3>2, <3>3, <3>4 DEF Step, Running, Calls, WriteFile, PickHalf, DescendInsert,
         InsertIntoLeaf, DescendRemove, RemoveFromLeaf, CallThrows, Close, BeginRemove,
         BeginInsert, MetadataAbsent, Crash
  <2>3. next \in Ids
    BY <2>1, <2>2, Bounds DEF Ids
  <2> QED BY <2>1, <2>3, NowType
<1> QED BY <1>1, InvAlways, PTL DEF AnySpec, NoFileReplaced

(* What the runs check of the program with and without crashes.            *)
COROLLARY Checked ==
  /\ Spec => []TypeOK
  /\ CrashSpec => []NoOverflow /\ NoFileReplaced
BY TypeCorrect, ArraysHold, IdsAreNew, SpecsAreAny, PTL
=============================================================================
