-------------------------- MODULE BTreeSearchProofs --------------------------
(***************************************************************************)
(* The node files implement the map of IndexCalls: the refinement theorem  *)
(* of the B+ tree for workloads whose splits stay at the right edge, for   *)
(* every node size, set of keys and values, and number of node files.      *)
(*                                                                         *)
(* The argument is about the span of every node: the keys whose search     *)
(* comes by it.  Spans are no state of the program either; the invariant   *)
(* says that there is a function that gives them, that the keys of every   *)
(* node lie in its span in ascending order, and that the call in progress  *)
(* stands at a node whose span holds its key.  Nodes on one level have     *)
(* disjoint spans, so a search finds a stored pair wherever it is.         *)
(***************************************************************************)
EXTENDS BTreeLevelProofs

----------------------------------------------------------------------------
(***************************************************************************)
(* The routes of searches: span[i] is the set of the keys whose search     *)
(* comes by node i.  It holds the keys in the node, which ascend, and is   *)
(* parted among the children by the keys between them.                     *)
(***************************************************************************)
KeyAt(f, i, j) == f[i].keys[j]

(* The child of node i that a search for k goes to is number c. *)
Goes(f, i, k, c) ==
  /\ \A j \in 1 .. c - 1 : KeyAt(f, i, j) <= k
  /\ c <= Load(f, i) => k < KeyAt(f, i, c)

Ascending(f, i, s) ==
  /\ Load(f, i) \in Nat
  /\ \A j \in 1 .. Load(f, i) : KeyAt(f, i, j) \in s
  /\ \A a, b \in 1 .. Load(f, i) : a < b => KeyAt(f, i, a) < KeyAt(f, i, b)

Parted(f, i, span) ==
  \A c \in 1 .. Degree(f, i), k \in Key :
    k \in span[Kid(f, i, c)] <=> k \in span[i] /\ Goes(f, i, k, c)

Routed(f, r, span) ==
  /\ span \in [Ids -> SUBSET Key]
  /\ r \in Ids /\ span[r] = Key
  /\ \A i \in Ids : There(f, i) => Ascending(f, i, span[i])
  /\ \A i \in Ids : InnerFile(f, i) => Degree(f, i) = Load(f, i) + 1 /\ Parted(f, i, span)

(* A search goes to one child only. *)
LEMMA GoesOnce ==
  ASSUME NEW f, NEW i, NEW s \in SUBSET Key, Ascending(f, i, s), NEW k \in Key,
         NEW c \in 1 .. Load(f, i) + 1, Goes(f, i, k, c),
         NEW d \in 1 .. Load(f, i) + 1, Goes(f, i, k, d)
  PROVE  c = d
<1>1. Load(f, i) \in Nat /\ k \in Nat /\ \A j \in 1 .. Load(f, i) : KeyAt(f, i, j) \in Nat
  BY KeysAreNumbers DEF Ascending
<1>2. ASSUME NEW a \in 1 .. Load(f, i) + 1, Goes(f, i, k, a),
             NEW b \in 1 .. Load(f, i) + 1, Goes(f, i, k, b), a < b
      PROVE  FALSE
  <2>1. a \in 1 .. b - 1 /\ a \in 1 .. Load(f, i) /\ a <= Load(f, i)
    BY <1>1, <1>2
  <2>2. KeyAt(f, i, a) <= k /\ k < KeyAt(f, i, a)
    BY <1>2, <2>1 DEF Goes
  <2> QED BY <1>1, <2>1, <2>2
<1>3. ~(c < d) /\ ~(d < c)
  BY <1>2
<1> QED BY <1>1, <1>3

(* The child that the code goes to. *)
LEMMA CodeGoes ==
  ASSUME NEW f, NEW i, f[i] \in Node, NEW k \in Key
  PROVE  /\ ChildIndex(f[i], k) \in 1 .. Load(f, i) + 1
         /\ Goes(f, i, k, ChildIndex(f[i], k))
<1>1. f[i].keys \in Seq(Key)
  BY KeysOfNode
<1> QED BY <1>1, ChildIndexStops DEF Goes, Load, KeyAt

(* g is f after the last child l of p has been split into l and n: what    *)
(* becomes of the keys.                                                    *)
SplitKeys(f, g, n, p, l) ==
  /\ MinKeys \in Nat \ {0} /\ Load(f, l) = 2 * MinKeys + 1
  /\ \A j \in Ids \ {p, l, n}, c \in Nat : KeyAt(g, j, c) = KeyAt(f, j, c)
  /\ \A c \in 1 .. Load(f, p) : KeyAt(g, p, c) = KeyAt(f, p, c)
  /\ KeyAt(g, p, Load(f, p) + 1) = KeyAt(f, l, MinKeys + 1)
  /\ Load(g, l) = MinKeys
  /\ \A c \in 1 .. MinKeys : KeyAt(g, l, c) = KeyAt(f, l, c)
  /\ Load(g, n) = IF LeafFile(f, l) THEN MinKeys + 1 ELSE MinKeys
  /\ \A c \in 1 .. Load(g, n) :
       KeyAt(g, n, c) = KeyAt(f, l, (IF LeafFile(f, l) THEN MinKeys ELSE MinKeys + 1) + c)

SplitSpan(f, span, n, l) ==
  [x \in Ids |-> IF x = n THEN {k \in span[l] : KeyAt(f, l, MinKeys + 1) <= k}
                 ELSE IF x = l THEN {k \in span[l] : k < KeyAt(f, l, MinKeys + 1)}
                 ELSE span[x]]

(* The separator parts what goes to the last child. *)
LEMMA ParentParts ==
  ASSUME NEW f, NEW g, NEW p, NEW s, s \in Nat, Load(f, p) \in Nat,
         Load(g, p) = Load(f, p) + 1,
         \A c \in 1 .. Load(f, p) : KeyAt(g, p, c) = KeyAt(f, p, c),
         KeyAt(g, p, Load(f, p) + 1) = s, NEW k \in Nat
  PROVE  /\ \A c \in 1 .. Load(f, p) : Goes(g, p, k, c) <=> Goes(f, p, k, c)
         /\ Goes(g, p, k, Load(f, p) + 1) <=> Goes(f, p, k, Load(f, p) + 1) /\ k < s
         /\ Goes(g, p, k, Load(f, p) + 2) <=> Goes(f, p, k, Load(f, p) + 1) /\ s <= k
<1> DEFINE m == Load(f, p)
<1>1. m \in Nat /\ Load(g, p) = m + 1
  OBVIOUS
<1> HIDE DEF m
<1>2. /\ \A c \in 1 .. m : KeyAt(g, p, c) = KeyAt(f, p, c)
      /\ KeyAt(g, p, m + 1) = s
  BY DEF m
<1>3. ASSUME NEW c \in 1 .. m PROVE Goes(g, p, k, c) <=> Goes(f, p, k, c)
  <2>1. /\ c <= Load(g, p) /\ c <= Load(f, p) /\ \A j \in 1 .. c - 1 : j \in 1 .. m
    BY <1>1 DEF m
  <2> QED BY <1>2, <2>1 DEF Goes
<1>4. Goes(f, p, k, m + 1) <=> \A j \in 1 .. m : KeyAt(f, p, j) <= k
  <2>1. (m + 1) - 1 = m /\ ~(m + 1 <= Load(f, p))
    BY <1>1 DEF m
  <2> QED BY <2>1 DEF Goes
<1>5. Goes(g, p, k, m + 1) <=> (\A j \in 1 .. m : KeyAt(f, p, j) <= k) /\ k < s
  <2>1. (m + 1) - 1 = m /\ m + 1 <= Load(g, p)
    BY <1>1
  <2> QED BY <1>2, <2>1 DEF Goes
<1>6. Goes(g, p, k, m + 2) <=> (\A j \in 1 .. m : KeyAt(f, p, j) <= k) /\ s <= k
  <2>1. (m + 2) - 1 = m + 1 /\ ~(m + 2 <= Load(g, p))
    BY <1>1
  <2>2. \A j \in 1 .. m + 1 : j \in 1 .. m \/ j = m + 1
    BY <1>1
  <2>3. m + 1 \in 1 .. m + 1 /\ \A j \in 1 .. m : j \in 1 .. m + 1
    BY <1>1
  <2> QED BY <1>2, <2>1, <2>2, <2>3 DEF Goes
<1> QED BY <1>3, <1>4, <1>5, <1>6 DEF m

(* The left half keeps the children before the separator. *)
LEMMA LeftParts ==
  ASSUME NEW f, NEW g, NEW l, NEW t, t \in SUBSET Key, Ascending(f, l, t), NEW k \in Key,
         MinKeys \in Nat \ {0}, Load(f, l) = 2 * MinKeys + 1, Load(g, l) = MinKeys,
         \A c \in 1 .. MinKeys : KeyAt(g, l, c) = KeyAt(f, l, c),
         NEW c \in 1 .. MinKeys + 1
  PROVE  Goes(f, l, k, c) <=> Goes(g, l, k, c) /\ k < KeyAt(f, l, MinKeys + 1)
<1> DEFINE s == KeyAt(f, l, MinKeys + 1)
<1>1. /\ k \in Nat /\ s \in Nat /\ \A j \in 1 .. MinKeys : KeyAt(f, l, j) \in Nat /\ KeyAt(f, l, j) < s
  <2>1. MinKeys + 1 \in 1 .. Load(f, l) /\ \A j \in 1 .. MinKeys : j \in 1 .. Load(f, l) /\ j < MinKeys + 1
    OBVIOUS
  <2> QED BY <2>1, KeysAreNumbers DEF Ascending
<1>2. CASE c = MinKeys + 1
  <2>1. (MinKeys + 1) - 1 = MinKeys /\ MinKeys + 1 <= Load(f, l) /\ ~(MinKeys + 1 <= Load(g, l))
    OBVIOUS
  <2>2. Goes(f, l, k, MinKeys + 1) <=> (\A j \in 1 .. MinKeys : KeyAt(f, l, j) <= k) /\ k < s
    BY <2>1 DEF Goes
  <2>3. Goes(g, l, k, MinKeys + 1) <=> \A j \in 1 .. MinKeys : KeyAt(f, l, j) <= k
    BY <2>1 DEF Goes
  <2> QED BY <1>2, <2>2, <2>3
<1>3. CASE c # MinKeys + 1
  <2>1. c \in 1 .. MinKeys /\ c <= Load(f, l) /\ c <= Load(g, l)
        /\ \A j \in 1 .. c - 1 : j \in 1 .. MinKeys
    BY <1>3
  <2>2. KeyAt(g, l, c) = KeyAt(f, l, c) /\ \A j \in 1 .. c - 1 : KeyAt(g, l, j) = KeyAt(f, l, j)
    BY <2>1
  <2>3. Goes(f, l, k, c) <=> Goes(g, l, k, c)
    BY <2>1, <2>2 DEF Goes
  <2>4. Goes(f, l, k, c) => k < KeyAt(f, l, c)
    BY <2>1 DEF Goes
  <2>5. KeyAt(f, l, c) \in Nat /\ KeyAt(f, l, c) < s
    BY <1>1, <2>1
  <2> HIDE DEF s
  <2> QED BY <1>1, <2>3, <2>4, <2>5 DEF s
<1> QED BY <1>2, <1>3

(* The right half takes over the children after it. *)
LEMMA RightParts ==
  ASSUME NEW f, NEW g, NEW l, NEW n, NEW t, t \in SUBSET Key, Ascending(f, l, t), NEW k \in Key,
         MinKeys \in Nat \ {0}, Load(f, l) = 2 * MinKeys + 1, Load(g, n) = MinKeys,
         \A c \in 1 .. MinKeys : KeyAt(g, n, c) = KeyAt(f, l, MinKeys + 1 + c),
         NEW c \in 1 .. MinKeys + 1
  PROVE  Goes(f, l, k, MinKeys + 1 + c) <=> Goes(g, n, k, c) /\ KeyAt(f, l, MinKeys + 1) <= k
<1> DEFINE s == KeyAt(f, l, MinKeys + 1)
           d == MinKeys + 1 + c
<1>1. /\ k \in Nat /\ s \in Nat
      /\ \A j \in 1 .. MinKeys : KeyAt(f, l, j) \in Nat /\ KeyAt(f, l, j) < s
  <2>1. /\ MinKeys + 1 \in 1 .. Load(f, l)
        /\ \A j \in 1 .. MinKeys : j \in 1 .. Load(f, l) /\ j < MinKeys + 1
    OBVIOUS
  <2> QED BY <2>1, KeysAreNumbers DEF Ascending
<1>2. /\ d \in Nat /\ d - 1 = MinKeys + c
      /\ d <= Load(f, l) <=> c <= MinKeys
      /\ \A j \in 1 .. c - 1 : j \in 1 .. MinKeys /\ MinKeys + 1 + j \in 1 .. d - 1
      /\ MinKeys + 1 \in 1 .. d - 1
      /\ \A j \in 1 .. d - 1 :
           \/ j \in 1 .. MinKeys \/ j = MinKeys + 1
           \/ j - (MinKeys + 1) \in 1 .. c - 1 /\ MinKeys + 1 + (j - (MinKeys + 1)) = j
  OBVIOUS
<1>3. (\A j \in 1 .. d - 1 : KeyAt(f, l, j) <= k)
        <=> s <= k /\ \A j \in 1 .. c - 1 : KeyAt(g, n, j) <= k
  <2>1. ASSUME \A j \in 1 .. d - 1 : KeyAt(f, l, j) <= k
        PROVE  s <= k /\ \A j \in 1 .. c - 1 : KeyAt(g, n, j) <= k
    <3> HIDE DEF d
    <3> QED BY <1>2, <2>1
  <2>2. ASSUME s <= k, \A j \in 1 .. c - 1 : KeyAt(g, n, j) <= k, NEW j \in 1 .. d - 1
        PROVE  KeyAt(f, l, j) <= k
    <3> HIDE DEF d
    <3>1. CASE j \in 1 .. MinKeys
      <4>1. KeyAt(f, l, j) \in Nat /\ KeyAt(f, l, j) < s
        BY <1>1, <3>1
      <4> HIDE DEF s
      <4> QED BY <1>1, <2>2, <4>1
    <3>2. CASE j = MinKeys + 1
      BY <2>2, <3>2
    <3>3. CASE j - (MinKeys + 1) \in 1 .. c - 1 /\ MinKeys + 1 + (j - (MinKeys + 1)) = j
      <4> DEFINE e == j - (MinKeys + 1)
      <4>1. e \in 1 .. c - 1 /\ MinKeys + 1 + e = j
        BY <3>3
      <4> HIDE DEF e
      <4>2. KeyAt(g, n, e) = KeyAt(f, l, j) /\ KeyAt(g, n, e) <= k
        BY <1>2, <2>2, <4>1
      <4> QED BY <4>2
    <3> QED BY <1>2, <3>1, <3>2, <3>3
  <2> HIDE DEF d, s
  <2> QED BY <2>1, <2>2
<1>4. c <= MinKeys => KeyAt(g, n, c) = KeyAt(f, l, d)
  <2>1. c <= MinKeys => c \in 1 .. MinKeys
    OBVIOUS
  <2> QED BY <2>1
<1> HIDE DEF d, s
<1>5. Goes(f, l, k, d) <=> (\A j \in 1 .. d - 1 : KeyAt(f, l, j) <= k)
                             /\ (c <= MinKeys => k < KeyAt(f, l, d))
  BY <1>2 DEF Goes
<1>6. Goes(g, n, k, c) <=> (\A j \in 1 .. c - 1 : KeyAt(g, n, j) <= k)
                             /\ (c <= MinKeys => k < KeyAt(f, l, d))
  BY <1>4 DEF Goes
<1>7. Goes(f, l, k, d) <=> Goes(g, n, k, c) /\ s <= k
  BY <1>3, <1>5, <1>6
<1> QED BY <1>7 DEF d, s

(* The keys of the split node stay in their halves, and the separator is   *)
(* above every key of the parent.                                          *)
LEMMA HalvesAscend ==
  ASSUME NEW f, NEW g, NEW n, NEW p, NEW l, SplitKeys(f, g, n, p, l),
         NEW t, t \in SUBSET Key, Ascending(f, l, t)
  PROVE  /\ KeyAt(f, l, MinKeys + 1) \in t
         /\ KeyAt(f, l, 1) \in t /\ KeyAt(f, l, 1) < KeyAt(f, l, MinKeys + 1)
         /\ Ascending(g, l, {k \in t : k < KeyAt(f, l, MinKeys + 1)})
         /\ Ascending(g, n, {k \in t : KeyAt(f, l, MinKeys + 1) <= k})
<1> DEFINE s == KeyAt(f, l, MinKeys + 1)
           o == IF LeafFile(f, l) THEN MinKeys ELSE MinKeys + 1
<1>1. /\ MinKeys \in Nat \ {0} /\ Load(f, l) = 2 * MinKeys + 1 /\ Load(g, l) = MinKeys
      /\ Load(g, n) \in Nat /\ o \in Nat /\ o + Load(g, n) = 2 * MinKeys + 1 /\ MinKeys <= o
      /\ \A c \in 1 .. MinKeys : KeyAt(g, l, c) = KeyAt(f, l, c)
      /\ \A c \in 1 .. Load(g, n) : KeyAt(g, n, c) = KeyAt(f, l, o + c)
  BY DEF SplitKeys
<1> HIDE DEF o
<1>2. /\ MinKeys + 1 \in 1 .. Load(f, l) /\ 1 \in 1 .. Load(f, l) /\ 1 < MinKeys + 1
      /\ \A c \in 1 .. MinKeys : c \in 1 .. Load(f, l) /\ c < MinKeys + 1
      /\ \A c \in 1 .. Load(g, n) :
           o + c \in 1 .. Load(f, l) /\ (o + c = MinKeys + 1 \/ MinKeys + 1 < o + c)
      /\ \A a, b \in 1 .. Load(g, n) : a < b => o + a < o + b
  BY <1>1
<1>3. /\ \A j \in 1 .. Load(f, l) : KeyAt(f, l, j) \in t /\ KeyAt(f, l, j) \in Nat
      /\ \A a, b \in 1 .. Load(f, l) : a < b => KeyAt(f, l, a) < KeyAt(f, l, b)
  BY KeysAreNumbers DEF Ascending
<1>4. s \in t /\ s \in Nat /\ KeyAt(f, l, 1) \in t /\ KeyAt(f, l, 1) < s
  BY <1>2, <1>3
<1>5. \A c \in 1 .. MinKeys : KeyAt(f, l, c) < s
  BY <1>2, <1>3
<1>6. \A c \in 1 .. Load(g, n) : s <= KeyAt(f, l, o + c)
  <2> SUFFICES ASSUME NEW c \in 1 .. Load(g, n) PROVE s <= KeyAt(f, l, o + c)
    OBVIOUS
  <2>1. CASE o + c = MinKeys + 1
    BY <1>4, <2>1
  <2>2. CASE MinKeys + 1 < o + c
    <3>1. s < KeyAt(f, l, o + c) /\ KeyAt(f, l, o + c) \in Nat
      BY <1>2, <1>3, <2>2
    <3> HIDE DEF s
    <3> QED BY <1>4, <3>1
  <2> QED BY <1>2, <2>1, <2>2
<1> HIDE DEF s
<1>7. Ascending(g, l, {k \in t : k < s})
  <2>1. \A j \in 1 .. MinKeys : KeyAt(g, l, j) \in {k \in t : k < s}
    BY <1>1, <1>2, <1>3, <1>5
  <2>2. \A a, b \in 1 .. MinKeys : a < b => KeyAt(g, l, a) < KeyAt(g, l, b)
    BY <1>1, <1>2, <1>3
  <2> QED BY <1>1, <2>1, <2>2 DEF Ascending
<1>8. Ascending(g, n, {k \in t : s <= k})
  <2>1. \A j \in 1 .. Load(g, n) : KeyAt(g, n, j) \in {k \in t : s <= k}
    BY <1>1, <1>2, <1>3, <1>6
  <2>2. \A a, b \in 1 .. Load(g, n) : a < b => KeyAt(g, n, a) < KeyAt(g, n, b)
    BY <1>1, <1>2, <1>3
  <2> QED BY <1>1, <2>1, <2>2 DEF Ascending
<1> QED BY <1>4, <1>7, <1>8 DEF s

(* The keys of the parent stay sorted with the separator added.            *)
LEMMA ParentAscends ==
  ASSUME NEW f, NEW g, NEW n, NEW p, NEW l, NEW i, SplitKeys(f, g, n, p, l),
         NEW t, t \in SUBSET Key, Ascending(f, p, t), Load(g, p) = Load(f, p) + 1,
         KeyAt(f, l, MinKeys + 1) \in t, NEW k \in Nat, k < KeyAt(f, l, MinKeys + 1),
         Goes(f, p, k, Load(f, p) + 1)
  PROVE  Ascending(g, p, t)
<1> DEFINE s == KeyAt(f, l, MinKeys + 1)
           m == Load(f, p)
<1>1. /\ m \in Nat /\ Load(g, p) = m + 1 /\ s \in t /\ s \in Nat /\ k < s
      /\ \A c \in 1 .. m : KeyAt(g, p, c) = KeyAt(f, p, c)
      /\ KeyAt(g, p, m + 1) = s
      /\ \A j \in 1 .. m : KeyAt(f, p, j) \in t /\ KeyAt(f, p, j) \in Nat
      /\ \A a, b \in 1 .. m : a < b => KeyAt(f, p, a) < KeyAt(f, p, b)
  BY KeysAreNumbers DEF Ascending, SplitKeys
<1>2. \A j \in 1 .. m : KeyAt(f, p, j) <= k
  <2>1. (m + 1) - 1 = m
    BY <1>1
  <2> QED BY <2>1 DEF Goes
<1> HIDE DEF s, m
<1>3. \A j \in 1 .. m : KeyAt(f, p, j) < s
  BY <1>1, <1>2
<1>4. \A j \in 1 .. m + 1 : j \in 1 .. m \/ j = m + 1
  BY <1>1
<1>5. \A j \in 1 .. m + 1 : KeyAt(g, p, j) \in t
  BY <1>1, <1>4
<1>6. ASSUME NEW a \in 1 .. m + 1, NEW b \in 1 .. m + 1, a < b
      PROVE  KeyAt(g, p, a) < KeyAt(g, p, b)
  <2>1. a \in 1 .. m /\ (b \in 1 .. m \/ b = m + 1)
    BY <1>1, <1>6
  <2> QED BY <1>1, <1>3, <1>6, <2>1
<1> QED BY <1>1, <1>5, <1>6 DEF Ascending

(* The split of a last child leaves routes.                                *)
LEMMA RoutedSplits ==
  ASSUME NEW f, NEW g, NEW r, NEW span, Routed(f, r, span),
         NEW n, NEW p, NEW l, NEW i, SplitOf(f, g, n, p, l, i), SplitKeys(f, g, n, p, l),
         HangOnce(f, r, n, p, l, i), i = Degree(f, p)
  PROVE  Routed(g, r, SplitSpan(f, span, n, l))
<1> DEFINE span2 == SplitSpan(f, span, n, l)
           s == KeyAt(f, l, MinKeys + 1)
<1>1. /\ p \in Ids /\ l \in Ids /\ n \in Ids /\ p # l /\ n # p /\ n # l
      /\ InnerFile(f, p) /\ There(f, l) /\ ~There(f, n) /\ There(f, p)
      /\ InnerFile(g, p) /\ There(g, l) /\ There(g, n)
      /\ LeafFile(g, l) <=> LeafFile(f, l)
      /\ LeafFile(g, n) <=> LeafFile(f, l)
      /\ Load(g, p) = Load(f, p) + 1 /\ Degree(g, p) = Degree(f, p) + 1
      /\ Kid(f, p, i) = l /\ Degree(f, p) \in Nat /\ Load(f, p) \in Nat
      /\ i \in 1 .. Degree(f, p)
  BY FileIs DEF SplitOf
<1>2. /\ span \in [Ids -> SUBSET Key] /\ r \in Ids /\ span[r] = Key
      /\ \A j \in Ids : There(f, j) => Ascending(f, j, span[j])
      /\ \A j \in Ids : InnerFile(f, j) => Degree(f, j) = Load(f, j) + 1 /\ Parted(f, j, span)
  BY DEF Routed
<1>3. Ascending(f, l, span[l]) /\ span[l] \in SUBSET Key /\ Ascending(f, p, span[p])
  BY <1>1, <1>2
<1>4. /\ s \in span[l] /\ KeyAt(f, l, 1) \in span[l] /\ KeyAt(f, l, 1) < s
      /\ Ascending(g, l, {k \in span[l] : k < s})
      /\ Ascending(g, n, {k \in span[l] : s <= k})
  BY <1>3, HalvesAscend
<1>5. /\ span2 \in [Ids -> SUBSET Key]
      /\ span2[n] = {k \in span[l] : s <= k} /\ span2[l] = {k \in span[l] : k < s}
      /\ \A x \in Ids \ {n, l} : span2[x] = span[x]
  BY <1>1, <1>2 DEF SplitSpan
<1>6. /\ i = Load(f, p) + 1 /\ Degree(f, p) = Load(f, p) + 1
      /\ \A k \in Key : k \in span[l] <=> k \in span[p] /\ Goes(f, p, k, i)
  BY <1>1, <1>2 DEF Parted
<1>7. span[p] \in SUBSET Key /\ s \in span[p] /\ s \in Nat
      /\ KeyAt(f, l, 1) \in Nat /\ Goes(f, p, KeyAt(f, l, 1), i)
  BY <1>1, <1>2, <1>3, <1>4, <1>6, KeysAreNumbers
<1>8. /\ l # r /\ n # r
      /\ \A j \in Ids : InnerFile(f, j) =>
           \A c \in 1 .. Degree(f, j) :
             /\ Kid(f, j, c) \in Ids \ {n}
             /\ Kid(f, j, c) = l => j = p /\ c = i
  BY DEF HangOnce
<1> HIDE DEF span2, s
<1>9. ASSUME NEW j \in Ids, There(g, j) PROVE Ascending(g, j, span2[j])
  <2>1. CASE j = p
    <3>1. Ascending(g, p, span[p])
      BY <1>1, <1>3, <1>4, <1>6, <1>7, ParentAscends DEF s
    <3> QED BY <1>1, <1>5, <2>1, <3>1
  <2>2. CASE j = l
    BY <1>4, <1>5, <2>2
  <2>3. CASE j = n
    BY <1>4, <1>5, <2>3
  <2>4. CASE j \in Ids \ {p, l, n}
    <3>1. SameNode(f, g, j) /\ \A c \in Nat : KeyAt(g, j, c) = KeyAt(f, j, c)
      BY <2>4 DEF SplitOf, SplitKeys
    <3>2. There(f, j) /\ Load(g, j) = Load(f, j)
      BY <1>9, <3>1, FileIs DEF SameNode
    <3>3. Ascending(f, j, span[j]) /\ span2[j] = span[j] /\ Load(f, j) \in Nat
      BY <1>2, <1>5, <2>4, <3>2 DEF Ascending
    <3>4. \A c \in 1 .. Load(f, j) : c \in Nat
      BY <3>3
    <3> QED BY <3>1, <3>2, <3>3, <3>4 DEF Ascending
  <2> QED BY <2>1, <2>2, <2>3, <2>4
<1>10. Degree(g, p) = Load(g, p) + 1 /\ Parted(g, p, span2)
  <2> DEFINE m == Load(f, p)
  <2>1. Degree(g, p) = m + 2 /\ m \in Nat /\ Load(g, p) + 1 = m + 2 /\ i = m + 1 /\ Degree(f, p) = m + 1
    BY <1>1, <1>6
  <2>2. \A c \in 1 .. m + 2 :
          Kid(g, p, c) = IF c <= m + 1 THEN Kid(f, p, c) ELSE IF c = m + 2 THEN n
                         ELSE Kid(f, p, c - 1)
    BY <2>1 DEF SplitOf
  <2> SUFFICES ASSUME NEW c \in 1 .. m + 2, NEW k \in Key
               PROVE  k \in span2[Kid(g, p, c)] <=> k \in span2[p] /\ Goes(g, p, k, c)
    BY <2>1 DEF Parted
  <2>3. span2[p] = span[p] /\ k \in Nat
    BY <1>1, <1>5, KeysAreNumbers
  <2>4. /\ \A d \in 1 .. m : Goes(g, p, k, d) <=> Goes(f, p, k, d)
        /\ Goes(g, p, k, m + 1) <=> Goes(f, p, k, m + 1) /\ k < s
        /\ Goes(g, p, k, m + 2) <=> Goes(f, p, k, m + 1) /\ s <= k
    <3>1. \A d \in 1 .. Load(f, p) : KeyAt(g, p, d) = KeyAt(f, p, d)
      BY DEF SplitKeys
    <3>2. KeyAt(g, p, Load(f, p) + 1) = s
      BY DEF SplitKeys, s
    <3> QED BY <1>1, <1>7, <2>3, <3>1, <3>2, ParentParts
  <2> HIDE DEF m
  <2>5. CASE c \in 1 .. m
    <3>1. c \in 1 .. m + 1 /\ c <= m + 1 /\ c # m + 1
      BY <2>1, <2>5
    <3>2. Kid(g, p, c) = Kid(f, p, c) /\ Kid(f, p, c) \in Ids \ {n, l}
      BY <1>1, <1>8, <2>1, <2>2, <3>1
    <3>3. k \in span[Kid(f, p, c)] <=> k \in span[p] /\ Goes(f, p, k, c)
      BY <1>1, <1>2, <2>1, <3>1 DEF Parted
    <3> QED BY <1>5, <2>3, <2>4, <2>5, <3>2, <3>3
  <2>6. CASE c = m + 1
    <3>1. Kid(g, p, c) = l
      BY <1>1, <2>1, <2>2, <2>6
    <3> QED BY <1>5, <1>6, <2>1, <2>3, <2>4, <2>6, <3>1
  <2>7. CASE c = m + 2
    <3>1. Kid(g, p, c) = n
      BY <2>1, <2>2, <2>7
    <3> QED BY <1>5, <1>6, <2>1, <2>3, <2>4, <2>7, <3>1
  <2> QED BY <2>1, <2>5, <2>6, <2>7
<1>11. ASSUME InnerFile(f, l)
       PROVE  /\ Degree(g, l) = Load(g, l) + 1 /\ Parted(g, l, span2)
              /\ Degree(g, n) = Load(g, n) + 1 /\ Parted(g, n, span2)
  <2>1. ~LeafFile(f, l)
    BY <1>11, FileIs
  <2>2. /\ Degree(f, l) = 2 * MinKeys + 2 /\ MinKeys \in Nat \ {0}
        /\ Degree(g, l) = MinKeys + 1 /\ Degree(g, n) = MinKeys + 1
        /\ \A c \in 1 .. MinKeys + 1 :
             Kid(g, l, c) = Kid(f, l, c) /\ Kid(g, n, c) = Kid(f, l, MinKeys + 1 + c)
    BY <1>11 DEF SplitOf, SplitKeys
  <2>3. /\ Load(f, l) = 2 * MinKeys + 1
        /\ Load(g, l) = MinKeys /\ \A c \in 1 .. MinKeys : KeyAt(g, l, c) = KeyAt(f, l, c)
        /\ Load(g, n) = MinKeys
        /\ \A c \in 1 .. MinKeys : KeyAt(g, n, c) = KeyAt(f, l, MinKeys + 1 + c)
    BY <2>1 DEF SplitKeys
  <2>4. Parted(f, l, span)
    BY <1>1, <1>2, <1>11
  <2>5. ASSUME NEW c \in 1 .. MinKeys + 1, NEW k \in Key
        PROVE  /\ k \in span2[Kid(g, l, c)] <=> k \in span2[l] /\ Goes(g, l, k, c)
               /\ k \in span2[Kid(g, n, c)] <=> k \in span2[n] /\ Goes(g, n, k, c)
    <3> DEFINE d == MinKeys + 1 + c
    <3>1. c \in 1 .. Degree(f, l) /\ d \in 1 .. Degree(f, l)
      BY <2>2
    <3>2. /\ k \in span[Kid(f, l, c)] <=> k \in span[l] /\ Goes(f, l, k, c)
          /\ k \in span[Kid(f, l, d)] <=> k \in span[l] /\ Goes(f, l, k, d)
      BY <2>4, <3>1 DEF Parted
    <3>3. Goes(f, l, k, c) <=> Goes(g, l, k, c) /\ k < s
      BY <1>3, <2>2, <2>3, LeftParts DEF s
    <3>4. Goes(f, l, k, d) <=> Goes(g, n, k, c) /\ s <= k
      BY <1>3, <2>2, <2>3, RightParts DEF s
    <3>5. Kid(g, l, c) = Kid(f, l, c) /\ Kid(g, n, c) = Kid(f, l, d)
      BY <2>2
    <3> HIDE DEF d
    <3>6. Kid(f, l, c) \in Ids \ {n, l} /\ Kid(f, l, d) \in Ids \ {n, l}
      BY <1>1, <1>8, <1>11, <3>1
    <3>7. span2[Kid(g, l, c)] = span[Kid(f, l, c)] /\ span2[Kid(g, n, c)] = span[Kid(f, l, d)]
      BY <1>5, <3>5, <3>6
    <3> QED BY <1>5, <3>2, <3>3, <3>4, <3>7
  <2> QED BY <2>2, <2>3, <2>5 DEF Parted
<1>12. ASSUME NEW j \in Ids, InnerFile(g, j)
       PROVE  Degree(g, j) = Load(g, j) + 1 /\ Parted(g, j, span2)
  <2>1. CASE j = p
    BY <1>10, <2>1
  <2>2. CASE j = l \/ j = n
    <3>1. InnerFile(f, l)
      BY <1>1, <1>12, <2>2, FileIs
    <3> QED BY <1>11, <2>2, <3>1
  <2>3. CASE j \in Ids \ {p, l, n}
    <3>1. SameNode(f, g, j) /\ \A c \in Nat : KeyAt(g, j, c) = KeyAt(f, j, c)
      BY <2>3 DEF SplitOf, SplitKeys
    <3>2. InnerFile(f, j) /\ Degree(g, j) = Degree(f, j) /\ Load(g, j) = Load(f, j)
          /\ \A c : Kid(g, j, c) = Kid(f, j, c)
      BY <1>12, <3>1 DEF SameNode
    <3>3. Degree(f, j) = Load(f, j) + 1 /\ Parted(f, j, span) /\ Load(f, j) \in Nat
      BY <1>2, <3>2, FileIs DEF Ascending
    <3>4. ASSUME NEW c \in 1 .. Degree(f, j), NEW k \in Key
          PROVE  k \in span2[Kid(g, j, c)] <=> k \in span2[j] /\ Goes(g, j, k, c)
      <4>1. c \in Nat /\ \A d \in 1 .. c - 1 : d \in Nat
        BY <3>3
      <4>2. Goes(g, j, k, c) <=> Goes(f, j, k, c)
        BY <3>1, <3>2, <4>1 DEF Goes
      <4>3. k \in span[Kid(f, j, c)] <=> k \in span[j] /\ Goes(f, j, k, c)
        BY <3>3 DEF Parted
      <4>4. Kid(f, j, c) \in Ids \ {n, l} /\ Kid(g, j, c) = Kid(f, j, c)
        BY <1>8, <2>3, <3>2
      <4> QED BY <1>5, <2>3, <4>2, <4>3, <4>4
    <3> QED BY <3>2, <3>3, <3>4 DEF Parted
  <2> QED BY <2>1, <2>2, <2>3
<1>13. span2[r] = Key
  BY <1>2, <1>5, <1>8
<1>14. Routed(g, r, span2)
  BY <1>2, <1>5, <1>9, <1>12, <1>13 DEF Routed
<1> QED BY <1>14 DEF span2

(* A new root sends every search to the old one. *)
LEMMA RoutedGrows ==
  ASSUME NEW f, NEW g, NEW r, NEW n, NEW h, NEW par, NEW pos, Leveled(f, r, n, h, par, pos),
         NEW span, Routed(f, r, span), GrowOf(f, g, n, r),
         \A j \in Ids \ {n}, c \in Nat : KeyAt(g, j, c) = KeyAt(f, j, c)
  PROVE  Routed(g, n, [span EXCEPT ![n] = Key])
<1> DEFINE span2 == [span EXCEPT ![n] = Key]
<1>1. /\ n \in Ids /\ ~There(f, n) /\ InnerFile(g, n) /\ Degree(g, n) = 1 /\ Kid(g, n, 1) = r
      /\ Load(g, n) = 0
      /\ \A j \in Ids \ {n} : SameNode(f, g, j)
  BY DEF GrowOf
<1>2. /\ span \in [Ids -> SUBSET Key] /\ r \in Ids /\ span[r] = Key
      /\ \A j \in Ids : There(f, j) => Ascending(f, j, span[j])
      /\ \A j \in Ids : InnerFile(f, j) => Degree(f, j) = Load(f, j) + 1 /\ Parted(f, j, span)
  BY DEF Routed
<1>3. r # n
  BY <1>1 DEF Leveled
<1>4. /\ span2 \in [Ids -> SUBSET Key] /\ span2[n] = Key
      /\ \A j \in Ids \ {n} : span2[j] = span[j]
  BY <1>1, <1>2
<1> HIDE DEF span2
<1>5. ASSUME NEW j \in Ids \ {n}, There(g, j)
      PROVE  There(f, j) /\ Load(g, j) = Load(f, j) /\ Load(f, j) \in Nat
             /\ Ascending(g, j, span2[j])
  <2>1. There(f, j) /\ Load(g, j) = Load(f, j)
    BY <1>1, <1>5, FileIs DEF SameNode
  <2>2. Ascending(f, j, span[j]) /\ span2[j] = span[j] /\ Load(f, j) \in Nat
    BY <1>2, <1>4, <2>1 DEF Ascending
  <2>3. \A c \in 1 .. Load(f, j) : KeyAt(g, j, c) = KeyAt(f, j, c)
    BY <2>2
  <2> QED BY <2>1, <2>2, <2>3 DEF Ascending
<1>6. ASSUME NEW j \in Ids \ {n}, InnerFile(g, j)
      PROVE  Degree(g, j) = Load(g, j) + 1 /\ Parted(g, j, span2)
  <2>1. /\ InnerFile(f, j) /\ Degree(g, j) = Degree(f, j) /\ Load(g, j) = Load(f, j)
        /\ \A c : Kid(g, j, c) = Kid(f, j, c)
    BY <1>1, <1>6 DEF SameNode
  <2>2. Degree(f, j) = Load(f, j) + 1 /\ Parted(f, j, span) /\ Load(f, j) \in Nat
    BY <1>2, <2>1, FileIs DEF Ascending
  <2>3. \A c \in 1 .. Degree(f, j) : Kid(f, j, c) \in Ids /\ There(f, Kid(f, j, c))
    BY <2>1 DEF Leveled, ChildFits
  <2>4. ASSUME NEW c \in 1 .. Degree(f, j), NEW k \in Key
        PROVE  k \in span2[Kid(g, j, c)] <=> k \in span2[j] /\ Goes(g, j, k, c)
    <3>1. c \in Nat /\ \A d \in 1 .. c - 1 : d \in Nat
      BY <2>2
    <3>2. Goes(g, j, k, c) <=> Goes(f, j, k, c)
      BY <2>1, <3>1 DEF Goes
    <3>3. k \in span[Kid(f, j, c)] <=> k \in span[j] /\ Goes(f, j, k, c)
      BY <2>2 DEF Parted
    <3>4. Kid(f, j, c) \in Ids \ {n} /\ Kid(g, j, c) = Kid(f, j, c)
      BY <1>1, <2>1, <2>3
    <3> QED BY <1>4, <3>2, <3>3, <3>4
  <2> QED BY <2>1, <2>2, <2>4 DEF Parted
<1>7. Ascending(g, n, span2[n]) /\ Degree(g, n) = Load(g, n) + 1 /\ Parted(g, n, span2)
  <2>1. Ascending(g, n, span2[n])
    BY <1>1 DEF Ascending
  <2>2. \A k \in Key : Goes(g, n, k, 1)
    BY <1>1 DEF Goes
  <2>3. \A c \in 1 .. 1 : c = 1
    OBVIOUS
  <2>4. Parted(g, n, span2)
    BY <1>1, <1>2, <1>3, <1>4, <2>2, <2>3 DEF Parted
  <2> QED BY <1>1, <2>1, <2>4
<1>8. Routed(g, n, span2)
  BY <1>1, <1>4, <1>5, <1>6, <1>7 DEF Routed
<1> QED BY <1>8 DEF span2

(* Routes do not depend on what the leaves hold. *)
LEMMA RoutedSame ==
  ASSUME NEW f, NEW g, NEW r, NEW span, Routed(f, r, span), SameTree(f, g),
         \A j \in Ids : InnerFile(f, j) => \A c \in Nat : KeyAt(g, j, c) = KeyAt(f, j, c),
         \A j \in Ids : LeafFile(g, j) => Ascending(g, j, span[j])
  PROVE  Routed(g, r, span)
<1>1. /\ span \in [Ids -> SUBSET Key] /\ r \in Ids /\ span[r] = Key
      /\ \A j \in Ids : There(f, j) => Ascending(f, j, span[j])
      /\ \A j \in Ids : InnerFile(f, j) => Degree(f, j) = Load(f, j) + 1 /\ Parted(f, j, span)
  BY DEF Routed
<1>2. ASSUME NEW j \in Ids, InnerFile(g, j)
      PROVE  /\ Ascending(g, j, span[j])
             /\ Degree(g, j) = Load(g, j) + 1 /\ Parted(g, j, span)
  <2>1. InnerFile(f, j) /\ SameNode(f, g, j) /\ There(f, j)
    BY <1>2, FileIs DEF SameTree
  <2>2. /\ Degree(g, j) = Degree(f, j) /\ Load(g, j) = Load(f, j)
        /\ \A c : Kid(g, j, c) = Kid(f, j, c)
    BY <2>1 DEF SameNode
  <2>3. /\ Ascending(f, j, span[j]) /\ Load(f, j) \in Nat
        /\ Degree(f, j) = Load(f, j) + 1 /\ Parted(f, j, span)
    BY <1>1, <2>1 DEF Ascending
  <2>4. \A c \in Nat : KeyAt(g, j, c) = KeyAt(f, j, c)
    BY <2>1
  <2>5. Ascending(g, j, span[j])
    <3>1. \A c \in 1 .. Load(f, j) : KeyAt(g, j, c) = KeyAt(f, j, c)
      BY <2>3, <2>4
    <3> QED BY <2>2, <2>3, <3>1 DEF Ascending
  <2>6. ASSUME NEW c \in 1 .. Degree(f, j), NEW k \in Key
        PROVE  k \in span[Kid(g, j, c)] <=> k \in span[j] /\ Goes(g, j, k, c)
    <3>1. c \in Nat /\ \A d \in 1 .. c - 1 : d \in Nat
      BY <2>3
    <3>2. Goes(g, j, k, c) <=> Goes(f, j, k, c)
      BY <2>2, <2>4, <3>1 DEF Goes
    <3>3. k \in span[Kid(f, j, c)] <=> k \in span[j] /\ Goes(f, j, k, c)
      BY <2>3 DEF Parted
    <3> QED BY <2>2, <3>2, <3>3
  <2> QED BY <2>2, <2>3, <2>5, <2>6 DEF Parted
<1>3. \A j \in Ids : There(g, j) => Ascending(g, j, span[j])
  BY <1>2, FileIs
<1> QED BY <1>1, <1>2, <1>3 DEF Routed

(* Every search comes by the one leaf of the fresh tree. *)
LEMMA RoutedFresh ==
  ASSUME NEW f, FreshOf(f), Load(f, 0) = 0
  PROVE  Routed(f, 0, [i \in Ids |-> Key])
<1> DEFINE span == [i \in Ids |-> Key]
<1>1. /\ span \in [Ids -> SUBSET Key] /\ 0 \in Ids /\ span[0] = Key
  BY DEF FreshOf
<1> HIDE DEF span
<1>2. There(f, 0) /\ \A j \in Ids : ~InnerFile(f, j) /\ (There(f, j) => j = 0)
  BY FileIs DEF FreshOf
<1>3. Ascending(f, 0, span[0])
  BY <1>1 DEF Ascending
<1>4. Routed(f, 0, span)
  BY <1>1, <1>2, <1>3 DEF Routed
<1> QED BY <1>4 DEF span
----------------------------------------------------------------------------
(* Two nodes on one level do not share a key. *)
LEMMA SpansApart ==
  ASSUME NEW f, NEW r, NEW n, NEW h, NEW par, NEW pos, Leveled(f, r, n, h, par, pos),
         NEW span, Routed(f, r, span), NEW i \in Ids, There(f, i), NEW j \in Ids, There(f, j),
         h[i] = h[j], NEW k \in Key, k \in span[i], k \in span[j]
  PROVE  i = j
<1> DEFINE Meet(a, b) == /\ There(f, a) /\ There(f, b) /\ h[a] = h[b]
                         /\ k \in span[a] /\ k \in span[b] /\ a # b
           Bad == {e \in Nat : \E a, b \in Ids : Meet(a, b) /\ e + h[a] = h[r]}
<1>1. /\ h \in [Ids -> Nat] /\ par \in [Ids -> Ids] /\ pos \in [Ids -> Nat]
      /\ r \in Ids /\ There(f, r)
      /\ \A a \in Ids : There(f, a) /\ a # r => Below(f, r, h, par, pos, a)
  BY DEF Leveled
<1>2. \A a \in Ids : There(f, a) => h[a] <= h[r] /\ (a # r => h[a] < h[r])
  BY <1>1 DEF Below
<1>3. ASSUME NEW a \in Ids, There(f, a), a # r, k \in span[a]
      PROVE  /\ par[a] \in Ids /\ InnerFile(f, par[a]) /\ There(f, par[a])
             /\ pos[a] \in 1 .. Degree(f, par[a])
             /\ Kid(f, par[a], pos[a]) = a /\ h[a] + 1 = h[par[a]]
             /\ k \in span[par[a]] /\ Goes(f, par[a], k, pos[a])
  <2>1. /\ par[a] \in Ids /\ InnerFile(f, par[a]) /\ There(f, par[a])
        /\ pos[a] \in 1 .. Degree(f, par[a]) /\ Kid(f, par[a], pos[a]) = a
    BY <1>1, <1>3, FileIs DEF Below
  <2>2. ChildFits(f, r, h, par, pos, par[a], pos[a])
    BY <2>1 DEF Leveled
  <2>3. h[a] + 1 = h[par[a]]
    BY <2>1, <2>2 DEF ChildFits
  <2>4. Parted(f, par[a], span)
    BY <2>1 DEF Routed
  <2>5. k \in span[par[a]] /\ Goes(f, par[a], k, pos[a])
    BY <1>3, <2>1, <2>4 DEF Parted
  <2> QED BY <2>1, <2>3, <2>5
<1>4. Bad = {}
  <2> SUFFICES ASSUME Bad # {} PROVE FALSE
    OBVIOUS
  <2>1. PICK e \in Bad : \A d \in Bad : e <= d
    <3>1. Bad \in SUBSET Nat
      OBVIOUS
    <3> HIDE DEF Bad
    <3> QED BY <3>1, MinExists
  <2>2. PICK a \in Ids, b \in Ids : Meet(a, b) /\ e + h[a] = h[r] /\ e \in Nat
    OBVIOUS
  <2>3. a # r /\ b # r
    BY <1>1, <1>2, <2>2
  <2>4. /\ par[a] \in Ids /\ There(f, par[a]) /\ h[a] + 1 = h[par[a]] /\ k \in span[par[a]]
        /\ par[b] \in Ids /\ There(f, par[b]) /\ h[b] + 1 = h[par[b]] /\ k \in span[par[b]]
    BY <1>3, <2>2, <2>3
  <2>5. par[a] = par[b]
    <3> SUFFICES ASSUME par[a] # par[b] PROVE FALSE
      OBVIOUS
    <3>1. h[a] \in Nat /\ h[b] \in Nat /\ h[r] \in Nat /\ h[a] < h[r] /\ h[a] = h[b]
          /\ h[par[a]] \in Nat
      BY <1>1, <1>2, <2>2, <2>3, <2>4
    <3>2. e - 1 \in Nat /\ (e - 1) + h[par[a]] = h[r] /\ h[par[a]] = h[par[b]] /\ ~(e <= e - 1)
      BY <2>2, <2>4, <3>1
    <3>3. e - 1 \in Bad
      BY <2>4, <3>2
    <3> HIDE DEF Bad
    <3> QED BY <2>1, <3>2, <3>3
  <2>6. /\ InnerFile(f, par[a]) /\ pos[a] \in 1 .. Degree(f, par[a]) /\ Goes(f, par[a], k, pos[a])
        /\ pos[b] \in 1 .. Degree(f, par[a]) /\ Goes(f, par[a], k, pos[b])
        /\ Kid(f, par[a], pos[a]) = a /\ Kid(f, par[a], pos[b]) = b
    BY <1>3, <2>2, <2>3, <2>5
  <2>7. /\ Degree(f, par[a]) = Load(f, par[a]) + 1
        /\ span[par[a]] \in SUBSET Key /\ Ascending(f, par[a], span[par[a]])
    BY <2>4, <2>6 DEF Routed
  <2>8. pos[a] = pos[b]
    BY <2>6, <2>7, GoesOnce
  <2> QED BY <2>2, <2>6, <2>8
<1> SUFFICES ASSUME i # j PROVE FALSE
  OBVIOUS
<1>5. h[i] \in Nat /\ h[r] \in Nat /\ h[i] <= h[r]
  BY <1>1, <1>2
<1>6. h[r] - h[i] \in Nat /\ (h[r] - h[i]) + h[i] = h[r]
  BY <1>5
<1>7. h[r] - h[i] \in Bad
  BY <1>6
<1> QED BY <1>4, <1>7

----------------------------------------------------------------------------
(* The path of a search: at every depth a node whose span holds the key,   *)
(* one level lower at each step until it is a leaf.                        *)
LEMMA PathIs ==
  ASSUME NEW f, NEW r, NEW n, NEW h, NEW par, NEW pos, Leveled(f, r, n, h, par, pos),
         NEW span, Routed(f, r, span), \A j \in Ids : There(f, j) => f[j] \in Node,
         NEW k \in Key, NEW i \in Ids, There(f, i), k \in span[i],
         NEW d \in 0 .. MaxNodeId + 1
  PROVE  /\ NodeAt(f, i, k, d) \in Ids /\ There(f, NodeAt(f, i, k, d))
         /\ k \in span[NodeAt(f, i, k, d)]
         /\ h[NodeAt(f, i, k, d)] = IF d <= h[i] THEN h[i] - d ELSE 0
<1>1. PICK D : IsPath(f, k, D)
  BY PathDescends
<1>p. /\ \A j, e : NodeAt(f, j, k, e) = D[e][j]
      /\ \A e \in 0 .. MaxNodeId + 1, j \in Ids :
           D[e][j] = IF Stops(f, j) \/ e = 0 THEN j
                     ELSE D[e - 1][f[j].kids[ChildIndex(f[j], k)]]
  BY <1>1 DEF IsPath
<1> DEFINE Ends(j, e) == /\ D[e][j] \in Ids /\ There(f, D[e][j]) /\ k \in span[D[e][j]]
                         /\ h[D[e][j]] = IF e <= h[j] THEN h[j] - e ELSE 0
           Good(e) == \A j \in Ids : There(f, j) /\ k \in span[j] => Ends(j, e)
           Bad == {e \in 0 .. MaxNodeId + 1 : ~Good(e)}
<1>2. h \in [Ids -> Nat] /\ MaxNodeId \in Nat /\ \A j \in Ids : LeafFile(f, j) => h[j] = 0
  BY Bounds DEF Leveled
<1>3. ASSUME NEW j \in Ids, InnerFile(f, j), k \in span[j]
      PROVE  LET x == f[j].kids[ChildIndex(f[j], k)]
             IN  x \in Ids /\ There(f, x) /\ k \in span[x] /\ h[x] + 1 = h[j]
  <2> DEFINE c == ChildIndex(f[j], k)
  <2>1. f[j] \in Node
    BY <1>3, FileIs
  <2>2. c \in 1 .. Load(f, j) + 1 /\ Goes(f, j, k, c)
    BY <2>1, CodeGoes
  <2>3. Degree(f, j) = Load(f, j) + 1 /\ Parted(f, j, span)
    BY <1>3 DEF Routed
  <2> HIDE DEF c
  <2>4. c \in 1 .. Degree(f, j)
    BY <2>2, <2>3
  <2>5. ChildFits(f, r, h, par, pos, j, c)
    BY <1>3, <2>4 DEF Leveled
  <2>6. k \in span[Kid(f, j, c)]
    BY <1>3, <2>2, <2>3, <2>4 DEF Parted
  <2>7. /\ Kid(f, j, c) \in Ids /\ There(f, Kid(f, j, c)) /\ k \in span[Kid(f, j, c)]
        /\ h[Kid(f, j, c)] + 1 = h[j]
    BY <2>5, <2>6 DEF ChildFits
  <2> QED BY <2>7 DEF Kid, c
<1>4. \A j \in Ids : Stops(f, j) <=> ~InnerFile(f, j)
  BY DEF Stops, InnerFile
<1>5. Bad = {}
  <2> SUFFICES ASSUME Bad # {} PROVE FALSE
    OBVIOUS
  <2>1. PICK e \in Bad : \A b \in Bad : e <= b
    <3>1. Bad \in SUBSET Nat
      BY <1>2
    <3> HIDE DEF Bad
    <3> QED BY <3>1, MinExists
  <2>2. e \in 0 .. MaxNodeId + 1 /\ ~Good(e)
    OBVIOUS
  <2>3. PICK j \in Ids : There(f, j) /\ k \in span[j] /\ ~Ends(j, e)
    BY <2>2
  <2>4. InnerFile(f, j) /\ e # 0
    <3> SUFFICES ASSUME LeafFile(f, j) \/ e = 0 PROVE FALSE
      BY <2>3, FileIs
    <3>1. D[e][j] = j
      BY <1>p, <1>4, <2>2, FileIs
    <3>2. h[j] \in Nat /\ h[j] = IF e <= h[j] THEN h[j] - e ELSE 0
      BY <1>2, <2>2
    <3> QED BY <2>3, <3>1, <3>2
  <2> DEFINE x == f[j].kids[ChildIndex(f[j], k)]
  <2>5. x \in Ids /\ There(f, x) /\ k \in span[x] /\ h[x] + 1 = h[j]
    BY <1>3, <2>3, <2>4
  <2>6. D[e][j] = D[e - 1][x]
    BY <1>p, <1>4, <2>2, <2>4
  <2> HIDE DEF x
  <2>7. e - 1 \in 0 .. MaxNodeId + 1 /\ ~(e <= e - 1) /\ h[x] \in Nat /\ h[j] \in Nat
    BY <1>2, <2>2, <2>4, <2>5
  <2>8. Good(e - 1)
    <3>1. e - 1 \notin Bad
      <4> HIDE DEF Bad
      <4> QED BY <2>1, <2>7
    <3> QED BY <2>7, <3>1
  <2>9. Ends(x, e - 1)
    <3> HIDE DEF Ends
    <3> QED BY <2>5, <2>8
  <2>10. (IF e - 1 <= h[x] THEN h[x] - (e - 1) ELSE 0) = IF e <= h[j] THEN h[j] - e ELSE 0
    BY <1>2, <2>2, <2>4, <2>5, <2>7
  <2>11. Ends(j, e)
    BY <2>6, <2>9, <2>10
  <2> QED BY <2>3, <2>11
<1>6. Good(d)
  BY <1>5
<1>7. Ends(i, d)
  <2> HIDE DEF Ends
  <2> QED BY <1>6
<1> QED BY <1>p, <1>7

(* A search ends in a leaf whose span holds its key. *)
LEMMA LeafIsFound ==
  ASSUME NEW f, NEW r, NEW n, NEW h, NEW par, NEW pos, Leveled(f, r, n, h, par, pos),
         NEW span, Routed(f, r, span), \A j \in Ids : There(f, j) => f[j] \in Node,
         n \in Nat, n <= MaxNodeId + 1, NEW k \in Key
  PROVE  /\ LeafFor(f, r, k) \in Ids /\ LeafFile(f, LeafFor(f, r, k))
         /\ k \in span[LeafFor(f, r, k)] /\ h[LeafFor(f, r, k)] = 0
<1> DEFINE x == LeafFor(f, r, k)
           N == MaxNodeId + 1
<1>1. /\ h \in [Ids -> Nat] /\ r \in Ids /\ There(f, r) /\ h[r] < n /\ k \in span[r]
      /\ N \in Nat /\ N \in 0 .. N /\ x = NodeAt(f, r, k, N)
  BY Bounds DEF Leveled, Routed, LeafFor
<1>2. h[r] \in Nat /\ ~(N <= h[r])
  BY <1>1
<1>3. x \in Ids /\ There(f, x) /\ k \in span[x] /\ h[x] = 0
  <2>1. /\ NodeAt(f, r, k, N) \in Ids /\ There(f, NodeAt(f, r, k, N))
        /\ k \in span[NodeAt(f, r, k, N)]
        /\ h[NodeAt(f, r, k, N)] = IF N <= h[r] THEN h[r] - N ELSE 0
    BY <1>1, PathIs
  <2> HIDE DEF x, N
  <2> QED BY <1>1, <1>2, <2>1
<1>4. LeafFile(f, x)
  <2> HIDE DEF x
  <2> SUFFICES ASSUME InnerFile(f, x) PROVE FALSE
    BY <1>3, FileIs
  <2>1. 1 \in 1 .. Degree(f, x)
    BY <1>3 DEF Leveled
  <2>2. ChildFits(f, r, h, par, pos, x, 1)
    BY <1>3, <2>1 DEF Leveled
  <2>3. Kid(f, x, 1) \in Ids /\ h[Kid(f, x, 1)] + 1 = h[x]
    BY <2>2 DEF ChildFits
  <2>4. h[Kid(f, x, 1)] \in Nat
    BY <1>1, <2>3
  <2> QED BY <1>3, <2>3, <2>4
<1> QED BY <1>3, <1>4

(* Where keys ascend, the loop of search stops at the key it looks for. *)
LEMMA LeafIndexFinds ==
  ASSUME NEW n \in Node, n.leaf, NEW k \in Key,
         \A a, b \in 1 .. Len(n.keys) : a < b => n.keys[a] < n.keys[b]
  PROVE  /\ \A j \in 1 .. Len(n.keys) : n.keys[j] = k => HasKey(n, k) /\ LeafIndex(n, k) = j
         /\ HasKey(n, k) => LeafIndex(n, k) \in 1 .. Len(n.keys) /\ n.keys[LeafIndex(n, k)] = k
<1> DEFINE i == LeafIndex(n, k)
<1>1. n.keys \in Seq(Key) /\ Len(n.keys) \in Nat /\ k \in Nat
      /\ \A j \in 1 .. Len(n.keys) : n.keys[j] \in Nat
  BY KeysOfNode, KeysAreNumbers, LenProperties, ElementOfSeq
<1>2. /\ i \in 1 .. Len(n.keys) + 1
      /\ \A j \in 1 .. i - 1 : n.keys[j] < k
      /\ i <= Len(n.keys) => k <= n.keys[i]
  BY <1>1, LeafIndexStops
<1>3. HasKey(n, k) <=> i <= Len(n.keys) /\ n.keys[i] = k
  BY DEF HasKey
<1> HIDE DEF i
<1>4. ASSUME NEW j \in 1 .. Len(n.keys), n.keys[j] = k PROVE i = j
  <2>1. ~(j < i)
    <3> SUFFICES ASSUME j < i PROVE FALSE
      OBVIOUS
    <3>1. j \in 1 .. i - 1
      BY <1>1, <1>2
    <3> QED BY <1>1, <1>2, <1>4, <3>1
  <2>2. ~(i < j)
    <3> SUFFICES ASSUME i < j PROVE FALSE
      OBVIOUS
    <3>1. i \in 1 .. Len(n.keys) /\ i <= Len(n.keys)
      BY <1>1, <1>2
    <3>2. k <= n.keys[i] /\ n.keys[i] < n.keys[j] /\ n.keys[i] \in Nat
      BY <1>1, <1>2, <3>1
    <3> QED BY <1>1, <1>4, <3>2
  <2> QED BY <1>1, <1>2, <2>1, <2>2
<1>5. \A j \in 1 .. Len(n.keys) : n.keys[j] = k => HasKey(n, k) /\ i = j
  BY <1>1, <1>3, <1>4
<1>6. HasKey(n, k) => i \in 1 .. Len(n.keys) /\ n.keys[i] = k
  BY <1>1, <1>2, <1>3
<1> QED BY <1>5, <1>6 DEF i

(* The pairs of a leaf have its keys, which its span holds. *)
LEMMA PairsOfLeaf ==
  ASSUME NEW f, NEW r, NEW span, Routed(f, r, span), NEW i \in Ids, LeafFile(f, i), NEW e,
         e \in Pairs(f[i])
  PROVE  e[1] \in Key /\ e[1] \in span[i]
<1>1. PICK j \in 1 .. Len(f[i].keys) : e = <<f[i].keys[j], f[i].kids[j]>>
  BY DEF Pairs
<1>2. Ascending(f, i, span[i]) /\ span[i] \in SUBSET Key
  BY FileIs DEF Routed
<1>3. KeyAt(f, i, j) \in span[i]
  BY <1>1, <1>2 DEF Ascending, Load
<1> QED BY <1>1, <1>2, <1>3 DEF KeyAt

(* A search finds the pairs that are stored with its key: none or one.     *)
LEMMA SearchIs ==
  ASSUME NEW f, NEW r, NEW n, NEW h, NEW par, NEW pos, Leveled(f, r, n, h, par, pos),
         NEW span, Routed(f, r, span), \A j \in Ids : There(f, j) => f[j] \in Node,
         n \in Nat, n <= MaxNodeId + 1, NEW k \in Key
  PROVE  /\ Reaches(f, r, k)
         /\ Search(f, r, k) = {e \in StoredIn(f) : e[1] = k}
<1> DEFINE x == LeafFor(f, r, k)
<1>1. x \in Ids /\ LeafFile(f, x) /\ k \in span[x] /\ h[x] = 0
  BY LeafIsFound
<1>2. f[x] # NoFile /\ f[x].leaf /\ f[x] \in Node /\ There(f, x)
  BY <1>1, FileIs DEF LeafFile
<1>3. Reaches(f, r, k)
  BY <1>2 DEF Reaches
<1>4. Search(f, r, k) = IF HasKey(f[x], k) THEN {<<k, f[x].kids[LeafIndex(f[x], k)]>>} ELSE {}
  BY <1>2 DEF Search
<1> HIDE DEF x
<1>5. \A a, b \in 1 .. Len(f[x].keys) : a < b => f[x].keys[a] < f[x].keys[b]
  BY <1>1, <1>2 DEF Routed, Ascending, Load, KeyAt
<1>6. /\ \A j \in 1 .. Len(f[x].keys) :
           f[x].keys[j] = k => HasKey(f[x], k) /\ LeafIndex(f[x], k) = j
      /\ HasKey(f[x], k) =>
           LeafIndex(f[x], k) \in 1 .. Len(f[x].keys) /\ f[x].keys[LeafIndex(f[x], k)] = k
  BY <1>2, <1>5, LeafIndexFinds
<1>7. ASSUME NEW e \in Search(f, r, k) PROVE e \in StoredIn(f) /\ e[1] = k
  <2>1. HasKey(f[x], k) /\ e = <<k, f[x].kids[LeafIndex(f[x], k)]>>
    BY <1>4, <1>7
  <2>2. e \in Pairs(f[x])
    BY <1>6, <2>1 DEF Pairs
  <2> QED BY <1>1, <1>2, <2>1, <2>2, InStored
<1>8. ASSUME NEW e \in StoredIn(f), e[1] = k PROVE e \in Search(f, r, k)
  <2>1. PICK i \in Ids : f[i] # NoFile /\ f[i].leaf /\ e \in Pairs(f[i])
    BY InStored
  <2>2. LeafFile(f, i) /\ There(f, i) /\ h[i] = 0
    BY <2>1 DEF LeafFile, There, Leveled
  <2>3. k \in span[i]
    BY <1>8, <2>1, <2>2, PairsOfLeaf
  <2>4. i = x
    BY <1>1, <1>2, <2>2, <2>3, SpansApart
  <2>5. PICK j \in 1 .. Len(f[x].keys) : e = <<f[x].keys[j], f[x].kids[j]>>
    BY <2>1, <2>4 DEF Pairs
  <2>6. f[x].keys[j] = k
    BY <1>8, <2>5
  <2> QED BY <1>4, <1>6, <2>5, <2>6
<1> QED BY <1>3, <1>7, <1>8

----------------------------------------------------------------------------
(***************************************************************************)
(* The call in progress on its way down: it stands at a node that a search *)
(* for its key comes by, an insert's key is not stored, and every full     *)
(* child still to come on its path is the last child of its parent.        *)
(***************************************************************************)
Ahead(f, i, k) ==
  \A c \in 1 .. Degree(f, i) :
    Goes(f, i, k, c) /\ Load(f, Kid(f, i, c)) = MaxKeys => c = Degree(f, i)

(* Node i is still to be passed by call c. *)
ToPass(f, h, span, c, i) ==
  /\ InnerFile(f, i) /\ c.key \in span[i]
  /\ h[i] < h[c.at] \/ (c.step = "descend" /\ i = c.at)

InsertOnWay(f, h, span, c) ==
  /\ \A e \in StoredIn(f) : e[1] # c.key
  /\ c.key \in span[c.at]
  /\ \A i \in Ids : ToPass(f, h, span, c, i) => Ahead(f, i, c.key)
  /\ c.step \in {"split", "splitRoot"} =>
       c.idx = Degree(f, c.at) /\ Goes(f, c.at, c.key, c.idx)
  /\ c.step = "pick" =>
       /\ c.idx + 1 = Degree(f, c.at)
       /\ Goes(f, c.at, c.key, c.idx) \/ Goes(f, c.at, c.key, c.idx + 1)

OnWay(f, h, span, c) ==
  /\ c.op = "remove" => c.key \in span[c.at]
  /\ c.op = "insert" => InsertOnWay(f, h, span, c)

(* In which child the key of the parent's split child is afterwards. *)
LEMMA ParentGoes ==
  ASSUME NEW f, NEW g, NEW r, NEW span, Routed(f, r, span),
         NEW n, NEW p, NEW l, NEW i, SplitOf(f, g, n, p, l, i), SplitKeys(f, g, n, p, l),
         i = Degree(f, p), NEW k \in Key
  PROVE  /\ \A c \in 1 .. i - 1 : Goes(g, p, k, c) => Goes(f, p, k, c)
         /\ Goes(f, p, k, i) => Goes(g, p, k, i) \/ Goes(g, p, k, i + 1)
<1>1. /\ InnerFile(f, p) /\ There(f, p) /\ There(f, l) /\ p \in Ids /\ l \in Ids
      /\ Load(g, p) = Load(f, p) + 1 /\ Load(f, p) \in Nat
  BY FileIs DEF SplitOf
<1>2. i = Load(f, p) + 1 /\ Ascending(f, l, span[l]) /\ span[l] \in SUBSET Key
  BY <1>1 DEF Routed
<1>3. KeyAt(f, l, MinKeys + 1) \in Nat /\ k \in Nat
  <2>1. MinKeys + 1 \in 1 .. Load(f, l)
    BY DEF SplitKeys
  <2>2. KeyAt(f, l, MinKeys + 1) \in span[l]
    BY <1>2, <2>1 DEF Ascending
  <2> QED BY <1>2, <2>2, KeysAreNumbers
<1>4. /\ \A c \in 1 .. Load(f, p) : KeyAt(g, p, c) = KeyAt(f, p, c)
      /\ KeyAt(g, p, Load(f, p) + 1) = KeyAt(f, l, MinKeys + 1)
  BY DEF SplitKeys
<1> DEFINE m == Load(f, p)
           s == KeyAt(f, l, MinKeys + 1)
<1>5. /\ \A c \in 1 .. m : Goes(g, p, k, c) <=> Goes(f, p, k, c)
      /\ Goes(g, p, k, m + 1) <=> Goes(f, p, k, m + 1) /\ k < s
      /\ Goes(g, p, k, m + 2) <=> Goes(f, p, k, m + 1) /\ s <= k
  BY <1>1, <1>3, <1>4, ParentParts
<1>6. i = m + 1 /\ i - 1 = m /\ i + 1 = m + 2 /\ (k < s \/ s <= k)
  <2>1. i = m + 1 /\ m \in Nat
    BY <1>1, <1>2
  <2> HIDE DEF m, s
  <2> QED BY <1>3, <2>1 DEF s
<1> HIDE DEF m, s
<1> QED BY <1>5, <1>6

(* A split at the edge keeps an insert on its way. *)
LEMMA WaySplits ==
  ASSUME NEW f, NEW g, NEW r, NEW n, NEW h, NEW par, NEW pos, Leveled(f, r, n, h, par, pos),
         NEW span, Routed(f, r, span), NEW c, InsertOnWay(f, h, span, c),
         c.step \in {"split", "splitRoot"}, c.key \in Key,
         NEW p, NEW l, NEW i, p = c.at, i = c.idx,
         SplitOf(f, g, n, p, l, i), SplitKeys(f, g, n, p, l), StoredIn(g) = StoredIn(f),
         MaxKeys = 2 * MinKeys + 1, NEW d, d.key = c.key, d.at = p, d.idx = i,
         d.step = IF c.step = "splitRoot" THEN "descend" ELSE "pick"
  PROVE  InsertOnWay(g, SplitLevel(h, n, l), SplitSpan(f, span, n, l), d)
<1> DEFINE h2 == SplitLevel(h, n, l)
           span2 == SplitSpan(f, span, n, l)
           k == c.key
           s == KeyAt(f, l, MinKeys + 1)
<1>1. /\ p \in Ids /\ l \in Ids /\ n \in Ids /\ p # l /\ n # p /\ n # l
      /\ InnerFile(f, p) /\ There(f, l) /\ There(f, p)
      /\ InnerFile(g, p) /\ There(g, l) /\ There(g, n)
      /\ LeafFile(g, l) <=> LeafFile(f, l)
      /\ LeafFile(g, n) <=> LeafFile(f, l)
      /\ Degree(g, p) = Degree(f, p) + 1 /\ Kid(f, p, i) = l
      /\ Degree(f, p) \in Nat /\ i \in 1 .. Degree(f, p)
      /\ \A j \in Ids \ {p, l, n} : SameNode(f, g, j)
  BY FileIs DEF SplitOf
<1>2. /\ h \in [Ids -> Nat] /\ span \in [Ids -> SUBSET Key]
      /\ span2 = [x \in Ids |-> IF x = n THEN {y \in span[l] : s <= y}
                                ELSE IF x = l THEN {y \in span[l] : y < s} ELSE span[x]]
      /\ Ascending(f, l, span[l])
  BY <1>1 DEF Leveled, Routed, SplitSpan
<1>3. /\ h2[n] = h[l] /\ \A x \in Ids \ {n} : h2[x] = h[x]
      /\ span2[n] = {y \in span[l] : s <= y} /\ span2[l] = {y \in span[l] : y < s}
      /\ \A x \in Ids \ {n, l} : span2[x] = span[x]
  BY <1>1, <1>2 DEF SplitLevel
<1>4. /\ i = Degree(f, p) /\ Goes(f, p, k, i) /\ k \in span[p]
      /\ \A e \in StoredIn(f) : e[1] # k
      /\ \A x \in Ids : InnerFile(f, x) /\ k \in span[x] /\ h[x] < h[p] => Ahead(f, x, k)
  BY DEF InsertOnWay, ToPass
<1>5. /\ \A e \in 1 .. i - 1 : Goes(g, p, k, e) => Goes(f, p, k, e)
      /\ Goes(f, p, k, i) => Goes(g, p, k, i) \/ Goes(g, p, k, i + 1)
  BY <1>4, ParentGoes
<1>6. /\ MinKeys \in Nat \ {0} /\ Load(f, l) = 2 * MinKeys + 1 /\ Load(g, l) = MinKeys
      /\ \A e \in 1 .. MinKeys : KeyAt(g, l, e) = KeyAt(f, l, e)
      /\ Load(g, n) = IF LeafFile(f, l) THEN MinKeys + 1 ELSE MinKeys
      /\ \A e \in 1 .. Load(g, n) :
           KeyAt(g, n, e) = KeyAt(f, l, (IF LeafFile(f, l) THEN MinKeys ELSE MinKeys + 1) + e)
      /\ \A j \in Ids \ {p, l, n}, e \in Nat : KeyAt(g, j, e) = KeyAt(f, j, e)
  BY DEF SplitKeys
<1>7. h[l] + 1 = h[p]
  <2>1. ChildFits(f, r, h, par, pos, p, i)
    BY <1>1 DEF Leveled
  <2> QED BY <1>1, <2>1 DEF ChildFits
<1>8. HangOnce(f, r, n, p, l, i)
  BY KidsOnce
<1> HIDE DEF h2, span2, s
<1>9. ASSUME NEW x \in Ids, InnerFile(f, x), h[x] < h[p], NEW e \in 1 .. Degree(f, x)
      PROVE  /\ Kid(f, x, e) \in Ids \ {p, l, n}
             /\ Load(g, Kid(f, x, e)) = Load(f, Kid(f, x, e))
  <2>1. ChildFits(f, r, h, par, pos, x, e)
    BY <1>9 DEF Leveled
  <2>2. Kid(f, x, e) \in Ids /\ h[Kid(f, x, e)] + 1 = h[x]
    BY <2>1 DEF ChildFits
  <2>3. Kid(f, x, e) # p /\ x # p
    BY <1>1, <1>2, <1>9, <2>2
  <2>4. Kid(f, x, e) # n /\ Kid(f, x, e) # l
    BY <1>8, <1>9, <2>3 DEF HangOnce
  <2>5. Kid(f, x, e) \in Ids \ {p, l, n}
    BY <2>2, <2>3, <2>4
  <2> QED BY <1>1, <2>5 DEF SameNode
<1>10. ASSUME NEW x \in Ids \ {p, l, n}, InnerFile(g, x), k \in span2[x], h2[x] < h2[p]
       PROVE  Ahead(g, x, k)
  <2>1. /\ InnerFile(f, x) /\ Degree(g, x) = Degree(f, x) /\ Load(g, x) = Load(f, x)
        /\ \A e : Kid(g, x, e) = Kid(f, x, e)
    BY <1>1, <1>10 DEF SameNode
  <2>2. k \in span[x] /\ h[x] < h[p] /\ Degree(f, x) \in Nat
    BY <1>1, <1>3, <1>10, <2>1 DEF Leveled
  <2>3. Ahead(f, x, k)
    BY <1>4, <2>1, <2>2
  <2>4. ASSUME NEW e \in 1 .. Degree(f, x), Goes(g, x, k, e),
               Load(g, Kid(g, x, e)) = MaxKeys
        PROVE  e = Degree(f, x)
    <3>1. e \in Nat /\ \A a \in 1 .. e - 1 : a \in Nat
      BY <2>2
    <3>2. Goes(f, x, k, e)
      BY <1>6, <2>1, <2>4, <3>1 DEF Goes
    <3>3. Load(f, Kid(f, x, e)) = MaxKeys
      BY <1>9, <2>1, <2>2, <2>4
    <3> QED BY <2>3, <3>2, <3>3 DEF Ahead
  <2> QED BY <2>1, <2>4 DEF Ahead
<1>11. ASSUME InnerFile(f, l)
       PROVE  /\ Degree(f, l) = 2 * MinKeys + 2
              /\ Degree(g, l) = MinKeys + 1 /\ Degree(g, n) = MinKeys + 1
              /\ \A e \in 1 .. MinKeys + 1 :
                   Kid(g, l, e) = Kid(f, l, e) /\ Kid(g, n, e) = Kid(f, l, MinKeys + 1 + e)
              /\ Load(g, n) = MinKeys
              /\ \A e \in 1 .. MinKeys : KeyAt(g, n, e) = KeyAt(f, l, MinKeys + 1 + e)
  <2>1. ~LeafFile(f, l)
    BY <1>11, FileIs
  <2> QED BY <1>6, <1>11, <2>1 DEF SplitOf
<1>12. h[l] < h[p]
  BY <1>1, <1>2, <1>7
<1>13. ASSUME InnerFile(f, l), k \in span2[l] PROVE Ahead(g, l, k)
  <2>1. k \in span[l] /\ k < s
    BY <1>3, <1>13
  <2>2. Ahead(f, l, k)
    BY <1>1, <1>4, <1>12, <1>13, <2>1
  <2>3. ASSUME NEW e \in 1 .. MinKeys + 1, Goes(g, l, k, e), Load(g, Kid(g, l, e)) = MaxKeys
        PROVE  FALSE
    <3>1. e \in 1 .. Degree(f, l) /\ e # Degree(f, l)
      BY <1>6, <1>11, <1>13
    <3>2. Goes(f, l, k, e)
      <4>1. span[l] \in SUBSET Key /\ Ascending(f, l, span[l]) /\ k \in Key
        BY <1>1, <1>2
      <4>2. Goes(f, l, k, e) <=> Goes(g, l, k, e) /\ k < KeyAt(f, l, MinKeys + 1)
        <5> HIDE DEF k
        <5> QED BY <1>6, <4>1, LeftParts
      <4> QED BY <2>1, <2>3, <4>2 DEF s
    <3>3. Kid(g, l, e) = Kid(f, l, e)
      BY <1>11, <1>13
    <3>4. Load(f, Kid(f, l, e)) = MaxKeys
      BY <1>1, <1>9, <1>12, <1>13, <2>3, <3>1, <3>3
    <3> QED BY <2>2, <3>1, <3>2, <3>4 DEF Ahead
  <2> QED BY <1>11, <1>13, <2>3 DEF Ahead
<1>14. ASSUME InnerFile(f, l), k \in span2[n] PROVE Ahead(g, n, k)
  <2>1. k \in span[l] /\ s <= k
    BY <1>3, <1>14
  <2>2. Ahead(f, l, k)
    BY <1>1, <1>4, <1>12, <1>14, <2>1
  <2>3. ASSUME NEW e \in 1 .. MinKeys + 1, Goes(g, n, k, e), Load(g, Kid(g, n, e)) = MaxKeys
        PROVE  e = MinKeys + 1
    <3> DEFINE b == MinKeys + 1 + e
    <3>1. b \in 1 .. Degree(f, l) /\ (b = Degree(f, l) => e = MinKeys + 1)
      BY <1>6, <1>11, <1>14
    <3>2. Goes(f, l, k, b)
      <4>1. span[l] \in SUBSET Key /\ Ascending(f, l, span[l]) /\ k \in Key
        BY <1>1, <1>2
      <4>2. /\ Load(g, n) = MinKeys
            /\ \A a : a \in 1 .. MinKeys => KeyAt(g, n, a) = KeyAt(f, l, MinKeys + 1 + a)
        BY <1>11, <1>14
      <4>3. Goes(f, l, k, MinKeys + 1 + e) <=> Goes(g, n, k, e) /\ KeyAt(f, l, MinKeys + 1) <= k
        <5> HIDE DEF k
        <5> QED BY <1>6, <4>1, <4>2, RightParts
      <4> QED BY <2>1, <2>3, <4>3 DEF s
    <3>3. Kid(g, n, e) = Kid(f, l, b)
      BY <1>11, <1>14
    <3> HIDE DEF b
    <3>4. Load(f, Kid(f, l, b)) = MaxKeys
      BY <1>1, <1>9, <1>12, <1>14, <2>3, <3>1, <3>3
    <3> QED BY <2>2, <3>1, <3>2, <3>4 DEF Ahead
  <2> QED BY <1>11, <1>14, <2>3 DEF Ahead
<1>15. Ahead(g, p, k)
  <2> DEFINE m == Degree(f, p)
  <2>1. ASSUME NEW e \in 1 .. m + 1, Goes(g, p, k, e), Load(g, Kid(g, p, e)) = MaxKeys
        PROVE  e = m + 1
    <3>1. CASE e \in 1 .. m - 1
      <4>1. Goes(f, p, k, e)
        BY <1>4, <1>5, <2>1, <3>1
      <4>2. m = Load(f, p) + 1 /\ m \in Nat /\ Ascending(f, p, span[p]) /\ span[p] \in SUBSET Key
        BY <1>1, <1>2 DEF Routed
      <4>3. e \in 1 .. Load(f, p) + 1 /\ i \in 1 .. Load(f, p) + 1 /\ e # i
        BY <1>1, <1>4, <3>1, <4>2
      <4> QED BY <1>4, <4>1, <4>2, <4>3, GoesOnce
    <3>2. CASE e = m
      <4>1. e \in 1 .. m + 1 /\ e <= i
        BY <1>1, <1>4, <3>2
      <4>2. Kid(g, p, e) = l
        BY <1>1, <1>4, <3>2, <4>1 DEF SplitOf
      <4> QED BY <1>6, <2>1, <4>2
    <3> QED BY <1>1, <3>1, <3>2
  <2> QED BY <1>1, <2>1 DEF Ahead
<1>16. k \in span2[p] /\ h2[p] = h[p]
  BY <1>1, <1>3, <1>4
<1>17. ASSUME NEW x \in Ids, ToPass(g, h2, span2, d, x) PROVE Ahead(g, x, k)
  <2>1. InnerFile(g, x) /\ k \in span2[x] /\ (h2[x] < h2[p] \/ x = p)
    BY <1>17 DEF ToPass
  <2>2. CASE x = p
    BY <1>15, <2>2
  <2>3. CASE x = l \/ x = n
    <3>1. InnerFile(f, l)
      BY <1>1, <2>1, <2>3, FileIs
    <3> QED BY <1>13, <1>14, <2>1, <2>3, <3>1
  <2>4. CASE x \in Ids \ {p, l, n}
    BY <1>10, <2>1, <2>4
  <2> QED BY <2>2, <2>3, <2>4
<1>18. InsertOnWay(g, h2, span2, d)
  BY <1>1, <1>4, <1>5, <1>16, <1>17 DEF InsertOnWay
<1> QED BY <1>18 DEF h2, span2

----------------------------------------------------------------------------
(***************************************************************************)
(* What the last step of a call makes of the keys of its leaf.             *)
(***************************************************************************)
Sorted(s) == \A a, b \in 1 .. Len(s) : a < b => s[a] < s[b]

(* insert_non_full keeps the keys of a leaf sorted.                        *)
LEMMA LeafAdds ==
  ASSUME NEW n \in Node, n.leaf, NEW k \in Key, NEW v, Sorted(n.keys),
         \A j \in 1 .. Len(n.keys) : n.keys[j] # k
  PROVE  LET ks == WithEntry(n, k, v).keys
         IN  /\ Len(ks) \in Nat /\ Sorted(ks)
             /\ \A j \in 1 .. Len(ks) : ks[j] = k \/ \E m \in 1 .. Len(n.keys) : ks[j] = n.keys[m]
<1> DEFINE i == InsertIndex(n, k)
           ks == InsertAt(n.keys, i, k)
           len == Len(n.keys)
           o == n.keys
<1>1. /\ o \in Seq(Key) /\ len \in Nat /\ i \in 1 .. len + 1 /\ k \in Nat
      /\ \A j \in i .. len : o[j] > k
      /\ i > 1 => o[i - 1] <= k
  <2>1. o \in Seq(Key) /\ len \in Nat
    BY LeafParts
  <2> QED BY <2>1, InsertIndexStops, KeysAreNumbers
<1>2. WithEntry(n, k, v).keys = ks
  BY DEF WithEntry, LeafNode
<1>3. \A j \in 1 .. len : o[j] \in Nat /\ o[j] # k
  BY <1>1, ElementOfSeq, KeysAreNumbers
<1>4. \A a, b \in 1 .. len : a < b => o[a] < o[b]
  BY DEF Sorted
<1> HIDE DEF i
<1>5. Len(ks) = len + 1
  BY <1>1, InsertAtSeq
<1>6. \A j \in 1 .. len + 1 :
        ks[j] = IF j < i THEN o[j] ELSE IF j = i THEN k ELSE o[j - 1]
  <2> SUFFICES ASSUME NEW j \in 1 .. len + 1
               PROVE  ks[j] = IF j < i THEN o[j] ELSE IF j = i THEN k ELSE o[j - 1]
    OBVIOUS
  <2>1. o \in Seq(Key) /\ i \in 1 .. Len(o) + 1 /\ j \in 1 .. Len(o) + 1
    BY <1>1
  <2> HIDE DEF o, len
  <2>2. InsertAt(o, i, k)[j] = IF j < i THEN o[j] ELSE IF j = i THEN k ELSE o[j - 1]
    BY <2>1, InsertAtElements
  <2> QED BY <2>2 DEF ks, o
<1> HIDE DEF ks, len, o
<1>7. \A j \in 1 .. len : j < i => o[j] < k
  <2> SUFFICES ASSUME NEW j \in 1 .. len, j < i PROVE o[j] < k
    OBVIOUS
  <2>1. i - 1 \in 1 .. len /\ (j < i - 1 \/ j = i - 1)
    BY <1>1
  <2>2. o[i - 1] < k
    BY <1>1, <1>3, <2>1
  <2>3. o[j] < o[i - 1] \/ j = i - 1
    BY <1>4, <2>1
  <2> QED BY <1>1, <1>3, <2>1, <2>2, <2>3
<1>8. ASSUME NEW a \in 1 .. len + 1, NEW b \in 1 .. len + 1, a < b PROVE ks[a] < ks[b]
  <2>1. CASE b < i
    <3>1. a < i /\ a \in 1 .. len /\ b \in 1 .. len
      BY <1>1, <1>8, <2>1
    <3> QED BY <1>4, <1>6, <1>8, <2>1, <3>1
  <2>2. CASE b = i
    <3>1. a < i /\ a \in 1 .. len
      BY <1>1, <1>8, <2>2
    <3> QED BY <1>1, <1>6, <1>7, <2>2, <3>1
  <2>3. CASE i < b
    <3>1. b - 1 \in 1 .. len /\ b - 1 \in i .. len /\ ~(b < i) /\ b # i
      BY <1>1, <2>3
    <3>2. ks[b] = o[b - 1] /\ o[b - 1] > k /\ o[b - 1] \in Nat
      BY <1>1, <1>3, <1>6, <3>1
    <3>3. CASE a < i
      <4>1. a \in 1 .. len
        BY <1>1, <3>3
      <4>2. ks[a] = o[a] /\ o[a] < k /\ o[a] \in Nat
        BY <1>3, <1>6, <1>7, <3>3, <4>1
      <4> QED BY <1>1, <3>2, <4>2
    <3>4. CASE a = i
      BY <1>1, <1>6, <3>2, <3>4
    <3>5. CASE i < a
      <4>1. a - 1 \in 1 .. len /\ ~(a < i) /\ a # i /\ a - 1 < b - 1
        BY <1>1, <1>8, <3>5
      <4> QED BY <1>4, <1>6, <3>1, <3>2, <4>1
    <3> QED BY <1>1, <3>3, <3>4, <3>5
  <2> QED BY <1>1, <2>1, <2>2, <2>3
<1>9. ASSUME NEW j \in 1 .. len + 1 PROVE ks[j] = k \/ \E m \in 1 .. len : ks[j] = o[m]
  <2>1. CASE j < i
    <3>1. j \in 1 .. len /\ ks[j] = o[j]
      BY <1>1, <1>6, <2>1
    <3> QED BY <3>1
  <2>2. CASE j = i
    BY <1>6, <2>2
  <2>3. CASE i < j
    <3>1. j - 1 \in 1 .. len /\ ~(j < i) /\ j # i
      BY <1>1, <2>3
    <3>2. ks[j] = o[j - 1]
      BY <1>6, <3>1
    <3> QED BY <3>1, <3>2
  <2> QED BY <1>1, <2>1, <2>2, <2>3
<1>10. Len(ks) \in Nat /\ Sorted(ks) /\ \A j \in 1 .. Len(ks) : ks[j] = k \/ \E m \in 1 .. len : ks[j] = o[m]
  BY <1>1, <1>5, <1>8, <1>9 DEF Sorted
<1> QED BY <1>2, <1>10 DEF len, o

(* remove_from_node takes the key out of a leaf, and it was there once.    *)
LEMMA LeafTakes ==
  ASSUME NEW n \in Node, n.leaf, NEW k \in Key, Sorted(n.keys), HasKey(n, k)
  PROVE  LET ks == WithoutEntry(n, k).keys
         IN  /\ Len(ks) \in Nat /\ Sorted(ks)
             /\ \A j \in 1 .. Len(ks) : ks[j] # k /\ \E m \in 1 .. Len(n.keys) : ks[j] = n.keys[m]
<1> DEFINE i == LeafIndex(n, k)
           ks == RemoveAt(n.keys, i)
           len == Len(n.keys)
           o == n.keys
<1>1. /\ o \in Seq(Key) /\ len \in Nat /\ i \in 1 .. len /\ o[i] = k
  BY LeafParts, LeafIndexStops DEF HasKey
<1>2. WithoutEntry(n, k).keys = ks
  BY DEF WithoutEntry, LeafNode
<1>3. \A j \in 1 .. len : o[j] \in Nat
  BY <1>1, ElementOfSeq, KeysAreNumbers
<1>4. \A a, b \in 1 .. len : a < b => o[a] < o[b]
  BY DEF Sorted
<1> HIDE DEF i
<1>5. Len(ks) = len - 1
  BY <1>1, RemoveAtSeq
<1>6. \A j \in 1 .. len - 1 : ks[j] = IF j < i THEN o[j] ELSE o[j + 1]
  BY <1>1, RemoveAtElements
<1> HIDE DEF ks, len, o
<1> DEFINE P(j) == IF j < i THEN j ELSE j + 1
<1>7. \A j \in 1 .. len - 1 : P(j) \in 1 .. len /\ P(j) # i /\ ks[j] = o[P(j)]
  BY <1>1, <1>6
<1>8. \A a, b \in 1 .. len - 1 : a < b => P(a) < P(b)
  BY <1>1
<1> HIDE DEF P
<1>9. \A j \in 1 .. len : j # i => o[j] # k
  <2> SUFFICES ASSUME NEW j \in 1 .. len, j # i PROVE o[j] # k
    OBVIOUS
  <2>1. j < i \/ i < j
    BY <1>1
  <2>2. o[j] < o[i] \/ o[i] < o[j]
    BY <1>1, <1>4, <2>1
  <2> QED BY <1>1, <1>3, <2>2
<1>10. \A j \in 1 .. len - 1 : ks[j] # k /\ \E m \in 1 .. len : ks[j] = o[m]
  BY <1>7, <1>9
<1>11. \A a, b \in 1 .. len - 1 : a < b => ks[a] < ks[b]
  BY <1>4, <1>7, <1>8
<1>12. Len(ks) \in Nat /\ Sorted(ks)
  BY <1>1, <1>5, <1>11 DEF Sorted
<1> QED BY <1>2, <1>5, <1>10, <1>12 DEF len, o

----------------------------------------------------------------------------
(***************************************************************************)
(* The routes through the files of the running program, and the call on    *)
(* its way.                                                                *)
(***************************************************************************)
Mapped ==
  \/ Unopened
  \/ \E h, par, pos, span :
       /\ Leveled(Now, root, next, h, par, pos)
       /\ Routed(Now, root, span)
       /\ OnWay(Now, h, span, call)

(* The files are nodes, and as many as ids are handed out.                 *)
LEMMA NodesThere ==
  ASSUME Inv, Shape, ~Unopened
  PROVE  /\ next \in Nat /\ next <= MaxNodeId + 1
         /\ \A j \in Ids : There(Now, j) => Now[j] \in Node
<1>1. next \in Nat /\ next <= MaxNodeId + 1
  BY DEF Shape, Tree
<1>2. \A j \in Ids : There(Now, j) => Now[j] \in Node
  BY NowType DEF There
<1> QED BY <1>1, <1>2

(* The directory once the pending writes are made, as a function.          *)
LEMMA NowIsFunction ==
  ASSUME TypeOK
  PROVE  Now = [i \in Ids |-> Now[i]]
BY DEF TypeOK, Now

(* Node files that are the same are the same directory.                    *)
LEMMA NowSame ==
  ASSUME TypeOK, TypeOK', \A i \in Ids : Now'[i] = Now[i]
  PROVE  Now' = Now
<1>1. Now = [i \in Ids |-> Now[i]]
  BY NowIsFunction
<1>2. Now' = [i \in Ids |-> Now'[i]]
  BY DEF TypeOK, Now
<1>3. [i \in Ids |-> Now'[i]] = [i \in Ids |-> Now[i]]
  OBVIOUS
<1> QED BY <1>1, <1>2, <1>3

(* Where the separator of a last child goes in its parent.                 *)
KeyAdded(p, q, s) ==
  /\ \A c \in 1 .. Len(p.keys) : q.keys[c] = p.keys[c]
  /\ q.keys[Len(p.keys) + 1] = s

(* The keys of a parent whose last child was split.                        *)
LEMMA WithChildKeys ==
  ASSUME NEW p, NEW s, NEW r, Len(p.keys) \in Nat
  PROVE  KeyAdded(p, WithChild(p, Len(p.keys) + 1, s, r), s)
<1> DEFINE i == Len(p.keys) + 1
           w(j) == IF j = i THEN s ELSE p.keys[j]
           ks == [j \in 1 .. Len(p.keys) + 1 |-> IF j <= i THEN w(j) ELSE w(j - 1)]
<1>1. WithChild(p, i, s, r).keys = ks
  BY DEF WithChild, InnerNode
<1>2. \A c \in 1 .. Len(p.keys) : c \in 1 .. Len(p.keys) + 1 /\ c <= i /\ c # i
  OBVIOUS
<1>3. i \in 1 .. Len(p.keys) + 1 /\ i <= i
  OBVIOUS
<1> QED BY <1>1, <1>2, <1>3 DEF KeyAdded

(* What SplitChild does to the keys when it splits the last child.         *)
LEMMA SplitsKeys ==
  ASSUME Inv, SplitChild, call.idx = Degree(Now, call.at)
  PROVE  \E l : /\ SplitOf(Now, Now', next, call.at, l, call.idx)
                /\ SplitKeys(Now, Now', next, call.at, l)
<1> DEFINE p == call.at
           i == call.idx
           g == Now'
<1>1. PICK l \in Ids :
        /\ l = file[p].kids[i] /\ Now = file /\ p \in Ids
        /\ SplitOf(file, g, next, p, l, i)
        /\ file[p] \in Node /\ file[l] \in Node /\ Full(file[l])
        /\ g[p] = WithChild(file[p], i, Separator(file[l]), next)
        /\ g[l] = LeftHalf(file[l], next)
        /\ g[next] = RightHalf(file[l])
        /\ \A j \in Ids \ {p, l, next} : g[j] = file[j]
  BY SplitIs
<1>2. /\ ~file[p].leaf /\ next \in Ids /\ There(file, l)
  BY <1>1 DEF SplitOf, InnerFile
<1>3. Len(file[p].keys) \in Nat /\ i = Len(file[p].keys) + 1
  BY <1>1, <1>2, InnerParts DEF Degree
<1> HIDE DEF g, p, i
<1>4. /\ \A c \in 1 .. Load(file, p) : KeyAt(g, p, c) = KeyAt(file, p, c)
      /\ KeyAt(g, p, Load(file, p) + 1) = KeyAt(file, l, MinKeys + 1)
  <2> DEFINE s == Separator(file[l])
             P == file[p]
  <2>1. g[p] = WithChild(P, i, s, next)
    BY <1>1
  <2>2. s = KeyAt(file, l, MinKeys + 1) /\ Len(P.keys) \in Nat /\ i = Len(P.keys) + 1
    BY <1>3 DEF Separator, KeyAt
  <2> HIDE DEF s, P
  <2>3. Len(P.keys) \in Nat /\ g[p] = WithChild(P, Len(P.keys) + 1, s, next)
    BY <2>1, <2>2
  <2>4. KeyAdded(P, g[p], s)
    BY <2>3, WithChildKeys
  <2> QED BY <2>2, <2>4 DEF KeyAdded, KeyAt, Load, P
<1>5. MinKeys \in Nat \ {0} /\ Load(file, l) = 2 * MinKeys + 1
  BY <1>1, NodeSizes DEF Full, Load
<1>6. /\ Load(g, l) = MinKeys
      /\ \A c \in 1 .. MinKeys : KeyAt(g, l, c) = KeyAt(file, l, c)
      /\ Load(g, next) = IF LeafFile(file, l) THEN MinKeys + 1 ELSE MinKeys
      /\ \A c \in 1 .. Load(g, next) :
           KeyAt(g, next, c)
             = KeyAt(file, l, (IF LeafFile(file, l) THEN MinKeys ELSE MinKeys + 1) + c)
  <2> DEFINE m == file[l]
  <2>1. m \in Node /\ Full(m) /\ next \in Ids
        /\ g[l] = LeftHalf(m, next) /\ g[next] = RightHalf(m) /\ (LeafFile(file, l) <=> m.leaf)
    BY <1>1, <1>2 DEF LeafFile, There
  <2> HIDE DEF m
  <2>2. /\ Len(g[l].keys) = MinKeys
        /\ Len(g[next].keys) = IF m.leaf THEN MinKeys + 1 ELSE MinKeys
        /\ \A c \in 1 .. MinKeys : g[l].keys[c] = m.keys[c]
        /\ \A c \in 1 .. Len(g[next].keys) :
             g[next].keys[c] = m.keys[(IF m.leaf THEN MinKeys ELSE MinKeys + 1) + c]
    BY <2>1, HalfKeys
  <2> QED BY <2>1, <2>2 DEF KeyAt, Load, m
<1>7. \A j \in Ids \ {p, l, next}, c \in Nat : KeyAt(g, j, c) = KeyAt(file, j, c)
  BY <1>1 DEF KeyAt
<1>8. SplitKeys(file, g, next, p, l)
  BY <1>4, <1>5, <1>6, <1>7 DEF SplitKeys
<1> QED BY <1>1, <1>8 DEF g, p, i

----------------------------------------------------------------------------
(* Every full node on the way of k is the last child of its parent.        *)
LEMMA EdgeAhead ==
  ASSUME Inv, Shape, ~Unopened, Now = file,
         NEW h, NEW par, NEW pos, Leveled(file, root, next, h, par, pos),
         NEW span, Routed(file, root, span), NEW k \in Key, SplitsAtEdge(k),
         NEW i \in Ids, InnerFile(file, i), k \in span[i]
  PROVE  Ahead(file, i, k)
<1>1. /\ next \in Nat /\ next <= MaxNodeId + 1
      /\ \A j \in Ids : There(file, j) => file[j] \in Node
  BY NodesThere
<1>2. /\ h \in [Ids -> Nat] /\ root \in Ids /\ There(file, root) /\ h[root] < next
      /\ There(file, i) /\ h[i] <= h[root] /\ k \in span[root]
  <2>1. root \in Ids /\ There(file, root) /\ h \in [Ids -> Nat] /\ h[root] < next
    BY DEF Leveled
  <2>2. There(file, i)
    BY FileIs
  <2>3. i # root => h[i] < h[root]
    BY <2>2 DEF Leveled, Below
  <2> QED BY <2>1, <2>2, <2>3 DEF Routed
<1> DEFINE d == h[root] - h[i]
           x == NodeAt(file, root, k, d)
<1>3. d \in 0 .. MaxNodeId /\ d \in 0 .. MaxNodeId + 1 /\ d <= h[root] /\ h[root] - d = h[i]
  BY <1>1, <1>2, Bounds
<1> HIDE DEF d
<1>4. x \in Ids /\ There(file, x) /\ k \in span[x] /\ h[x] = h[i]
  <2>1. /\ NodeAt(file, root, k, d) \in Ids /\ There(file, NodeAt(file, root, k, d))
        /\ k \in span[NodeAt(file, root, k, d)]
        /\ h[NodeAt(file, root, k, d)] = IF d <= h[root] THEN h[root] - d ELSE 0
    BY <1>1, <1>2, <1>3, PathIs
  <2> QED BY <1>3, <2>1
<1>5. NodeAt(file, root, k, d) = i
  <2> HIDE DEF x
  <2>1. x = i
    BY <1>2, <1>4, SpansApart
  <2> QED BY <2>1 DEF x
<1> DEFINE b == ChildIndex(file[i], k)
<1>6. b \in 1 .. Load(file, i) + 1 /\ Goes(file, i, k, b)
  BY <1>1, <1>2, CodeGoes
<1>7. /\ file[Kid(file, i, b)] # NoFile /\ Full(file[Kid(file, i, b)]) => b = Degree(file, i)
  <2>1. LET n == file[NodeAt(file, root, k, d)]
            e == ChildIndex(n, k)
        IN  /\ n # NoFile
            /\ ~n.leaf
            /\ file[n.kids[e]] # NoFile
            /\ Full(file[n.kids[e]])
            => e = Len(n.kids)
    BY <1>3 DEF SplitsAtEdge
  <2> QED BY <1>5, <2>1 DEF Kid, Degree, InnerFile
<1> HIDE DEF b
<1>8. ASSUME NEW c \in 1 .. Degree(file, i), Goes(file, i, k, c),
             Load(file, Kid(file, i, c)) = MaxKeys
      PROVE  c = Degree(file, i)
  <2>1. Degree(file, i) = Load(file, i) + 1 /\ Ascending(file, i, span[i]) /\ span[i] \in SUBSET Key
    BY <1>2 DEF Routed
  <2>2. c = b
    BY <1>6, <1>8, <2>1, GoesOnce
  <2>3. ChildFits(file, root, h, par, pos, i, c)
    BY <1>8 DEF Leveled
  <2>4. file[Kid(file, i, c)] # NoFile /\ Full(file[Kid(file, i, c)])
    BY <1>8, <2>3 DEF ChildFits, There, Full, Load
  <2> QED BY <1>7, <2>2, <2>4
<1> QED BY <1>8 DEF Ahead

(* A key that contains did not find is stored nowhere.                     *)
LEMMA NotContained ==
  ASSUME Inv, Shape, ~Unopened, Now = file,
         NEW h, NEW par, NEW pos, Leveled(file, root, next, h, par, pos),
         NEW span, Routed(file, root, span), NEW k \in Key, ~Contained(k)
  PROVE  \A e \in StoredIn(file) : e[1] # k
<1>1. Search(file, root, k) = {e \in StoredIn(file) : e[1] = k}
  <2>1. /\ next \in Nat /\ next <= MaxNodeId + 1
        /\ \A j \in Ids : There(file, j) => file[j] \in Node
    BY NodesThere
  <2> QED BY <2>1, SearchIs
<1> QED BY <1>1 DEF Contained

(* An insert starts at the root.                                           *)
LEMMA MappedBegins ==
  ASSUME Inv, Shape, Mapped, NEW k \in Key, NEW v \in Value, BeginInsert(k, v), SplitsAtEdge(k)
  PROVE  Mapped'
<1>1. /\ Ready /\ ~Contained(k) /\ file[root] # NoFile
      /\ UNCHANGED <<file, meta, root, next, pend>>
      /\ call' = Inserting("descend", k, v, root, 0)
  BY DEF BeginInsert, MayInsert, Idle
<1>2. Now = file /\ Now' = Now
  BY <1>1, NowWhenReady DEF Now, Ready
<1>3. ~Unopened
  BY <1>1 DEF Unopened, Inv, TypeOK
<1>4. PICK h, par, pos, span :
        Leveled(Now, root, next, h, par, pos) /\ Routed(Now, root, span) /\ OnWay(Now, h, span, call)
  BY <1>3 DEF Mapped
<1>5. \A e \in StoredIn(Now) : e[1] # k
  BY <1>1, <1>2, <1>3, <1>4, NotContained
<1>6. \A i \in Ids : InnerFile(Now, i) /\ k \in span[i] => Ahead(Now, i, k)
  BY <1>2, <1>3, <1>4, EdgeAhead
<1>7. k \in span[root]
  BY <1>4 DEF Routed
<1>8. /\ call'.op = "insert" /\ call'.step = "descend" /\ call'.key = k /\ call'.at = root
  BY <1>1 DEF Inserting
<1>9. OnWay(Now, h, span, call')
  <2>1. \A i \in Ids : ToPass(Now, h, span, call', i) => Ahead(Now, i, k)
    BY <1>6, <1>8 DEF ToPass
  <2>2. InsertOnWay(Now, h, span, call')
    BY <1>5, <1>7, <1>8, <2>1 DEF InsertOnWay
  <2> QED BY <1>8, <2>2 DEF OnWay
<1>10. /\ Leveled(Now', root', next', h, par, pos) /\ Routed(Now', root', span)
       /\ OnWay(Now', h, span, call')
  BY <1>1, <1>2, <1>4, <1>9
<1> QED BY <1>10 DEF Mapped

(* Growing the root leaves the way below the old root as it was.           *)
LEMMA MappedGrows ==
  ASSUME Inv, Shape, Mapped, NEW k \in Key, NEW v \in Value, GrowRoot(k, v), SplitsAtEdge(k)
  PROVE  Mapped'
<1>1. /\ Now = file /\ file[root] # NoFile /\ next \in Ids /\ root \in Ids /\ file[next] = NoFile
      /\ Now'[next] = NewRoot(root) /\ \A i \in Ids \ {next} : Now'[i] = file[i]
  BY GrowEffect
<1>2. /\ ~Contained(k) /\ call' = Inserting("splitRoot", k, v, next, 1)
  BY DEF GrowRoot, MayInsert
<1>3. /\ GrowOf(Now, Now', next, root) /\ Load(Now, root) >= MinKeys
      /\ root' = next /\ next' = next + 1 /\ ~Unopened
  BY GrowIs DEF GrownTree
<1>4. PICK h, par, pos, span :
        Leveled(Now, root, next, h, par, pos) /\ Routed(Now, root, span) /\ OnWay(Now, h, span, call)
  BY <1>3 DEF Mapped
<1> DEFINE h2 == [h EXCEPT ![next] = h[root] + 1]
           span2 == [span EXCEPT ![next] = Key]
           g == Now'
<1>5. \E par2, pos2 : Leveled(g, next, next + 1, h2, par2, pos2)
  <2>1. next \in Nat
    BY DEF Inv, TypeOK
  <2>2. Leveled(g, next, next + 1, h2, [par EXCEPT ![root] = next], [pos EXCEPT ![root] = 1])
    BY <1>3, <1>4, <2>1, LeveledGrows
  <2> QED BY <2>2
<1>6. \A j \in Ids \ {next}, c \in Nat : KeyAt(g, j, c) = KeyAt(Now, j, c)
  BY <1>1 DEF KeyAt
<1>7. Routed(g, next, span2)
  BY <1>3, <1>4, <1>6, RoutedGrows
<1>8. StoredIn(g) = StoredIn(Now)
  BY StoredGrow, StoredIs
<1>9. \A e \in StoredIn(g) : e[1] # k
  BY <1>1, <1>2, <1>3, <1>4, <1>8, NotContained
<1>10. \A i \in Ids : InnerFile(Now, i) /\ k \in span[i] => Ahead(Now, i, k)
  BY <1>1, <1>3, <1>4, EdgeAhead
<1>11. /\ h \in [Ids -> Nat] /\ span \in [Ids -> SUBSET Key]
       /\ InnerFile(g, next) /\ Degree(g, next) = 1 /\ Load(g, next) = 0
       /\ \A j \in Ids \ {next} : SameNode(Now, g, j)
       /\ ~There(Now, next)
  BY <1>3, <1>4 DEF Leveled, Routed, GrowOf
<1>12. ASSUME NEW i \in Ids \ {next}, InnerFile(g, i), k \in span2[i] PROVE Ahead(g, i, k)
  <2>1. /\ InnerFile(Now, i) /\ Degree(g, i) = Degree(Now, i) /\ Load(g, i) = Load(Now, i)
        /\ \A c : Kid(g, i, c) = Kid(Now, i, c)
    BY <1>11, <1>12 DEF SameNode
  <2>2. Ahead(Now, i, k) /\ Degree(Now, i) \in Nat
    BY <1>4, <1>10, <1>11, <1>12, <2>1 DEF Leveled
  <2>3. ASSUME NEW c \in 1 .. Degree(Now, i), Goes(g, i, k, c), Load(g, Kid(g, i, c)) = MaxKeys
        PROVE  c = Degree(Now, i)
    <3>1. c \in Nat /\ \A j \in 1 .. c - 1 : j \in Nat
      BY <2>2
    <3>2. Goes(Now, i, k, c)
      BY <1>6, <2>1, <2>3, <3>1 DEF Goes
    <3>3. Kid(Now, i, c) \in Ids /\ There(Now, Kid(Now, i, c))
      BY <1>4, <2>1 DEF Leveled, ChildFits
    <3>4. Load(Now, Kid(Now, i, c)) = MaxKeys
      BY <1>11, <2>1, <2>3, <3>3 DEF SameNode
    <3> QED BY <2>2, <3>2, <3>4 DEF Ahead
  <2> QED BY <2>1, <2>3 DEF Ahead
<1>13. Goes(g, next, k, 1)
  <2>1. ~(1 <= Load(g, next)) /\ 1 .. (1 - 1) = {}
    BY <1>11
  <2> QED BY <2>1 DEF Goes
<1>14. /\ call'.op = "insert" /\ call'.step = "splitRoot" /\ call'.key = k /\ call'.at = next
       /\ call'.idx = 1
  BY <1>2 DEF Inserting
<1>15. k \in span2[next] /\ ~(h2[next] < h2[next])
  BY <1>1, <1>11
<1> HIDE DEF g, h2, span2
<1>16. OnWay(g, h2, span2, call')
  <2>1. ASSUME NEW i \in Ids, ToPass(g, h2, span2, call', i) PROVE Ahead(g, i, k)
    <3>1. InnerFile(g, i) /\ k \in span2[i] /\ h2[i] < h2[next]
      BY <1>14, <2>1 DEF ToPass
    <3>2. i # next
      BY <1>15, <3>1
    <3> QED BY <1>12, <3>1, <3>2
  <2>2. InsertOnWay(g, h2, span2, call')
    BY <1>9, <1>11, <1>13, <1>14, <1>15, <2>1 DEF InsertOnWay
  <2> QED BY <1>14, <2>2 DEF OnWay
<1>17. \E par2, pos2, h3, span3 :
         /\ Leveled(Now', root', next', h3, par2, pos2) /\ Routed(Now', root', span3)
         /\ OnWay(Now', h3, span3, call')
  BY <1>3, <1>5, <1>7, <1>16 DEF g
<1> QED BY <1>17 DEF Mapped

(* Splitting the last child.                                               *)
LEMMA MappedSplits ==
  ASSUME Inv, Shape, Mapped, SplitChild
  PROVE  Mapped'
<1>1. /\ call.op = "insert" /\ call.step \in {"split", "splitRoot"}
      /\ call' = Continue(IF call.step = "splitRoot" THEN "descend" ELSE "pick",
                          call.at, call.idx)
      /\ root' = root /\ next' = next + 1 /\ call # Closed
  BY CallMade DEF SplitChild
<1>2. PICK h, par, pos, span :
        Leveled(Now, root, next, h, par, pos) /\ Routed(Now, root, span) /\ OnWay(Now, h, span, call)
  BY <1>1 DEF Mapped, Unopened
<1>3. InsertOnWay(Now, h, span, call)
  BY <1>1, <1>2 DEF OnWay
<1>4. call.idx = Degree(Now, call.at)
  BY <1>1, <1>3 DEF InsertOnWay
<1>5. PICK l : /\ SplitOf(Now, Now', next, call.at, l, call.idx)
               /\ SplitKeys(Now, Now', next, call.at, l)
  BY <1>4, SplitsKeys
<1>6. StoredIn(Now') = StoredIn(Now)
  BY StoredSplit, StoredIs
<1> DEFINE p == call.at
           i == call.idx
           g == Now'
           d == call'
           h2 == SplitLevel(h, next, l)
           span2 == SplitSpan(Now, span, next, l)
<1>7. next \in Nat /\ call.key \in Key /\ MaxKeys = 2 * MinKeys + 1
  BY <1>1, InsertFields, NodeSizes DEF Inv, TypeOK
<1>8. /\ d.op = "insert" /\ d.key = call.key /\ d.at = p /\ d.idx = i
      /\ d.step = IF call.step = "splitRoot" THEN "descend" ELSE "pick"
  BY <1>1 DEF Continue, Inserting
<1> HIDE DEF g, d, p, i
<1>9. SplitOf(Now, g, next, p, l, i) /\ SplitKeys(Now, g, next, p, l) /\ i = Degree(Now, p)
  BY <1>4, <1>5 DEF g, p, i
<1>10. Leveled(g, root, next + 1, h2, SplitPar(par, pos, next, p, l),
               SplitPos(par, pos, next, p, l, i))
  BY <1>2, <1>7, <1>9, LeveledSplits
<1>11. HangOnce(Now, root, next, p, l, i)
  BY <1>2, <1>9, KidsOnce
<1>12. Routed(g, root, span2)
  BY <1>2, <1>9, <1>11, RoutedSplits
<1>13. InsertOnWay(g, h2, span2, d)
  <2>1. p = call.at /\ i = call.idx /\ StoredIn(g) = StoredIn(Now)
    BY <1>6 DEF p, i, g
  <2> QED BY <1>1, <1>2, <1>3, <1>7, <1>8, <1>9, <2>1, WaySplits
<1>14. OnWay(g, h2, span2, d)
  BY <1>8, <1>13 DEF OnWay
<1>15. \E h3, par3, pos3, span3 :
         /\ Leveled(Now', root', next', h3, par3, pos3) /\ Routed(Now', root', span3)
         /\ OnWay(Now', h3, span3, call')
  BY <1>1, <1>10, <1>12, <1>14 DEF g, d
<1> QED BY <1>15 DEF Mapped

----------------------------------------------------------------------------
(* A step down the tree keeps to the route.                                *)
LEMMA ChildOnRoute ==
  ASSUME NEW f, NEW r, NEW n, NEW h, NEW par, NEW pos, Leveled(f, r, n, h, par, pos),
         NEW span, Routed(f, r, span), NEW a \in Ids, InnerFile(f, a),
         NEW k \in Key, k \in span[a], NEW c, Goes(f, a, k, c), c \in 1 .. Degree(f, a)
  PROVE  /\ Kid(f, a, c) \in Ids /\ There(f, Kid(f, a, c)) /\ k \in span[Kid(f, a, c)]
         /\ h[Kid(f, a, c)] < h[a]
<1>1. ChildFits(f, r, h, par, pos, a, c) /\ h \in [Ids -> Nat]
  BY DEF Leveled
<1>2. Kid(f, a, c) \in Ids /\ There(f, Kid(f, a, c)) /\ h[Kid(f, a, c)] + 1 = h[a]
  BY <1>1 DEF ChildFits
<1>3. k \in span[Kid(f, a, c)]
  BY DEF Routed, Parted
<1>4. h[Kid(f, a, c)] \in Nat /\ h[a] \in Nat
  BY <1>1, <1>2
<1> QED BY <1>2, <1>3, <1>4

(* An insert that goes down to a child has the rest of its way before it.  *)
LEMMA WayDown ==
  ASSUME NEW f, NEW h, h \in [Ids -> Nat], NEW span, NEW c, InsertOnWay(f, h, span, c),
         c.at \in Ids, InnerFile(f, c.at), c.key \in span[c.at],
         NEW x \in Ids, c.key \in span[x], h[x] < h[c.at],
         NEW d, d.op = "insert", d.step = "descend", d.key = c.key, d.at = x
  PROVE  OnWay(f, h, span, d)
<1>1. \A i \in Ids : InnerFile(f, i) /\ c.key \in span[i] /\ h[i] < h[c.at] => Ahead(f, i, c.key)
  BY DEF InsertOnWay, ToPass
<1>2. ASSUME NEW i \in Ids, ToPass(f, h, span, d, i) PROVE Ahead(f, i, d.key)
  <2>1. InnerFile(f, i) /\ c.key \in span[i] /\ (h[i] < h[x] \/ i = x)
    BY <1>2 DEF ToPass
  <2>2. h[i] \in Nat /\ h[x] \in Nat /\ h[c.at] \in Nat
    OBVIOUS
  <2>3. h[i] < h[c.at]
    BY <2>1, <2>2
  <2> QED BY <1>1, <2>1, <2>3
<1>3. InsertOnWay(f, h, span, d)
  BY <1>2 DEF InsertOnWay
<1> QED BY <1>3 DEF OnWay

(* What DescendInsert, PickHalf and DescendRemove do to the call.          *)
LEMMA MappedDescends ==
  ASSUME Inv, Shape, Mapped, DescendInsert
  PROVE  Mapped'
<1>1. /\ call.op = "insert" /\ call.step = "descend" /\ Ready /\ call # Closed
      /\ file[call.at] # NoFile /\ ~file[call.at].leaf
      /\ UNCHANGED <<file, meta, root, next, pend>>
  BY CallMade DEF DescendInsert
<1>2. Now = file /\ Now' = Now
  BY <1>1, NowWhenReady DEF Now, Ready
<1>3. ~Unopened
  BY <1>1 DEF Unopened
<1>4. PICK h, par, pos, span :
        Leveled(Now, root, next, h, par, pos) /\ Routed(Now, root, span) /\ OnWay(Now, h, span, call)
  BY <1>3 DEF Mapped
<1> DEFINE a == call.at
           k == call.key
           b == ChildIndex(file[a], k)
           x == Kid(Now, a, b)
           d == call'
<1>5. a \in Ids /\ k \in Key /\ InnerFile(Now, a) /\ Now[a] \in Node
  BY <1>1, <1>2, InsertFields, NowType DEF Inv, InnerFile
<1>6. InsertOnWay(Now, h, span, call) /\ k \in span[a]
  BY <1>1, <1>4 DEF OnWay, InsertOnWay
<1>7. b \in 1 .. Degree(Now, a) /\ Goes(Now, a, k, b)
  <2>1. b \in 1 .. Load(Now, a) + 1 /\ Goes(Now, a, k, b)
    BY <1>2, <1>5, CodeGoes
  <2>2. Degree(Now, a) = Load(Now, a) + 1
    BY <1>4, <1>5 DEF Routed
  <2> QED BY <2>1, <2>2
<1>8. d = IF Full(file[x]) THEN Continue("split", a, b) ELSE Continue("descend", x, 0)
  BY <1>2 DEF DescendInsert, Kid
<1>9. Full(file[x]) <=> Load(Now, x) = MaxKeys
  BY <1>2 DEF Full, Load
<1>10. h \in [Ids -> Nat]
  BY <1>4 DEF Leveled
<1> HIDE DEF b, x, d
<1>11. x = Kid(Now, a, b)
  BY DEF x
<1>12. x \in Ids /\ k \in span[x] /\ h[x] < h[a]
  BY <1>4, <1>5, <1>6, <1>7, <1>11, ChildOnRoute
<1>13. ASSUME Full(file[x]) PROVE OnWay(Now, h, span, d)
  <2>1. d.op = "insert" /\ d.step = "split" /\ d.key = k /\ d.at = a /\ d.idx = b
    BY <1>8, <1>13 DEF Continue, Inserting
  <2>2. Ahead(Now, a, k)
    BY <1>1, <1>5, <1>6 DEF InsertOnWay, ToPass
  <2>3. b = Degree(Now, a)
    BY <1>7, <1>9, <1>11, <1>13, <2>2 DEF Ahead
  <2>4. \A i \in Ids : ToPass(Now, h, span, d, i) => Ahead(Now, i, k)
    BY <1>6, <2>1 DEF InsertOnWay, ToPass
  <2>5. InsertOnWay(Now, h, span, d)
    BY <1>6, <1>7, <2>1, <2>3, <2>4 DEF InsertOnWay
  <2> QED BY <2>1, <2>5 DEF OnWay
<1>14. ASSUME ~Full(file[x]) PROVE OnWay(Now, h, span, d)
  <2>1. d.op = "insert" /\ d.step = "descend" /\ d.key = k /\ d.at = x
    BY <1>8, <1>14 DEF Continue, Inserting
  <2> QED BY <1>5, <1>6, <1>10, <1>12, <2>1, WayDown
<1>15. OnWay(Now, h, span, d)
  BY <1>13, <1>14
<1>16. /\ Leveled(Now', root', next', h, par, pos) /\ Routed(Now', root', span)
       /\ OnWay(Now', h, span, call')
  BY <1>1, <1>2, <1>4, <1>15 DEF d
<1> QED BY <1>16 DEF Mapped

(* PickHalf goes to the half of the split child that takes the key.        *)
LEMMA MappedPicks ==
  ASSUME Inv, Shape, Mapped, PickHalf
  PROVE  Mapped'
<1>1. /\ call.op = "insert" /\ call.step = "pick" /\ Ready /\ call # Closed
      /\ UNCHANGED <<file, meta, root, next, pend>>
  BY CallMade DEF PickHalf
<1>2. Now = file /\ Now' = Now
  BY <1>1, NowWhenReady DEF Now, Ready
<1>3. ~Unopened
  BY <1>1 DEF Unopened
<1>4. PICK h, par, pos, span :
        Leveled(Now, root, next, h, par, pos) /\ Routed(Now, root, span) /\ OnWay(Now, h, span, call)
  BY <1>3 DEF Mapped
<1> DEFINE a == call.at
           k == call.key
           i == call.idx
           b == IF i <= Load(Now, a) /\ k >= KeyAt(Now, a, i) THEN i + 1 ELSE i
           x == Kid(Now, a, b)
           d == call'
<1>5. /\ a \in Ids /\ k \in Key /\ InnerFile(Now, a) /\ Now[a] \in Node
      /\ i \in 1 .. Load(Now, a)
  BY <1>1, InsertFields, NowType DEF Inv, CallOK, InnerFile, Load
<1>6. /\ InsertOnWay(Now, h, span, call) /\ k \in span[a] /\ i + 1 = Degree(Now, a)
      /\ Goes(Now, a, k, i) \/ Goes(Now, a, k, i + 1)
  BY <1>1, <1>4 DEF OnWay, InsertOnWay
<1>7. /\ Degree(Now, a) = Load(Now, a) + 1 /\ Load(Now, a) \in Nat
      /\ KeyAt(Now, a, i) \in Nat /\ k \in Nat
  <2>1. Degree(Now, a) = Load(Now, a) + 1 /\ Ascending(Now, a, span[a]) /\ span[a] \in SUBSET Key
    BY <1>4, <1>5, FileIs DEF Routed
  <2>2. Load(Now, a) \in Nat /\ KeyAt(Now, a, i) \in Key
    BY <1>5, <2>1 DEF Ascending
  <2> QED BY <1>5, <2>1, <2>2, KeysAreNumbers
<1>8. d = Continue("descend", x, 0)
  BY <1>2 DEF PickHalf, Kid, Load, KeyAt
<1> HIDE DEF d, i, k, a
<1>9. b \in 1 .. Degree(Now, a) /\ Goes(Now, a, k, b)
  <2>1. CASE Goes(Now, a, k, i)
    <3>1. k < KeyAt(Now, a, i)
      BY <1>5, <2>1 DEF Goes
    <3>2. b = i
      BY <1>7, <3>1
    <3> QED BY <1>5, <1>7, <2>1, <3>2
  <2>2. CASE Goes(Now, a, k, i + 1)
    <3>1. i \in 1 .. (i + 1) - 1
      BY <1>5
    <3>2. KeyAt(Now, a, i) <= k
      BY <2>2, <3>1 DEF Goes
    <3>3. b = i + 1
      BY <1>5, <1>7, <3>2
    <3> QED BY <1>5, <1>7, <2>2, <3>3
  <2> QED BY <1>6, <2>1, <2>2
<1>10. h \in [Ids -> Nat]
  BY <1>4 DEF Leveled
<1> HIDE DEF b, x
<1>11. x = Kid(Now, a, b)
  BY DEF x
<1>12. x \in Ids /\ k \in span[x] /\ h[x] < h[a]
  BY <1>4, <1>5, <1>6, <1>9, <1>11, ChildOnRoute
<1>13. d.op = "insert" /\ d.step = "descend" /\ d.key = k /\ d.at = x
  BY <1>8 DEF Continue, Inserting, k
<1>14. OnWay(Now, h, span, d)
  <2> USE DEF k, a
  <2> QED BY <1>5, <1>6, <1>10, <1>12, <1>13, WayDown
<1>15. /\ Leveled(Now', root', next', h, par, pos) /\ Routed(Now', root', span)
       /\ OnWay(Now', h, span, call')
  BY <1>1, <1>2, <1>4, <1>14 DEF d
<1> QED BY <1>15 DEF Mapped

(* DescendRemove goes to the child on the route.                           *)
LEMMA MappedSeeks ==
  ASSUME Inv, Shape, Mapped, DescendRemove
  PROVE  Mapped'
<1>1. /\ call.op = "remove" /\ Ready /\ call # Closed
      /\ file[call.at] # NoFile /\ ~file[call.at].leaf
      /\ UNCHANGED <<file, meta, root, next, pend>>
  BY CallMade DEF DescendRemove
<1>2. Now = file /\ Now' = Now
  BY <1>1, NowWhenReady DEF Now, Ready
<1>3. ~Unopened
  BY <1>1 DEF Unopened
<1>4. PICK h, par, pos, span :
        Leveled(Now, root, next, h, par, pos) /\ Routed(Now, root, span) /\ OnWay(Now, h, span, call)
  BY <1>3 DEF Mapped
<1> DEFINE a == call.at
           k == call.key
           b == ChildIndex(file[a], k)
           x == Kid(Now, a, b)
           d == call'
<1>5. a \in Ids /\ k \in Key /\ InnerFile(Now, a) /\ Now[a] \in Node /\ k \in span[a]
  BY <1>1, <1>2, <1>4, RemoveFields, NowType DEF Inv, InnerFile, OnWay
<1>6. b \in 1 .. Degree(Now, a) /\ Goes(Now, a, k, b)
  <2>1. b \in 1 .. Load(Now, a) + 1 /\ Goes(Now, a, k, b)
    BY <1>2, <1>5, CodeGoes
  <2>2. Degree(Now, a) = Load(Now, a) + 1
    BY <1>4, <1>5 DEF Routed
  <2> QED BY <2>1, <2>2
<1>7. d = Removing(k, x)
  BY <1>2 DEF DescendRemove, Kid
<1> HIDE DEF b, x, d
<1>8. x = Kid(Now, a, b)
  BY DEF x
<1>9. k \in span[x]
  BY <1>4, <1>5, <1>6, <1>8, ChildOnRoute
<1>10. d.op = "remove" /\ d.key = k /\ d.at = x
  BY <1>7 DEF Removing
<1>11. OnWay(Now, h, span, d)
  BY <1>9, <1>10 DEF OnWay
<1>12. /\ Leveled(Now', root', next', h, par, pos) /\ Routed(Now', root', span)
       /\ OnWay(Now', h, span, call')
  BY <1>1, <1>2, <1>4, <1>11 DEF d
<1> QED BY <1>12 DEF Mapped

(* A remove starts at the root.                                            *)
LEMMA MappedRemoves ==
  ASSUME Inv, Shape, Mapped, NEW k \in Key, BeginRemove(k)
  PROVE  Mapped'
<1>1. /\ Ready /\ call = None /\ call' = Removing(k, root)
      /\ UNCHANGED <<file, meta, root, next, pend>>
  BY DEF BeginRemove, Idle
<1>2. Now' = Now
  BY <1>1 DEF Now, Ready
<1>3. ~Unopened
  BY <1>1, CallMade DEF Unopened
<1>4. PICK h, par, pos, span :
        Leveled(Now, root, next, h, par, pos) /\ Routed(Now, root, span) /\ OnWay(Now, h, span, call)
  BY <1>3 DEF Mapped
<1>5. call'.op = "remove" /\ call'.key = k /\ call'.at = root
  BY <1>1 DEF Removing
<1>6. OnWay(Now, h, span, call')
  BY <1>4, <1>5 DEF OnWay, Routed
<1>7. /\ Leveled(Now', root', next', h, par, pos) /\ Routed(Now', root', span)
      /\ OnWay(Now', h, span, call')
  BY <1>1, <1>2, <1>4, <1>6
<1> QED BY <1>7 DEF Mapped

----------------------------------------------------------------------------
(* One leaf of g differs from f.                                           *)
LeafChanged(f, g, a) ==
  /\ a \in Ids /\ f[a] # NoFile /\ f[a] \in Node /\ f[a].leaf
  /\ g[a] # NoFile /\ g[a].leaf
  /\ \A i \in Ids \ {a} : g[i] = f[i]

(* What is stored is in the changed leaf or in another one.                *)
LEMMA StoredChanges ==
  ASSUME NEW f, NEW g, NEW a, LeafChanged(f, g, a)
  PROVE  /\ \A e : e \in StoredIn(f) <=>
                     \/ e \in Pairs(f[a])
                     \/ \E i \in Ids \ {a} : f[i] # NoFile /\ f[i].leaf /\ e \in Pairs(f[i])
         /\ \A e : e \in StoredIn(g) <=>
                     \/ e \in Pairs(g[a])
                     \/ \E i \in Ids \ {a} : f[i] # NoFile /\ f[i].leaf /\ e \in Pairs(f[i])
<1>1. \A e : e \in StoredIn(f) <=>
               \/ e \in Pairs(f[a])
               \/ \E i \in Ids \ {a} : f[i] # NoFile /\ f[i].leaf /\ e \in Pairs(f[i])
  BY InStored DEF LeafChanged
<1>2. \A e : e \in StoredIn(g) <=>
               \/ e \in Pairs(g[a])
               \/ \E i \in Ids \ {a} : f[i] # NoFile /\ f[i].leaf /\ e \in Pairs(f[i])
  BY InStored DEF LeafChanged
<1> QED BY <1>1, <1>2

(* The routes stay if the keys of the leaf stay sorted and in its span.    *)
LEMMA RoutedChanges ==
  ASSUME NEW f, NEW g, NEW r, NEW span, Routed(f, r, span), NEW a, LeafChanged(f, g, a),
         SameTree(f, g), Len(g[a].keys) \in Nat, Sorted(g[a].keys),
         \A j \in 1 .. Len(g[a].keys) : g[a].keys[j] \in span[a]
  PROVE  Routed(g, r, span)
<1>1. \A j \in Ids : InnerFile(f, j) => \A c \in Nat : KeyAt(g, j, c) = KeyAt(f, j, c)
  BY DEF LeafChanged, InnerFile, KeyAt
<1>2. Ascending(g, a, span[a])
  BY DEF Ascending, Load, KeyAt, Sorted
<1>3. ASSUME NEW j \in Ids, LeafFile(g, j), j # a PROVE Ascending(g, j, span[j])
  <2>1. g[j] = f[j] /\ There(f, j)
    BY <1>3 DEF LeafChanged, LeafFile, There
  <2>2. Ascending(f, j, span[j])
    BY <2>1 DEF Routed
  <2> QED BY <2>1, <2>2 DEF Ascending, Load, KeyAt
<1>4. \A j \in Ids : LeafFile(g, j) => Ascending(g, j, span[j])
  BY <1>2, <1>3
<1> QED BY <1>1, <1>4, RoutedSame

(* The keys of a leaf of a routed tree.                                    *)
LEMMA LeafSorted ==
  ASSUME NEW f, NEW r, NEW span, Routed(f, r, span), NEW a \in Ids, f[a] # NoFile
  PROVE  /\ Sorted(f[a].keys) /\ Len(f[a].keys) \in Nat /\ span[a] \in SUBSET Key
         /\ \A j \in 1 .. Len(f[a].keys) : f[a].keys[j] \in span[a]
<1>1. Ascending(f, a, span[a]) /\ span[a] \in SUBSET Key
  BY DEF Routed, There
<1> QED BY <1>1 DEF Ascending, Load, KeyAt, Sorted

(* InsertIntoLeaf adds one pair, to the leaf that searches for its key     *)
(* come by.                                                                *)
LEMMA LeafInserts ==
  ASSUME Inv, NEW h, NEW span, Routed(Now, root, span), OnWay(Now, h, span, call),
         InsertIntoLeaf
  PROVE  /\ Routed(Now', root, span)
         /\ \A e \in Stored : e[1] # call.key
         /\ Stored' = Stored \cup {<<call.key, call.val>>}
<1> DEFINE a == call.at
           k == call.key
           v == call.val
           f == Now
           g == Now'
<1>1. call.op = "insert" /\ Ready /\ file[a] # NoFile /\ file[a].leaf
  BY DEF InsertIntoLeaf
<1>2. /\ Now = file /\ Now' = file' /\ a \in Ids /\ k \in Key /\ v \in Value
      /\ f[a] \in Node /\ g[a] \in Node /\ \A i \in Ids \ {a} : g[i] = f[i]
      /\ SameTree(f, g)
  BY <1>1, LeafEffect, LeafIs, InsertFields DEF Inv, KeepsTree
<1>3. g[a] = WithEntry(f[a], k, v)
  BY <1>2 DEF InsertIntoLeaf, Inv, TypeOK
<1>4. f[a] # NoFile /\ f[a].leaf /\ g[a] # NoFile /\ g[a].leaf
  <2>1. g[a].leaf
    BY <1>3 DEF WithEntry, LeafNode
  <2> QED BY <1>1, <1>2, <2>1, NoFileIsNoContent
<1>5. \A e \in StoredIn(f) : e[1] # k
  BY <1>1 DEF OnWay, InsertOnWay
<1>6. k \in span[a]
  BY <1>1 DEF OnWay, InsertOnWay
<1> HIDE DEF f, g, a, k, v
<1>7. LeafChanged(f, g, a)
  BY <1>2, <1>4 DEF LeafChanged
<1>8. Routed(f, root, span)
  BY DEF f
<1>9. Pairs(g[a]) = Pairs(f[a]) \cup {<<k, v>>}
  BY <1>2, <1>3, <1>4, PairsAdded
<1>10. /\ Sorted(f[a].keys) /\ Len(f[a].keys) \in Nat
       /\ \A j \in 1 .. Len(f[a].keys) : f[a].keys[j] \in span[a]
  BY <1>2, <1>4, <1>8, LeafSorted
<1>11. \A j \in 1 .. Len(f[a].keys) : f[a].keys[j] # k
  <2> SUFFICES ASSUME NEW j \in 1 .. Len(f[a].keys) PROVE f[a].keys[j] # k
    OBVIOUS
  <2>1. <<f[a].keys[j], f[a].kids[j]>> \in Pairs(f[a])
    BY DEF Pairs
  <2>2. <<f[a].keys[j], f[a].kids[j]>> \in StoredIn(f)
    BY <1>2, <1>4, <2>1, InStored
  <2> QED BY <1>5, <2>2
<1>12. /\ Len(g[a].keys) \in Nat /\ Sorted(g[a].keys)
       /\ \A j \in 1 .. Len(g[a].keys) :
            g[a].keys[j] = k \/ \E m \in 1 .. Len(f[a].keys) : g[a].keys[j] = f[a].keys[m]
  BY <1>2, <1>3, <1>4, <1>10, <1>11, LeafAdds
<1>13. Routed(g, root, span)
  <2>1. \A j \in 1 .. Len(g[a].keys) : g[a].keys[j] \in span[a]
    BY <1>6, <1>10, <1>12
  <2> QED BY <1>2, <1>7, <1>8, <1>12, <2>1, RoutedChanges
<1>14. StoredIn(g) = StoredIn(f) \cup {<<k, v>>}
  <2>1. \A e : e \in StoredIn(g) <=> e \in StoredIn(f) \/ e = <<k, v>>
    BY <1>7, <1>9, StoredChanges
  <2> QED BY <2>1
<1> QED BY <1>5, <1>13, <1>14, StoredIs DEF f, g, k, v

(* RemoveFromLeaf takes the pair with its key, if there is one: it would   *)
(* be in the leaf that searches for the key come by.                       *)
LEMMA LeafRemoves ==
  ASSUME Inv, NEW h, NEW par, NEW pos, Leveled(Now, root, next, h, par, pos),
         NEW span, Routed(Now, root, span), OnWay(Now, h, span, call),
         RemoveFromLeaf
  PROVE  Routed(Now', root, span) /\ Stored' = {e \in Stored : e[1] # call.key}
<1> DEFINE a == call.at
           k == call.key
           f == Now
           g == Now'
<1>1. call.op = "remove" /\ Ready /\ file[a] # NoFile /\ file[a].leaf
  BY DEF RemoveFromLeaf
<1>2. /\ Now = file /\ Now' = file' /\ a \in Ids /\ k \in Key
      /\ f[a] \in Node /\ g[a] \in Node /\ \A i \in Ids \ {a} : g[i] = f[i]
      /\ SameTree(f, g)
  BY LeafEffect, LeafIs DEF KeepsTree
<1>3. g[a] = IF HasKey(f[a], k) THEN WithoutEntry(f[a], k) ELSE f[a]
  BY <1>2 DEF RemoveFromLeaf, Inv, TypeOK
<1>4. f[a] # NoFile /\ f[a].leaf /\ g[a] # NoFile /\ g[a].leaf
  <2>1. g[a].leaf
    BY <1>1, <1>2, <1>3 DEF WithoutEntry, LeafNode
  <2> QED BY <1>1, <1>2, <2>1, NoFileIsNoContent
<1>5. k \in span[a]
  BY <1>1 DEF OnWay
<1> HIDE DEF f, g, a, k
<1>6. LeafChanged(f, g, a)
  BY <1>2, <1>4 DEF LeafChanged
<1>7. Routed(f, root, span) /\ Leveled(f, root, next, h, par, pos)
  BY DEF f
<1>8. /\ Sorted(f[a].keys) /\ Len(f[a].keys) \in Nat
      /\ \A j \in 1 .. Len(f[a].keys) : f[a].keys[j] \in span[a]
  BY <1>2, <1>4, <1>7, LeafSorted
<1>9. /\ Len(g[a].keys) \in Nat /\ Sorted(g[a].keys)
      /\ \A j \in 1 .. Len(g[a].keys) :
           g[a].keys[j] # k /\ \E m \in 1 .. Len(f[a].keys) : g[a].keys[j] = f[a].keys[m]
  <2>1. CASE HasKey(f[a], k)
    BY <1>2, <1>3, <1>4, <1>8, <2>1, LeafTakes
  <2>2. CASE ~HasKey(f[a], k)
    <3>1. \A c, d \in 1 .. Len(f[a].keys) : c < d => f[a].keys[c] < f[a].keys[d]
      BY <1>8 DEF Sorted
    <3>2. \A j \in 1 .. Len(f[a].keys) : f[a].keys[j] # k
      BY <1>2, <1>4, <2>2, <3>1, LeafIndexFinds
    <3> QED BY <1>3, <1>8, <2>2, <3>2
  <2> QED BY <2>1, <2>2
<1>10. Routed(g, root, span)
  <2>1. \A j \in 1 .. Len(g[a].keys) : g[a].keys[j] \in span[a]
    BY <1>8, <1>9
  <2> QED BY <1>2, <1>6, <1>7, <1>9, <2>1, RoutedChanges
<1>11. /\ Pairs(g[a]) \subseteq Pairs(f[a])
       /\ \A e \in Pairs(f[a]) \ Pairs(g[a]) : e[1] = k
  BY <1>2, <1>3, <1>4, PairsTaken
<1>12. \A e \in Pairs(g[a]) : e[1] # k
  BY <1>9 DEF Pairs
<1>13. ASSUME NEW i \in Ids \ {a}, f[i] # NoFile, f[i].leaf, NEW e \in Pairs(f[i])
       PROVE  e[1] # k
  <2>1. /\ LeafFile(f, i) /\ There(f, i) /\ LeafFile(f, a) /\ There(f, a)
    BY <1>4, <1>13 DEF LeafFile, There
  <2>2. h[i] = h[a]
    BY <1>2, <1>7, <2>1 DEF Leveled
  <2>3. e[1] \in span[i]
    BY <1>7, <1>13, <2>1, PairsOfLeaf
  <2>4. e[1] = k => i = a
    BY <1>2, <1>5, <1>7, <2>1, <2>2, <2>3, SpansApart
  <2> QED BY <1>13, <2>4
<1>14. StoredIn(g) = {e \in StoredIn(f) : e[1] # k}
  <2>1. \A e : e \in StoredIn(g) <=> e \in StoredIn(f) /\ e[1] # k
    BY <1>6, <1>11, <1>12, <1>13, StoredChanges
  <2> QED BY <2>1
<1> QED BY <1>10, <1>14, StoredIs DEF f, g, k

----------------------------------------------------------------------------
(* Steps that leave the files and the root as they are, and end or         *)
(* continue a call that stays where it is.                                 *)
LEMMA MappedStays ==
  ASSUME Mapped, Now' = Now, root' = root, next' = next, Unopened => Unopened',
         call' = call \/ call'.op \notin {"insert", "remove"}
  PROVE  Mapped'
<1>1. CASE Unopened
  BY <1>1 DEF Mapped
<1>2. CASE ~Unopened
  <2>1. PICK h, par, pos, span :
          Leveled(Now, root, next, h, par, pos) /\ Routed(Now, root, span) /\ OnWay(Now, h, span, call)
    BY <1>2 DEF Mapped
  <2>2. OnWay(Now, h, span, call')
    BY <2>1 DEF OnWay
  <2>3. /\ Leveled(Now', root', next', h, par, pos) /\ Routed(Now', root', span)
        /\ OnWay(Now', h, span, call')
    BY <2>1, <2>2
  <2> QED BY <2>3 DEF Mapped
<1> QED BY <1>1, <1>2

(* Opening finds the routes as they were, or makes the fresh ones.         *)
LEMMA MappedOpens ==
  ASSUME Inv, Inv', Shape, Mapped, OpenExisting \/ OpenFresh \/ OpenInferring
  PROVE  Mapped'
<1>1. call'.op \notin {"insert", "remove"}
  BY CallMade DEF OpenExisting, OpenFresh, OpenInferring
<1>2. CASE OpenFresh
  <2>1. FreshOf(Now') /\ root' = 0 /\ next' = 1
    BY <1>2, OpenIs DEF FreshTree
  <2>2. PICK h, par, pos : Leveled(Now', root', next', h, par, pos)
    BY <2>1, LeveledFresh
  <2>3. Load(Now', 0) = 0
    BY <1>2, FreshEffect, FreshNodes DEF Load
  <2>4. PICK span : Routed(Now', root', span)
    BY <2>1, <2>3, RoutedFresh
  <2>5. OnWay(Now', h, span, call')
    BY <1>1 DEF OnWay
  <2> QED BY <2>2, <2>4, <2>5 DEF Mapped
<1>3. CASE ~OpenFresh
  <2>1. root' = root /\ next' = next /\ (Unopened => Unopened')
    BY <1>3, OpenIs DEF KeepsTree
  <2>2. Now' = Now
    <3>1. CASE OpenExisting
      BY <3>1 DEF OpenExisting, Now, Ready
    <3>2. CASE OpenInferring
      <4>1. \A i \in Ids : Now'[i] = Now[i]
        BY <3>2, InferEffect
      <4> QED BY <4>1, NowSame DEF Inv
    <3> QED BY <1>3, <3>1, <3>2
  <2> QED BY <1>1, <2>1, <2>2, MappedStays
<1> QED BY <1>2, <1>3

(* The last step of a call leaves routes, and no call on its way.          *)
LEMMA MappedReturns ==
  ASSUME Inv, Shape, Mapped, InsertIntoLeaf \/ RemoveFromLeaf
  PROVE  Mapped'
<1>1. /\ SameTree(Now, Now') /\ root' = root /\ next' = next /\ call' = None
      /\ call.op \in {"insert", "remove"}
  BY LeafIs DEF KeepsTree, InsertIntoLeaf, RemoveFromLeaf
<1>2. ~Unopened
  BY <1>1, CallMade DEF Unopened
<1>3. PICK h, par, pos, span :
        Leveled(Now, root, next, h, par, pos) /\ Routed(Now, root, span) /\ OnWay(Now, h, span, call)
  BY <1>2 DEF Mapped
<1>4. Leveled(Now', root', next', h, par, pos)
  BY <1>1, <1>3, LeveledSame
<1>5. Routed(Now', root', span)
  BY <1>1, <1>3, LeafInserts, LeafRemoves
<1>6. OnWay(Now', h, span, call')
  BY <1>1, CallMade DEF OnWay
<1> QED BY <1>4, <1>5, <1>6 DEF Mapped

(* Every step of a run whose splits stay at the edge keeps the routes.     *)
LEMMA MappedStep ==
  ASSUME Inv, Inv', Shape, Mapped, [Next /\ AtEdge]_vars
  PROVE  Mapped'
<1>1. CASE WriteFile
  <2>1. root' = root /\ next' = next /\ call' = call /\ (Unopened => Unopened')
    BY <1>1, WriteIs DEF KeepsTree, WriteFile
  <2>2. Now' = Now
    BY <1>1, WriteKeepsNow, NowSame DEF Inv
  <2> QED BY <2>1, <2>2, MappedStays
<1>2. CASE SplitChild \/ PickHalf \/ DescendInsert \/ DescendRemove
  BY <1>2, MappedSplits, MappedPicks, MappedDescends, MappedSeeks
<1>3. CASE InsertIntoLeaf \/ RemoveFromLeaf
  BY <1>3, MappedReturns
<1>4. CASE OpenExisting \/ OpenFresh \/ OpenInferring
  BY <1>4, MappedOpens
<1>5. ASSUME NEW k \in Key, NEW v \in Value, BeginInsert(k, v) \/ GrowRoot(k, v), AtEdge
      PROVE  Mapped'
  <2>1. call = None /\ call'.op = "insert" /\ call'.key = k
    BY <1>5 DEF BeginInsert, GrowRoot, MayInsert, Idle, Inserting
  <2>2. SplitsAtEdge(k)
    BY <1>5, <2>1 DEF AtEdge
  <2> QED BY <1>5, <2>2, MappedBegins, MappedGrows
<1>6. ASSUME NEW k \in Key, BeginRemove(k) PROVE Mapped'
  BY <1>6, MappedRemoves
<1>7. CASE Close \/ CallThrows \/ MetadataAbsent \/ UNCHANGED vars
  <2>1. /\ UNCHANGED <<file, root, next, pend>>
        /\ call' = call \/ call'.op \notin {"insert", "remove"}
    BY <1>7, CallMade DEF Close, CallThrows, MetadataAbsent, vars
  <2>2. Unopened => Unopened'
    BY <1>7, CallMade DEF Unopened, Close, Idle, CallThrows, MissesFile, MetadataAbsent, vars
  <2>3. Now' = Now
    BY <2>1 DEF Now, Ready
  <2> QED BY <2>1, <2>2, <2>3, MappedStays
<1> QED
  BY <1>1, <1>2, <1>3, <1>4, <1>5, <1>6, <1>7 DEF Next, Running, Calls

(* A workload that splits at the edge is a run of the program.             *)
LEMMA EdgeRunsAreRuns == EdgeSpec => Spec
<1>1. [Next /\ AtEdge]_vars => [Next]_vars
  OBVIOUS
<1> QED BY <1>1, PTL DEF EdgeSpec, Spec

(* There are routes as long as splits stay at the edge.                    *)
LEMMA MappedAlways == EdgeSpec => [](Inv /\ Shape /\ Mapped)
<1>1. Init => Mapped
  BY DEF Init, Mapped, Unopened
<1>2. Inv /\ Inv' /\ Shape /\ Mapped /\ [Next /\ AtEdge]_vars => Mapped'
  BY MappedStep
<1>3. EdgeSpec => [](Inv /\ Shape)
  BY EdgeRunsAreRuns, ShapeAlways, PTL
<1> QED BY <1>1, <1>2, <1>3, PTL DEF EdgeSpec

----------------------------------------------------------------------------
(* What a search of the whole tree answers: what is stored, and nothing is *)
(* lost.                                                                   *)
Answered == Entries = Stored /\ Lost = {}

(* The root a search starts from is the root of the tree, open or not.     *)
LEMMA RootIsCurrent ==
  ASSUME Inv, Shape, ~Unopened
  PROVE  CurrentRoot = root
<1>1. CASE call # Closed
  BY <1>1 DEF CurrentRoot
<1>2. CASE call = Closed
  <2>1. pend = <<>> /\ Len(<<>>) = 0 /\ Now = file
    BY <1>2, NowWhenReady DEF Inv, CallOK, Ready
  <2>2. CASE meta # NoFile
    BY <1>2, <2>1, <2>2 DEF CurrentRoot, Shape, Told
  <2>3. CASE meta = NoFile
    <3>1. InferRoot(file) = root
      BY <2>1, TreeInfers DEF Shape
    <3> QED BY <1>2, <2>3, <3>1 DEF CurrentRoot
  <2> QED BY <2>2, <2>3
<1> QED BY <1>1, <1>2

(* A directory never opened answers nothing.                               *)
LEMMA NothingYet ==
  ASSUME Inv, Unopened
  PROVE  Answered
<1>1. call = Closed /\ meta = NoFile /\ \A i \in Ids : file[i] = NoFile
  BY DEF Unopened
<1>2. Now = file /\ 0 \in Ids
  BY <1>1, NowWhenReady, Bounds DEF Inv, CallOK, Ids
<1>3. CurrentRoot = 0
  <2>1. Unreferenced(file) = {}
    BY <1>1 DEF Unreferenced, Files
  <2> QED BY <1>1, <2>1 DEF CurrentRoot, InferRoot
<1>4. Lost = {}
  BY <1>1, <1>2, <1>3 DEF Lost
<1>5. ASSUME NEW k \in Key PROVE Search(file, 0, k) = {}
  <2>1. PICK D : IsPath(file, k, D)
    BY PathDescends
  <2>2. MaxNodeId + 1 \in 0 .. MaxNodeId + 1 /\ Stops(file, 0)
    BY <1>1, <1>2, Bounds DEF Stops
  <2>3. LeafFor(file, 0, k) = 0
    BY <1>2, <2>1, <2>2 DEF IsPath, LeafFor
  <2> QED BY <1>1, <1>2, <2>3 DEF Search
<1>6. Entries = {}
  BY <1>2, <1>3, <1>5 DEF Entries
<1>7. Stored = {}
  <2>1. \A e : e \notin StoredIn(Now)
    BY <1>1, <1>2, InStored
  <2> QED BY <2>1, StoredIs
<1> QED BY <1>4, <1>6, <1>7 DEF Answered

(* In a tree with routes a search for a key finds the pair stored with it. *)
LEMMA RoutesAnswer ==
  ASSUME Inv, Shape, Mapped
  PROVE  Answered
<1>1. CASE Unopened
  BY <1>1, NothingYet
<1>2. CASE ~Unopened
  <2>1. PICK h, par, pos, span :
          Leveled(Now, root, next, h, par, pos) /\ Routed(Now, root, span)
    BY <1>2 DEF Mapped
  <2>2. CurrentRoot = root
    BY <1>2, RootIsCurrent
  <2>3. /\ next \in Nat /\ next <= MaxNodeId + 1
        /\ \A j \in Ids : There(Now, j) => Now[j] \in Node
    BY <1>2, NodesThere
  <2>4. \A k \in Key : /\ Reaches(Now, root, k)
                       /\ Search(Now, root, k) = {e \in StoredIn(Now) : e[1] = k}
    BY <2>1, <2>3, SearchIs
  <2>5. ASSUME NEW e \in StoredIn(Now) PROVE e[1] \in Key
    <3>1. PICK i \in Ids : Now[i] # NoFile /\ Now[i].leaf /\ e \in Pairs(Now[i])
      BY <2>5, InStored
    <3>2. LeafFile(Now, i)
      BY <3>1 DEF LeafFile
    <3> QED BY <2>1, <3>1, <3>2, PairsOfLeaf
  <2>6. Entries = StoredIn(Now)
    <3>1. \A e : e \in Entries <=> \E k \in Key : e \in Search(Now, root, k)
      BY <2>2 DEF Entries
    <3>2. \A e : e \in Entries <=> e \in StoredIn(Now)
      BY <2>4, <2>5, <3>1
    <3> QED BY <3>2
  <2>7. Lost = {}
    BY <2>2, <2>4 DEF Lost
  <2> QED BY <2>6, <2>7, StoredIs DEF Answered
<1> QED BY <1>1, <1>2

(* So searches answer what is stored, in every state.                      *)
LEMMA AnsweredAlways == EdgeSpec => [](Inv /\ Shape /\ Mapped /\ Answered)
<1>1. Inv /\ Shape /\ Mapped => Answered
  BY RoutesAnswer
<1> QED BY <1>1, MappedAlways, PTL
----------------------------------------------------------------------------
(***************************************************************************)
(* The steps of the tree as steps of the map that IndexCalls specifies.    *)
(***************************************************************************)
RequestKept ==
  /\ call'.op = call.op \/ {call.op, call'.op} \cap {"insert", "remove"} = {}
  /\ call.op \in {"insert", "remove"} => call'.key = call.key
  /\ call.op = "insert" => call'.val = call.val

(* What the caller sees of a call that goes on.                            *)
LEMMA RequestSame ==
  ASSUME RequestKept
  PROVE  Request' = Request
BY DEF RequestKept, Request

(* A step that changes neither what is stored nor the request is none of   *)
(* the map's.                                                              *)
LEMMA QuietIsStutter ==
  ASSUME Answered, Answered', Stored' = Stored, RequestKept
  PROVE  UNCHANGED Index!callVars
BY RequestSame DEF Answered, Index!callVars

(* An insert begins as a request of the map.                               *)
LEMMA InsertBegins ==
  ASSUME Inv, Shape, Mapped, Answered, Answered', NEW k \in Key, NEW v \in Value,
         BeginInsert(k, v) \/ GrowRoot(k, v)
  PROVE  Index!Request
<1>1. /\ call = None /\ Ready /\ ~Contained(k) /\ file[root] # NoFile
      /\ call'.op = "insert" /\ call'.key = k /\ call'.val = v
  BY DEF BeginInsert, GrowRoot, MayInsert, Idle, Inserting
<1>2. Stored' = Stored
  <2>1. CASE BeginInsert(k, v)
    <3>1. Now' = Now
      BY <2>1 DEF BeginInsert, Now, Ready
    <3> QED BY <3>1, StoredIs
  <2>2. CASE GrowRoot(k, v)
    BY <2>2, StoredGrow
  <2> QED BY <2>1, <2>2
<1>3. Entries' = Entries /\ Lost' = Lost
  BY <1>2 DEF Answered
<1>4. ~Unopened /\ Now = file
  BY <1>1, CallMade, NowWhenReady DEF Unopened
<1>5. \A e \in Entries : e[1] # k
  <2>1. PICK h, par, pos, span :
          Leveled(Now, root, next, h, par, pos) /\ Routed(Now, root, span)
    BY <1>4 DEF Mapped
  <2>2. \A e \in StoredIn(file) : e[1] # k
    BY <1>1, <1>4, <2>1, NotContained
  <2> QED BY <1>4, <2>2, StoredIs DEF Answered
<1>6. /\ Request = [op |-> "none"]
      /\ Request' = [op |-> "insert", key |-> k, val |-> v]
  BY <1>1, CallMade DEF Request
<1>7. ~Index!Holds(k)
  BY <1>5 DEF Index!Holds
<1> QED
  BY <1>3, <1>6, <1>7 DEF Index!Request, Index!NoRequest, Index!InsertRequest

(* A remove begins as a request of the map.                                *)
LEMMA RemoveBegins ==
  ASSUME Inv, Answered, Answered', NEW k \in Key, BeginRemove(k)
  PROVE  Index!Request
<1>1. call = None /\ call'.op = "remove" /\ call'.key = k /\ Now' = Now
  BY DEF BeginRemove, Idle, Removing, Now, Ready
<1>2. Entries' = Entries /\ Lost' = Lost
  BY <1>1, StoredIs DEF Answered
<1>3. Request = [op |-> "none"] /\ Request' = [op |-> "remove", key |-> k]
  BY <1>1, CallMade DEF Request
<1> QED BY <1>2, <1>3 DEF Index!Request, Index!NoRequest, Index!RemoveRequest

(* An insert takes effect with its last write.                             *)
LEMMA InsertTakesEffect ==
  ASSUME Inv, Mapped, Answered, Answered', InsertIntoLeaf
  PROVE  Index!DoInsert
<1>1. call.op = "insert" /\ call' = None
  BY DEF InsertIntoLeaf
<1>2. PICK h, par, pos, span :
        Leveled(Now, root, next, h, par, pos) /\ Routed(Now, root, span) /\ OnWay(Now, h, span, call)
  BY <1>1, CallMade DEF Mapped, Unopened
<1>3. /\ \A e \in Stored : e[1] # call.key
      /\ Stored' = Stored \cup {<<call.key, call.val>>}
  BY <1>2, LeafInserts
<1>4. /\ Request = [op |-> "insert", key |-> call.key, val |-> call.val]
      /\ Request' = [op |-> "none"]
  BY <1>1, CallMade DEF Request
<1>5. /\ Entries' = Entries \cup {<<call.key, call.val>>} /\ Lost' = Lost /\ Lost = {}
      /\ \A e \in Entries : e[1] # call.key
  BY <1>3 DEF Answered
<1>6. Request.op = "insert" /\ Request.key = call.key /\ Request.val = call.val
  BY <1>4
<1>7. Index!Put(call.key, call.val)
  BY <1>5 DEF Index!Put, Index!Holds
<1> QED BY <1>4, <1>6, <1>7 DEF Index!DoInsert, Index!NoRequest

(* A remove takes effect with its last write.                              *)
LEMMA RemoveTakesEffect ==
  ASSUME Inv, Mapped, Answered, Answered', RemoveFromLeaf
  PROVE  Index!DoRemove
<1>1. call.op = "remove" /\ call' = None
  BY DEF RemoveFromLeaf
<1>2. PICK h, par, pos, span :
        Leveled(Now, root, next, h, par, pos) /\ Routed(Now, root, span) /\ OnWay(Now, h, span, call)
  BY <1>1, CallMade DEF Mapped, Unopened
<1>3. Stored' = {e \in Stored : e[1] # call.key}
  BY <1>2, LeafRemoves
<1>4. /\ Request = [op |-> "remove", key |-> call.key]
      /\ Request' = [op |-> "none"]
  BY <1>1, CallMade DEF Request
<1>5. /\ Entries' = {e \in Entries : e[1] # call.key} /\ Lost' = Lost /\ Lost = {}
  BY <1>3 DEF Answered
<1>6. Request.op = "remove" /\ Request.key = call.key
  BY <1>4
<1>7. Index!Delete(call.key)
  BY <1>5 DEF Index!Delete
<1> QED BY <1>4, <1>6, <1>7 DEF Index!DoRemove, Index!NoRequest

(* Every step of the tree is a step of the map, or none.                   *)
LEMMA StepsOfIndex ==
  ASSUME Inv, Inv', Shape, Mapped, Answered, Answered', Ready => ~MissesFile,
         [Next /\ AtEdge]_vars
  PROVE  [Index!IndexNext]_(Index!callVars)
<1>1. CASE WriteFile
  <2>1. call' = call /\ Now' = Now
    BY <1>1, WriteKeepsNow, NowSame DEF Inv, WriteFile
  <2> QED BY <2>1, QuietIsStutter, StoredIs DEF RequestKept
<1>2. CASE SplitChild \/ PickHalf \/ DescendInsert
  <2>1. /\ call.op = "insert" /\ call'.op = "insert" /\ call'.key = call.key
        /\ call'.val = call.val
    BY <1>2 DEF SplitChild, PickHalf, DescendInsert, Continue, Inserting
  <2>2. Stored' = Stored
    <3>1. CASE SplitChild
      BY <3>1, StoredSplit
    <3>2. CASE PickHalf \/ DescendInsert
      <4>1. Now' = Now
        BY <3>2 DEF PickHalf, DescendInsert, Now, Ready
      <4> QED BY <4>1, StoredIs
    <3> QED BY <1>2, <3>1, <3>2
  <2> QED BY <2>1, <2>2, QuietIsStutter DEF RequestKept
<1>3. CASE DescendRemove
  <2>1. call.op = "remove" /\ call'.op = "remove" /\ call'.key = call.key /\ Now' = Now
    BY <1>3 DEF DescendRemove, Removing, Now, Ready
  <2> QED BY <2>1, QuietIsStutter, StoredIs DEF RequestKept
<1>4. CASE InsertIntoLeaf
  BY <1>4, InsertTakesEffect DEF Index!IndexNext
<1>5. CASE RemoveFromLeaf
  BY <1>5, RemoveTakesEffect DEF Index!IndexNext
<1>6. CASE OpenExisting \/ OpenFresh \/ OpenInferring
  <2>1. call.op = "closed" /\ call'.op = "none"
    BY <1>6, CallMade DEF OpenExisting, OpenFresh, OpenInferring
  <2> QED BY <1>6, <2>1, StoredOpen, QuietIsStutter DEF RequestKept
<1>7. ASSUME NEW k \in Key, NEW v \in Value, BeginInsert(k, v) \/ GrowRoot(k, v)
      PROVE  Index!IndexNext
  BY <1>7, InsertBegins DEF Index!IndexNext
<1>8. ASSUME NEW k \in Key, BeginRemove(k) PROVE Index!IndexNext
  BY <1>8, RemoveBegins DEF Index!IndexNext
<1>9. ~CallThrows
  BY DEF CallThrows
<1>10. CASE Close \/ MetadataAbsent \/ UNCHANGED vars
  <2>1. Now' = Now /\ (call' = call \/ (call.op = "none" /\ call'.op = "closed"))
    <3>1. file' = file /\ pend' = pend
      BY <1>10 DEF Close, MetadataAbsent, vars
    <3>2. Now' = Now
      BY <3>1 DEF Now, Ready
    <3>3. call' = call \/ (call = None /\ call' = Closed)
      BY <1>10 DEF Close, Idle, MetadataAbsent, vars
    <3> QED BY <3>2, <3>3, CallMade
  <2> QED BY <2>1, QuietIsStutter, StoredIs DEF RequestKept
<1> QED
  BY <1>1, <1>2, <1>3, <1>4, <1>5, <1>6, <1>7, <1>8, <1>9, <1>10 DEF Next, Running, Calls

(* While every full node on the way of an insert is the last child of its  *)
(* parent - keys in ascending order, or a tree with fewer than 384 inserts *)
(* - the node files are a map: an insert that returns has added its entry, *)
(* a remove has taken its entry away, and no split, no growth of the root, *)
(* no reopening and no inference of lost metadata changes what search      *)
(* answers (b_tree.cpp:89-337).                                            *)
THEOREM TreeIsIndex == EdgeSpec => ImplementsIndex
<1>1. Init => Index!IndexInit /\ Request = Index!NoRequest
  <2> SUFFICES ASSUME Init PROVE Index!IndexInit /\ Request = Index!NoRequest
    OBVIOUS
  <2>1. Unopened /\ Inv
    BY InvStart DEF Init, Unopened
  <2>2. Entries = Stored /\ Lost = {}
    BY <2>1, NothingYet DEF Answered
  <2>3. Stored = {}
    <3>1. Now = file /\ \A i \in Ids : file[i] = NoFile
      BY <2>1, NowWhenReady DEF Unopened, Inv, CallOK
    <3>2. \A e : e \notin StoredIn(Now)
      BY <3>1, InStored
    <3> QED BY <3>2, StoredIs
  <2>4. Request = [op |-> "none"]
    BY <2>1, CallMade DEF Request, Unopened
  <2> QED BY <2>2, <2>3, <2>4 DEF Index!IndexInit, Index!NoRequest
<1>2. Inv /\ Inv' /\ Shape /\ Mapped /\ Answered /\ Answered' /\ (Ready => ~MissesFile)
      /\ [Next /\ AtEdge]_vars
        => [Index!IndexNext]_(Index!callVars)
  <2> SUFFICES ASSUME Inv, Inv', Shape, Mapped, Answered, Answered', Ready => ~MissesFile,
                      [Next /\ AtEdge]_vars
               PROVE  [Index!IndexNext]_(Index!callVars)
    OBVIOUS
  <2> QED BY StepsOfIndex
<1>3. EdgeSpec => [](Ready => ~MissesFile)
  BY EdgeRunsAreRuns, NothingMissing, PTL
<1> QED
  BY <1>1, <1>2, <1>3, AnsweredAlways, PTL DEF EdgeSpec, ImplementsIndex, Index!IndexSpec

(* So what was found stays found until it is removed, which is more than   *)
(* holds of keys in any order: the entries are exactly the pairs that the  *)
(* leaves keep (b_tree.cpp:150-175).                                        *)
THEOREM FoundAtEdge == EdgeSpec => FoundUntilRemoved
<1> DEFINE Stays == \A e \in Entries : e \in Entries' \/ (call.op = "remove" /\ e[1] = call.key)
<1>1. Inv /\ Inv' /\ Answered /\ Answered' /\ [Next /\ AtEdge]_vars => [Stays]_vars
  <2> SUFFICES ASSUME Inv, Inv', Answered, Answered', Next PROVE Stays
    OBVIOUS
  <2>1. Keeps
    BY KeepsStep
  <2> QED BY <2>1 DEF Keeps, Answered
<1>2. EdgeSpec => [][Stays]_vars
  BY <1>1, AnsweredAlways, PTL DEF EdgeSpec
<1> QED BY <1>2, PTL DEF FoundUntilRemoved
===============================================================================
