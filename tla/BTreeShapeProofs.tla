--------------------------- MODULE BTreeShapeProofs ---------------------------
(***************************************************************************)
(* Theorems about the tree that a program which is not killed builds, for  *)
(* every node size, set of keys, order of the keys and number of node      *)
(* files: leaves keep their pairs, no node file is missing, and the root   *)
(* and the next id can be told from the node files.                        *)
(***************************************************************************)
EXTENDS BTreeProofs

(* The elements of a sequence with one more, with one less, and cut.       *)
LEMMA InsertAtElements ==
  ASSUME NEW S, NEW s \in Seq(S), NEW e \in S, NEW i \in 1 .. Len(s) + 1,
         NEW j \in 1 .. Len(s) + 1
  PROVE  InsertAt(s, i, e)[j] = IF j < i THEN s[j] ELSE IF j = i THEN e ELSE s[j - 1]
<1> DEFINE a == SubSeq(s, 1, i - 1)
           b == SubSeq(s, i, Len(s))
           c == a \o <<e>>
<1>1. Len(s) \in Nat /\ \A m \in 1 .. Len(s) : s[m] \in S
  BY LenProperties
<1>2. a \in Seq(S) /\ Len(a) = i - 1 /\ \A m \in 1 .. i - 1 : a[m] = s[m]
  BY <1>1, SubSeqProperties
<1>3. /\ b \in Seq(S) /\ Len(b) = Len(s) - i + 1
      /\ \A m \in 1 .. Len(s) - i + 1 : b[m] = s[i + m - 1]
  BY <1>1, SubSeqProperties
<1>4. <<e>> \in Seq(S) /\ Len(<<e>>) = 1 /\ <<e>>[1] = e
  OBVIOUS
<1>5. InsertAt(s, i, e) = c \o b
  BY DEF InsertAt
<1> HIDE DEF a, b
<1>6. /\ c \in Seq(S) /\ Len(c) = i
      /\ \A m \in 1 .. i : c[m] = IF m <= i - 1 THEN a[m] ELSE <<e>>[m - (i - 1)]
  BY <1>2, <1>4, ConcatProperties
<1> HIDE DEF c
<1>7. (c \o b)[j] = IF j <= i THEN c[j] ELSE b[j - i]
  BY <1>1, <1>3, <1>6, ConcatProperties
<1>8. CASE j < i
  <2>1. (c \o b)[j] = c[j] /\ j \in 1 .. i - 1
    BY <1>1, <1>7, <1>8
  <2>2. c[j] = a[j]
    BY <1>1, <1>6, <2>1
  <2> QED BY <1>2, <1>5, <1>8, <2>1, <2>2
<1>9. CASE j = i
  BY <1>1, <1>4, <1>5, <1>6, <1>7, <1>9
<1>10. CASE j > i
  <2>1. j - i \in 1 .. Len(s) - i + 1 /\ i + (j - i) - 1 = j - 1
    BY <1>1, <1>10
  <2>2. (c \o b)[j] = b[j - i] /\ b[j - i] = s[j - 1]
    BY <1>3, <1>7, <1>10, <2>1
  <2> QED BY <1>5, <1>10, <2>2
<1> QED BY <1>8, <1>9, <1>10

LEMMA RemoveAtElements ==
  ASSUME NEW S, NEW s \in Seq(S), NEW i \in 1 .. Len(s), NEW j \in 1 .. Len(s) - 1
  PROVE  RemoveAt(s, i)[j] = IF j < i THEN s[j] ELSE s[j + 1]
<1> DEFINE a == SubSeq(s, 1, i - 1)
           b == SubSeq(s, i + 1, Len(s))
<1>1. Len(s) \in Nat /\ \A m \in 1 .. Len(s) : s[m] \in S
  BY LenProperties
<1>2. a \in Seq(S) /\ Len(a) = i - 1 /\ \A m \in 1 .. i - 1 : a[m] = s[m]
  BY <1>1, SubSeqProperties
<1>3. /\ b \in Seq(S) /\ Len(b) = Len(s) - i
      /\ \A m \in 1 .. Len(s) - i : b[m] = s[i + m]
  <2>1. \A m \in 1 .. Len(s) - i : (i + 1) + m - 1 = i + m
    BY <1>1
  <2> QED BY <1>1, <2>1, SubSeqProperties
<1>4. RemoveAt(s, i) = a \o b
  BY DEF RemoveAt
<1> HIDE DEF a, b
<1>5. (a \o b)[j] = IF j <= i - 1 THEN a[j] ELSE b[j - (i - 1)]
  BY <1>1, <1>2, <1>3, ConcatProperties
<1>6. CASE j < i
  BY <1>1, <1>2, <1>4, <1>5, <1>6
<1>7. CASE j >= i
  <2>1. j - (i - 1) \in 1 .. Len(s) - i /\ i + (j - (i - 1)) = j + 1
    BY <1>1, <1>7
  <2> QED BY <1>1, <1>3, <1>4, <1>5, <1>7, <2>1
<1> QED BY <1>1, <1>6, <1>7

LEMMA SubSeqElements ==
  ASSUME NEW S, NEW s \in Seq(S), NEW i \in Nat \ {0}, NEW j \in Nat, j <= Len(s), i <= j
  PROVE  \A m \in 1 .. j - i + 1 : SubSeq(s, i, j)[m] = s[i + m - 1]
<1>1. Len(s) \in Nat /\ \A m \in i .. j : s[m] \in S
  BY LenProperties
<1> QED BY <1>1, SubSeqProperties

LEMMA ToSetIs ==
  ASSUME NEW S, NEW s \in Seq(S)
  PROVE  ToSet(s) = {s[i] : i \in 1 .. Len(s)}
BY LenProperties DEF ToSet
----------------------------------------------------------------------------
(* The children of a node, before and after it gets another one, and of    *)
(* the two nodes that share them out.                                      *)
LEMMA InsertAtToSet ==
  ASSUME NEW S, NEW s \in Seq(S), NEW e \in S, NEW i \in 1 .. Len(s) + 1
  PROVE  ToSet(InsertAt(s, i, e)) = ToSet(s) \cup {e}
<1> DEFINE t == InsertAt(s, i, e)
<1>1. t \in Seq(S) /\ Len(t) = Len(s) + 1 /\ Len(s) \in Nat
  BY InsertAtSeq, LenProperties
<1>2. \A j \in 1 .. Len(s) + 1 :
        t[j] = IF j < i THEN s[j] ELSE IF j = i THEN e ELSE s[j - 1]
  BY InsertAtElements
<1> HIDE DEF t
<1>3. ToSet(t) \subseteq ToSet(s) \cup {e}
  <2> SUFFICES ASSUME NEW j \in 1 .. Len(s) + 1, t[j] # e PROVE t[j] \in ToSet(s)
    BY <1>1, ToSetIs
  <2>1. \E m \in 1 .. Len(s) : t[j] = s[m]
    <3>1. CASE j < i
      BY <1>1, <1>2, <3>1
    <3>2. CASE j > i
      <4>1. j - 1 \in 1 .. Len(s) /\ t[j] = s[j - 1]
        BY <1>1, <1>2, <3>2
      <4> QED BY <4>1
    <3> QED BY <1>1, <1>2, <3>1, <3>2
  <2> QED BY <2>1, ToSetIs
<1>4. e \in ToSet(t)
  <2>1. i \in 1 .. Len(t) /\ t[i] = e
    BY <1>1, <1>2
  <2> QED BY <1>1, <2>1, ToSetIs
<1>5. ASSUME NEW j \in 1 .. Len(s) PROVE s[j] \in ToSet(t)
  <2>1. \E m \in 1 .. Len(t) : t[m] = s[j]
    <3>1. CASE j < i
      <4>1. j \in 1 .. Len(t) /\ t[j] = s[j]
        BY <1>1, <1>2, <3>1
      <4> QED BY <4>1
    <3>2. CASE j >= i
      <4>1. j + 1 \in 1 .. Len(s) + 1 /\ ~(j + 1 < i) /\ j + 1 # i /\ (j + 1) - 1 = j
        BY <1>1, <3>2
      <4>2. t[j + 1] = s[j]
        BY <1>2, <4>1
      <4> QED BY <1>1, <4>1, <4>2
    <3> QED BY <1>1, <3>1, <3>2
  <2> QED BY <1>1, <2>1, ToSetIs
<1>6. ToSet(s) \subseteq ToSet(t)
  BY <1>5, ToSetIs
<1> QED BY <1>3, <1>4, <1>6 DEF t

LEMMA CutToSet ==
  ASSUME NEW S, NEW s \in Seq(S), NEW m \in 1 .. Len(s), m < Len(s)
  PROVE  ToSet(SubSeq(s, 1, m)) \cup ToSet(SubSeq(s, m + 1, Len(s))) = ToSet(s)
<1> DEFINE a == SubSeq(s, 1, m)
           b == SubSeq(s, m + 1, Len(s))
<1>1. Len(s) \in Nat
  BY LenProperties
<1>2. a \in Seq(S) /\ Len(a) = m /\ \A j \in 1 .. m : a[j] = s[j]
  BY <1>1, SubSeqType, SubSeqElements
<1>3. b \in Seq(S) /\ Len(b) = Len(s) - m /\ \A j \in 1 .. Len(s) - m : b[j] = s[m + j]
  <2>1. \A j \in 1 .. Len(s) - m : (m + 1) + j - 1 = m + j
    BY <1>1
  <2>2. m + 1 \in Nat \ {0} /\ m + 1 <= Len(s) /\ Len(s) - (m + 1) + 1 = Len(s) - m
    BY <1>1
  <2>3. b \in Seq(S) /\ Len(b) = Len(s) - m
    BY <1>1, <2>2, SubSeqType
  <2>4. \A j \in 1 .. Len(s) - (m + 1) + 1 : b[j] = s[(m + 1) + j - 1]
    BY <1>1, <2>2, SubSeqElements
  <2> QED BY <2>1, <2>2, <2>3, <2>4
<1> HIDE DEF a, b
<1>4. ToSet(a) = {s[j] : j \in 1 .. m}
  BY <1>2, ToSetIs
<1>5. ToSet(b) = {s[m + j] : j \in 1 .. Len(s) - m}
  <2>1. ToSet(b) = {b[j] : j \in 1 .. Len(s) - m}
    BY <1>3, ToSetIs
  <2> QED BY <2>1, <1>3, Zenon
<1>6. ASSUME NEW j \in 1 .. Len(s) PROVE s[j] \in ToSet(a) \cup ToSet(b)
  <2>1. CASE j <= m
    BY <1>4, <2>1
  <2>2. CASE j > m
    <3>1. j - m \in 1 .. Len(s) - m /\ m + (j - m) = j
      BY <1>1, <2>2
    <3> QED BY <1>5, <3>1
  <2> QED BY <1>1, <2>1, <2>2
<1>7. \A j \in 1 .. m : j \in 1 .. Len(s)
  BY <1>1
<1>8. \A j \in 1 .. Len(s) - m : m + j \in 1 .. Len(s)
  BY <1>1
<1>9. ToSet(s) = {s[j] : j \in 1 .. Len(s)}
  BY ToSetIs
<1>10. ToSet(a) \subseteq ToSet(s) /\ ToSet(b) \subseteq ToSet(s)
  BY <1>4, <1>5, <1>7, <1>8, <1>9
<1> QED BY <1>6, <1>9, <1>10 DEF a, b
----------------------------------------------------------------------------
(* f is the tree with root r whose next id is n: the ids below n are in    *)
(* use, no node refers to the root or to itself, every other node is       *)
(* referred to, and nothing refers to a node that is not there.            *)
Tree(f, r, n) ==
  /\ n \in Nat /\ n <= MaxNodeId + 1 /\ r \in Ids /\ r < n
  /\ \A i \in Ids : f[i] # NoFile <=> i < n
  /\ \A i \in Ids : f[i] # NoFile =>
       /\ r \notin RefersTo(f[i]) /\ i \notin RefersTo(f[i])
       /\ \A j \in RefersTo(f[i]) : j \in Ids /\ f[j] # NoFile
  /\ \A i \in Ids : f[i] # NoFile /\ i # r =>
       \E j \in Ids : f[j] # NoFile /\ i \in RefersTo(f[j])

(* Its root and its next id can be told from its files. *)
LEMMA TreeInfers ==
  ASSUME NEW f, NEW r, NEW n, Tree(f, r, n)
  PROVE  InferRoot(f) = r /\ InferNext(f) = n
<1>1. n \in Nat /\ n <= MaxNodeId + 1 /\ r \in Ids /\ r < n /\ MaxNodeId \in Nat /\ n >= 1
  BY Bounds DEF Tree, Ids
<1>2. Files(f) = 0 .. n - 1
  BY <1>1 DEF Tree, Files, Ids
<1>3. Unreferenced(f) = {r}
  <2>1. r \in Unreferenced(f)
    BY DEF Tree, Unreferenced, Files
  <2>2. ASSUME NEW i \in Unreferenced(f) PROVE i = r
    BY <2>2 DEF Tree, Unreferenced, Files
  <2> QED BY <2>1, <2>2
<1>4. InferRoot(f) = r
  <2>1. {r} \in SUBSET Nat /\ {r} # {}
    BY <1>1 DEF Ids
  <2>2. Min({r}) \in {r}
    BY <2>1, MinExists
  <2> QED BY <1>3, <2>2 DEF InferRoot
<1>5. InferNext(f) = n
  <2>1. Files(f) \in SUBSET (0 .. MaxNodeId) /\ Files(f) # {} /\ n - 1 \in Files(f)
    <3>1. 0 .. n - 1 \in SUBSET (0 .. MaxNodeId) /\ n - 1 \in 0 .. n - 1
      BY <1>1
    <3> QED BY <1>2, <3>1
  <2>2. Max(Files(f)) \in Files(f) /\ n - 1 <= Max(Files(f))
    BY <1>1, <2>1, MaxExists
  <2>3. Max(Files(f)) = n - 1
    BY <1>1, <1>2, <2>2
  <2> QED BY <1>1, <2>1, <2>3 DEF InferNext
<1> QED BY <1>4, <1>5

(* Another content of the leaves is the same tree. *)
LEMMA TreeSame ==
  ASSUME NEW f, NEW g, NEW r, NEW n, Tree(f, r, n),
         \A i \in Ids : /\ g[i] # NoFile <=> f[i] # NoFile
                        /\ f[i] # NoFile => RefersTo(g[i]) = RefersTo(f[i])
  PROVE  Tree(g, r, n)
<1>1. n \in Nat /\ n <= MaxNodeId + 1 /\ r \in Ids /\ r < n
  BY DEF Tree
<1>2. \A i \in Ids : g[i] # NoFile <=> i < n
  BY DEF Tree
<1>3. ASSUME NEW i \in Ids, g[i] # NoFile
      PROVE  /\ r \notin RefersTo(g[i]) /\ i \notin RefersTo(g[i])
             /\ \A j \in RefersTo(g[i]) : j \in Ids /\ g[j] # NoFile
  BY <1>3 DEF Tree
<1>4. ASSUME NEW i \in Ids, g[i] # NoFile, i # r
      PROVE  \E j \in Ids : g[j] # NoFile /\ i \in RefersTo(g[j])
  <2>1. PICK j \in Ids : f[j] # NoFile /\ i \in RefersTo(f[j])
    BY <1>4 DEF Tree
  <2> QED BY <2>1
<1> QED BY <1>1, <1>2, <1>3, <1>4 DEF Tree

(* A new node above the root. *)
LEMMA TreeGrows ==
  ASSUME NEW f, NEW g, NEW r, NEW n, Tree(f, r, n), n <= MaxNodeId,
         g[n] # NoFile, RefersTo(g[n]) = {r}, \A i \in Ids : i # n => g[i] = f[i]
  PROVE  Tree(g, n, n + 1)
<1>1. n \in Nat /\ n \in Ids /\ n + 1 <= MaxNodeId + 1 /\ n < n + 1 /\ r \in Ids /\ r # n
  BY Bounds DEF Tree, Ids
<1>2. f[n] = NoFile /\ f[r] # NoFile
  BY <1>1 DEF Tree
<1>3. ASSUME NEW i \in Ids PROVE g[i] # NoFile <=> i < n + 1
  <2>1. i \in Nat /\ (f[i] # NoFile <=> i < n)
    BY DEF Tree, Ids
  <2> QED BY <1>1, <2>1
<1>4. ASSUME NEW i \in Ids, g[i] # NoFile
      PROVE  /\ n \notin RefersTo(g[i]) /\ i \notin RefersTo(g[i])
             /\ \A j \in RefersTo(g[i]) : j \in Ids /\ g[j] # NoFile
  <2>1. CASE i = n
    BY <1>1, <1>2, <2>1
  <2>2. CASE i # n
    <3>1. g[i] = f[i]
      BY <2>2
    <3>2. /\ i \notin RefersTo(f[i])
          /\ \A j \in RefersTo(f[i]) : j \in Ids /\ f[j] # NoFile
      BY <1>4, <3>1 DEF Tree
    <3> QED BY <1>2, <3>1, <3>2
  <2> QED BY <2>1, <2>2
<1>5. ASSUME NEW i \in Ids, g[i] # NoFile, i # n
      PROVE  \E j \in Ids : g[j] # NoFile /\ i \in RefersTo(g[j])
  <2>1. CASE i = r
    BY <1>1, <2>1
  <2>2. CASE i # r
    <3>1. PICK j \in Ids : f[j] # NoFile /\ i \in RefersTo(f[j])
      BY <1>5, <2>2 DEF Tree
    <3>2. j # n
      BY <1>2, <3>1
    <3> QED BY <3>1, <3>2
  <2> QED BY <2>1, <2>2
<1> QED BY <1>1, <1>3, <1>4, <1>5 DEF Tree

(* A new node n next to l, below p: what l referred to is shared out. *)
LEMMA TreeSplits ==
  ASSUME NEW f, NEW g, NEW r, NEW n, Tree(f, r, n), n <= MaxNodeId,
         NEW p \in Ids, NEW l \in Ids, p # l, f[p] # NoFile, f[l] # NoFile,
         g[p] # NoFile, RefersTo(g[p]) = RefersTo(f[p]) \cup {n},
         g[l] # NoFile, RefersTo(g[l]) \subseteq RefersTo(f[l]) \cup {n},
         g[n] # NoFile, RefersTo(g[n]) \subseteq RefersTo(f[l]),
         RefersTo(f[l]) \subseteq RefersTo(g[l]) \cup RefersTo(g[n]),
         \A i \in Ids : i \notin {p, l, n} => g[i] = f[i]
  PROVE  Tree(g, r, n + 1)
<1>1. /\ n \in Nat /\ n \in Ids /\ n + 1 <= MaxNodeId + 1 /\ r \in Ids /\ r < n
      /\ r < n + 1 /\ r # n
  BY Bounds DEF Tree, Ids
<1>2. f[n] = NoFile /\ f[r] # NoFile /\ p # n /\ l # n
  BY <1>1 DEF Tree
<1>3. ASSUME NEW i \in Ids PROVE g[i] # NoFile <=> i = n \/ f[i] # NoFile
  BY <1>1
<1>4. ASSUME NEW i \in Ids PROVE g[i] # NoFile <=> i < n + 1
  <2>1. i \in Nat /\ (f[i] # NoFile <=> i < n)
    BY DEF Tree, Ids
  <2> QED BY <1>1, <1>3, <2>1
<1>5. ASSUME NEW i \in Ids, f[i] # NoFile
      PROVE  /\ r \notin RefersTo(f[i]) /\ i \notin RefersTo(f[i]) /\ n \notin RefersTo(f[i])
             /\ \A j \in RefersTo(f[i]) : j \in Ids /\ f[j] # NoFile
  BY <1>2, <1>5 DEF Tree
<1>6. ASSUME NEW i \in Ids, g[i] # NoFile
      PROVE  /\ r \notin RefersTo(g[i]) /\ i \notin RefersTo(g[i])
             /\ \A j \in RefersTo(g[i]) : j \in Ids /\ (j = n \/ f[j] # NoFile)
  <2>1. CASE i = n
    BY <1>1, <1>5, <2>1
  <2>2. CASE i = p
    BY <1>1, <1>2, <1>5, <2>2
  <2>3. CASE i = l
    BY <1>1, <1>2, <1>5, <2>3
  <2>4. CASE i \notin {p, l, n}
    BY <1>5, <1>6, <2>4
  <2> QED BY <2>1, <2>2, <2>3, <2>4
<1>7. ASSUME NEW i \in Ids, g[i] # NoFile, i # r
      PROVE  \E j \in Ids : g[j] # NoFile /\ i \in RefersTo(g[j])
  <2>1. CASE i = n
    BY <2>1
  <2>2. CASE i # n
    <3>1. f[i] # NoFile
      BY <1>3, <1>7, <2>2
    <3>2. PICK j \in Ids : f[j] # NoFile /\ i \in RefersTo(f[j])
      BY <1>7, <3>1 DEF Tree
    <3>3. CASE j = l
      BY <1>1, <3>2, <3>3
    <3>4. CASE j = p
      BY <3>2, <3>4
    <3>5. CASE j \notin {l, p}
      <4>1. j # n
        BY <1>2, <3>2
      <4> QED BY <3>2, <3>5, <4>1
    <3> QED BY <3>3, <3>4, <3>5
  <2> QED BY <2>1, <2>2
<1>8. ASSUME NEW i \in Ids, g[i] # NoFile
      PROVE  /\ r \notin RefersTo(g[i]) /\ i \notin RefersTo(g[i])
             /\ \A j \in RefersTo(g[i]) : j \in Ids /\ g[j] # NoFile
  <2>1. \A j \in RefersTo(g[i]) : j \in Ids /\ (j = n \/ f[j] # NoFile)
    BY <1>6, <1>8
  <2>2. \A j \in RefersTo(g[i]) : g[j] # NoFile
    BY <1>3, <2>1
  <2> QED BY <1>6, <1>8, <2>1, <2>2
<1> QED BY <1>1, <1>4, <1>7, <1>8 DEF Tree
----------------------------------------------------------------------------
(* The references of the nodes that the code writes.                       *)
LEMMA LeafRefers ==
  ASSUME NEW n \in Node, n.leaf, NEW k \in Key, NEW v \in Value
  PROVE  /\ RefersTo(WithEntry(n, k, v)) = RefersTo(n) /\ WithEntry(n, k, v).leaf
         /\ RefersTo(WithoutEntry(n, k)) = RefersTo(n) /\ WithoutEntry(n, k).leaf
BY DEF RefersTo, WithEntry, WithoutEntry, LeafNode

LEMMA FreshRefers ==
  /\ RefersTo(EmptyLeaf) = {} /\ EmptyLeaf.leaf
  /\ \A r \in Ids : RefersTo(NewRoot(r)) = {r}
<1>1. RefersTo(EmptyLeaf) = {} /\ EmptyLeaf.leaf
  BY DEF RefersTo, EmptyLeaf, LeafNode
<1>2. ASSUME NEW r \in Ids PROVE RefersTo(NewRoot(r)) = {r}
  <2>1. ~NewRoot(r).leaf /\ NewRoot(r).kids = <<r>>
    BY FreshNodes
  <2>2. ToSet(<<r>>) = {r}
    BY DEF ToSet
  <2> QED BY <2>1, <2>2 DEF RefersTo
<1> QED BY <1>1, <1>2

LEMMA ParentRefers ==
  ASSUME NEW p \in Node, ~p.leaf, NEW i \in 1 .. Len(p.keys) + 1, NEW k \in Key,
         NEW r \in Ids
  PROVE  RefersTo(WithChild(p, i, k, r)) = RefersTo(p) \cup {r}
<1>1. p.kids \in Seq(Ids) /\ i + 1 \in 1 .. Len(p.kids) + 1
  BY InnerParts
<1>2. /\ ~WithChild(p, i, k, r).leaf
      /\ WithChild(p, i, k, r).kids = InsertAt(p.kids, i + 1, r)
  BY WithChildNode
<1>3. ToSet(InsertAt(p.kids, i + 1, r)) = ToSet(p.kids) \cup {r}
  BY <1>1, InsertAtToSet
<1> QED BY <1>2, <1>3 DEF RefersTo

LEMMA HalvesRefer ==
  ASSUME NEW n \in Node, Full(n), NEW r \in Ids
  PROVE  /\ RefersTo(LeftHalf(n, r)) \subseteq RefersTo(n) \cup {r}
         /\ RefersTo(RightHalf(n)) \subseteq RefersTo(n)
         /\ RefersTo(n) \subseteq RefersTo(LeftHalf(n, r)) \cup RefersTo(RightHalf(n))
         /\ LeftHalf(n, r).leaf = n.leaf /\ RightHalf(n).leaf = n.leaf
<1>1. CASE n.leaf
  <2>1. LeftHalf(n, r).leaf = TRUE /\ LeftHalf(n, r).link = r
    BY <1>1 DEF LeftHalf, LeafNode
  <2>2. RightHalf(n).leaf = TRUE /\ RightHalf(n).link = n.link
    BY <1>1 DEF RightHalf, RightLeaf, LeafNode
  <2>3. n.leaf = TRUE
    BY <1>1, KeysOfNode
  <2> QED BY <2>1, <2>2, <2>3 DEF RefersTo
<1>2. CASE ~n.leaf
  <2> DEFINE a == SubSeq(n.kids, 1, MinKeys + 1)
             b == SubSeq(n.kids, MinKeys + 2, MaxKeys + 1)
  <2>1. LeftHalf(n, r).leaf = FALSE /\ LeftHalf(n, r).kids = a
    BY <1>2 DEF LeftHalf, InnerNode
  <2>2. RightHalf(n).leaf = FALSE /\ RightHalf(n).kids = b
    BY <1>2 DEF RightHalf, RightInner, InnerNode
  <2>3. n.leaf = FALSE
    BY <1>2, KeysOfNode
  <2>4. /\ n.kids \in Seq(Ids) /\ Len(n.kids) = MaxKeys + 1
        /\ MinKeys + 1 \in 1 .. Len(n.kids) /\ MinKeys + 1 < Len(n.kids)
        /\ (MinKeys + 1) + 1 = MinKeys + 2
    <3>1. n.kids \in Seq(Ids) /\ Len(n.kids) = MaxKeys + 1
      BY <1>2, InnerParts DEF Full
    <3> QED BY <3>1, NodeSizes
  <2>5. ToSet(a) \cup ToSet(b) = ToSet(n.kids)
    BY <2>4, CutToSet
  <2> HIDE DEF a, b
  <2> QED BY <2>1, <2>2, <2>3, <2>5 DEF RefersTo
<1> QED BY <1>1, <1>2
----------------------------------------------------------------------------
(* The pairs of a leaf, and what the steps make of them.                   *)
Pairs(n) == {<<n.keys[j], n.kids[j]>> : j \in 1 .. Len(n.keys)}

LEMMA PairsAdded ==
  ASSUME NEW n \in Node, n.leaf, NEW k \in Key, NEW v \in Value
  PROVE  Pairs(WithEntry(n, k, v)) = Pairs(n) \cup {<<k, v>>}
<1> DEFINE i == InsertIndex(n, k)
           ks == InsertAt(n.keys, i, k)
           vs == InsertAt(n.kids, i, v)
           len == Len(n.keys)
<1>1. /\ n.keys \in Seq(Key) /\ n.kids \in Seq(Value) /\ len \in Nat /\ Len(n.kids) = len
      /\ i \in 1 .. len + 1
  BY LeafParts, InsertIndexStops
<1>2. WithEntry(n, k, v).keys = ks /\ WithEntry(n, k, v).kids = vs
  BY DEF WithEntry, LeafNode
<1> HIDE DEF i
<1>3. Len(ks) = len + 1
  BY <1>1, InsertAtSeq
<1>4. \A j \in 1 .. len + 1 :
        /\ ks[j] = IF j < i THEN n.keys[j] ELSE IF j = i THEN k ELSE n.keys[j - 1]
        /\ vs[j] = IF j < i THEN n.kids[j] ELSE IF j = i THEN v ELSE n.kids[j - 1]
  <2>1. i \in 1 .. Len(n.kids) + 1 /\ Len(n.kids) + 1 = len + 1
    BY <1>1
  <2>2. ASSUME NEW j \in 1 .. Len(n.kids) + 1
        PROVE  vs[j] = IF j < i THEN n.kids[j] ELSE IF j = i THEN v ELSE n.kids[j - 1]
    <3> HIDE DEF len
    <3> QED BY <1>1, <2>1, InsertAtElements
  <2>3. \A j \in 1 .. len + 1 :
          ks[j] = IF j < i THEN n.keys[j] ELSE IF j = i THEN k ELSE n.keys[j - 1]
    BY <1>1, InsertAtElements
  <2> QED BY <2>1, <2>2, <2>3
<1>5. Pairs(WithEntry(n, k, v)) = {<<ks[j], vs[j]>> : j \in 1 .. len + 1}
  BY <1>2, <1>3 DEF Pairs
<1> HIDE DEF ks, vs
<1>6. ASSUME NEW j \in 1 .. len
      PROVE  \E m \in 1 .. len + 1 : ks[m] = n.keys[j] /\ vs[m] = n.kids[j]
  <2>1. CASE j < i
    <3>1. j \in 1 .. len + 1 /\ ks[j] = n.keys[j] /\ vs[j] = n.kids[j]
      BY <1>1, <1>4, <2>1
    <3> QED BY <3>1
  <2>2. CASE ~(j < i)
    <3>1. j + 1 \in 1 .. len + 1 /\ ~(j + 1 < i) /\ j + 1 # i /\ (j + 1) - 1 = j
      BY <1>1, <2>2
    <3>2. ks[j + 1] = n.keys[j] /\ vs[j + 1] = n.kids[j]
      BY <1>4, <3>1
    <3> QED BY <3>1, <3>2
  <2> QED BY <2>1, <2>2
<1>7. ASSUME NEW j \in 1 .. len + 1
      PROVE  \/ ks[j] = k /\ vs[j] = v
             \/ \E m \in 1 .. len : ks[j] = n.keys[m] /\ vs[j] = n.kids[m]
  <2>1. CASE j < i
    <3>1. j \in 1 .. len /\ ks[j] = n.keys[j] /\ vs[j] = n.kids[j]
      BY <1>1, <1>4, <2>1
    <3> QED BY <3>1
  <2>2. CASE j = i
    BY <1>1, <1>4, <2>2
  <2>3. CASE j > i
    <3>1. j - 1 \in 1 .. len /\ ~(j < i) /\ j # i
      BY <1>1, <2>3
    <3>2. ks[j] = n.keys[j - 1] /\ vs[j] = n.kids[j - 1]
      BY <1>4, <3>1
    <3> QED BY <3>1, <3>2
  <2> QED BY <1>1, <2>1, <2>2, <2>3
<1>8. i \in 1 .. len + 1 /\ ks[i] = k /\ vs[i] = v
  BY <1>1, <1>4
<1> HIDE DEF len
<1>9. Pairs(n) = {<<n.keys[j], n.kids[j]>> : j \in 1 .. len}
  BY DEF Pairs, len
<1> QED BY <1>5, <1>6, <1>7, <1>8, <1>9

LEMMA PairsTaken ==
  ASSUME NEW n \in Node, n.leaf, NEW k \in Key, HasKey(n, k)
  PROVE  /\ Pairs(WithoutEntry(n, k)) \subseteq Pairs(n)
         /\ \A e \in Pairs(n) \ Pairs(WithoutEntry(n, k)) : e[1] = k
<1> DEFINE i == LeafIndex(n, k)
           ks == RemoveAt(n.keys, i)
           vs == RemoveAt(n.kids, i)
           len == Len(n.keys)
<1>1. /\ n.keys \in Seq(Key) /\ n.kids \in Seq(Value) /\ len \in Nat /\ Len(n.kids) = len
      /\ i \in 1 .. len /\ n.keys[i] = k
  BY LeafParts, LeafIndexStops DEF HasKey
<1>2. WithoutEntry(n, k).keys = ks /\ WithoutEntry(n, k).kids = vs
  BY DEF WithoutEntry, LeafNode
<1> HIDE DEF i
<1>3. Len(ks) = len - 1
  BY <1>1, RemoveAtSeq
<1>4. \A j \in 1 .. len - 1 :
        /\ ks[j] = IF j < i THEN n.keys[j] ELSE n.keys[j + 1]
        /\ vs[j] = IF j < i THEN n.kids[j] ELSE n.kids[j + 1]
  BY <1>1, RemoveAtElements
<1>5. Pairs(WithoutEntry(n, k)) = {<<ks[j], vs[j]>> : j \in 1 .. len - 1}
  BY <1>2, <1>3 DEF Pairs
<1> HIDE DEF ks, vs
<1>6. ASSUME NEW j \in 1 .. len - 1
      PROVE  \E m \in 1 .. len : ks[j] = n.keys[m] /\ vs[j] = n.kids[m]
  <2>1. CASE j < i
    <3>1. j \in 1 .. len /\ ks[j] = n.keys[j] /\ vs[j] = n.kids[j]
      BY <1>1, <1>4, <2>1
    <3> QED BY <3>1
  <2>2. CASE ~(j < i)
    <3>1. j + 1 \in 1 .. len /\ ks[j] = n.keys[j + 1] /\ vs[j] = n.kids[j + 1]
      BY <1>1, <1>4, <2>2
    <3> QED BY <3>1
  <2> QED BY <2>1, <2>2
<1>7. ASSUME NEW j \in 1 .. len, n.keys[j] # k
      PROVE  \E m \in 1 .. len - 1 : ks[m] = n.keys[j] /\ vs[m] = n.kids[j]
  <2>1. CASE j < i
    <3>1. j \in 1 .. len - 1 /\ ks[j] = n.keys[j] /\ vs[j] = n.kids[j]
      BY <1>1, <1>4, <2>1
    <3> QED BY <3>1
  <2>2. CASE j > i
    <3>1. j - 1 \in 1 .. len - 1 /\ ~(j - 1 < i) /\ (j - 1) + 1 = j
      BY <1>1, <2>2
    <3>2. ks[j - 1] = n.keys[j] /\ vs[j - 1] = n.kids[j]
      BY <1>4, <3>1
    <3> QED BY <3>1, <3>2
  <2> QED BY <1>1, <1>7, <2>1, <2>2
<1> HIDE DEF len
<1>8. Pairs(n) = {<<n.keys[j], n.kids[j]>> : j \in 1 .. len}
  BY DEF Pairs, len
<1> QED BY <1>5, <1>6, <1>7, <1>8

LEMMA PairsShared ==
  ASSUME NEW n \in Node, n.leaf, Full(n), NEW r \in Ids
  PROVE  Pairs(LeftHalf(n, r)) \cup Pairs(RightHalf(n)) = Pairs(n)
<1> DEFINE lks == SubSeq(n.keys, 1, MinKeys)
           lvs == SubSeq(n.kids, 1, MinKeys)
           rks == SubSeq(n.keys, MinKeys + 1, MaxKeys)
           rvs == SubSeq(n.kids, MinKeys + 1, MinKeys + 1 + MinKeys)
<1>1. /\ n.keys \in Seq(Key) /\ n.kids \in Seq(Value)
      /\ Len(n.keys) = MaxKeys /\ Len(n.kids) = MaxKeys
      /\ MinKeys \in Nat \ {0} /\ MaxKeys = 2 * MinKeys + 1 /\ MinKeys <= MaxKeys
      /\ MinKeys + 1 \in Nat \ {0} /\ MinKeys + 1 <= MaxKeys /\ MaxKeys \in Nat
      /\ MinKeys + 1 + MinKeys = MaxKeys /\ 1 <= MinKeys
      /\ MaxKeys - (MinKeys + 1) + 1 = MinKeys + 1
  BY LeafParts, NodeSizes DEF Full
<1>2. LeftHalf(n, r).keys = lks /\ LeftHalf(n, r).kids = lvs
  BY DEF LeftHalf, LeafNode
<1>3. RightHalf(n).keys = rks /\ RightHalf(n).kids = rvs
  BY DEF RightHalf, RightLeaf, LeafNode
<1>4. /\ Len(lks) = MinKeys
      /\ \A j \in 1 .. MinKeys : lks[j] = n.keys[j] /\ lvs[j] = n.kids[j]
  <2>1. Len(lks) = MinKeys
    BY <1>1, SubSeqType
  <2>2. \A j \in 1 .. MinKeys - 1 + 1 : lks[j] = n.keys[1 + j - 1] /\ lvs[j] = n.kids[1 + j - 1]
    BY <1>1, SubSeqElements
  <2>3. \A j \in 1 .. MinKeys : j \in 1 .. MinKeys - 1 + 1 /\ 1 + j - 1 = j
    BY <1>1
  <2> QED BY <2>1, <2>2, <2>3
<1>5. /\ Len(rks) = MinKeys + 1
      /\ \A j \in 1 .. MinKeys + 1 :
           rks[j] = n.keys[MinKeys + j] /\ rvs[j] = n.kids[MinKeys + j]
  <2>1. Len(rks) = MinKeys + 1
    BY <1>1, SubSeqType
  <2>2. \A j \in 1 .. MaxKeys - (MinKeys + 1) + 1 :
          /\ rks[j] = n.keys[(MinKeys + 1) + j - 1]
          /\ rvs[j] = n.kids[(MinKeys + 1) + j - 1]
    <3> DEFINE a == MinKeys + 1
               b == MinKeys + 1 + MinKeys
    <3>1. /\ a \in Nat \ {0} /\ MaxKeys \in Nat /\ a <= MaxKeys /\ b = MaxKeys
          /\ MaxKeys <= Len(n.keys) /\ MaxKeys <= Len(n.kids)
          /\ rks = SubSeq(n.keys, a, MaxKeys) /\ rvs = SubSeq(n.kids, a, MaxKeys)
          /\ n.keys \in Seq(Key) /\ n.kids \in Seq(Value)
      BY <1>1
    <3> HIDE DEF a, rks, rvs
    <3>2. \A j \in 1 .. MaxKeys - a + 1 : rks[j] = n.keys[a + j - 1]
      BY <3>1, SubSeqElements
    <3>3. \A j \in 1 .. MaxKeys - a + 1 : rvs[j] = n.kids[a + j - 1]
      BY <3>1, SubSeqElements
    <3> QED BY <3>2, <3>3 DEF a
  <2>3. \A j \in 1 .. MinKeys + 1 : (MinKeys + 1) + j - 1 = MinKeys + j
    BY <1>1
  <2> QED BY <1>1, <2>1, <2>2, <2>3
<1> HIDE DEF lks, lvs, rks, rvs
<1>6. Pairs(LeftHalf(n, r)) = {<<n.keys[j], n.kids[j]>> : j \in 1 .. MinKeys}
  BY <1>2, <1>4 DEF Pairs
<1>7. Pairs(RightHalf(n)) =
        {<<n.keys[MinKeys + j], n.kids[MinKeys + j]>> : j \in 1 .. MinKeys + 1}
  BY <1>3, <1>5 DEF Pairs
<1>8. Pairs(n) = {<<n.keys[j], n.kids[j]>> : j \in 1 .. MaxKeys}
  BY <1>1 DEF Pairs
<1>9. \A j \in 1 .. MinKeys : j \in 1 .. MaxKeys
  BY <1>1
<1>10. \A j \in 1 .. MinKeys + 1 : MinKeys + j \in 1 .. MaxKeys
  BY <1>1
<1>11. \A j \in 1 .. MaxKeys :
         j \in 1 .. MinKeys \/ \E m \in 1 .. MinKeys + 1 : MinKeys + m = j
  <2> SUFFICES ASSUME NEW j \in 1 .. MaxKeys, j \notin 1 .. MinKeys
               PROVE  \E m \in 1 .. MinKeys + 1 : MinKeys + m = j
    OBVIOUS
  <2>1. j - MinKeys \in 1 .. MinKeys + 1 /\ MinKeys + (j - MinKeys) = j
    BY <1>1
  <2> QED BY <2>1
<1>12. Pairs(LeftHalf(n, r)) \subseteq Pairs(n) /\ Pairs(RightHalf(n)) \subseteq Pairs(n)
  BY <1>6, <1>7, <1>8, <1>9, <1>10
<1>13. Pairs(n) \subseteq Pairs(LeftHalf(n, r)) \cup Pairs(RightHalf(n))
  <2> SUFFICES ASSUME NEW j \in 1 .. MaxKeys
               PROVE  <<n.keys[j], n.kids[j]>> \in Pairs(LeftHalf(n, r)) \cup Pairs(RightHalf(n))
    BY <1>8
  <2> QED BY <1>6, <1>7, <1>11
<1> QED BY <1>12, <1>13
----------------------------------------------------------------------------
(* What the steps that write several files make of the directory.          *)
LEMMA FreshEffect ==
  ASSUME Inv, OpenFresh
  PROVE  /\ Now = file /\ \A i \in Ids : file[i] = NoFile
         /\ 0 \in Ids /\ Now'[0] = EmptyLeaf /\ \A i \in Ids \ {0} : Now'[i] = NoFile
<1>1. /\ 0 \in Ids /\ pend = <<>> /\ Now = file /\ UNCHANGED file
      /\ pend' = <<NodeWrite(0, EmptyLeaf), MetaWrite(0, 1)>>
  BY Bounds DEF Inv, CallOK, Ready, OpenFresh, Now, Ids
<1>2. \A i \in Ids : file[i] = NoFile
  BY DEF OpenFresh, Inv, IdsOK
<1>3. /\ NodeWrite(0, EmptyLeaf).to = 0 /\ NodeWrite(0, EmptyLeaf).data = EmptyLeaf
      /\ MetaWrite(0, 1).to = MetaFile /\ MetaFile \notin Ids
  BY <1>1, WritesMade, FreshNodes
<1>4. /\ Len(pend') = 2 /\ pend' # <<>>
      /\ pend'[1] = NodeWrite(0, EmptyLeaf) /\ pend'[2] = MetaWrite(0, 1)
      /\ \A j \in 1 .. Len(pend') : j = 1 \/ j = 2
  BY <1>1
<1>5. Now'[0] = EmptyLeaf
  <2>1. 1 \in 1 .. Len(pend') /\ \A i \in 1 .. Len(pend') : pend'[i].to = 0 => i = 1
    BY <1>1, <1>3, <1>4
  <2> QED BY <1>1, <1>3, <1>4, <2>1, MadeWrite, NowIsMade
<1>6. ASSUME NEW i \in Ids \ {0} PROVE Now'[i] = NoFile
  <2>1. \A j \in 1 .. Len(pend') : pend'[j].to # i
    BY <1>3, <1>4
  <2> QED BY <1>1, <1>2, <2>1, MadeElsewhere, NowIsMade
<1> QED BY <1>1, <1>2, <1>5, <1>6

LEMMA InferEffect ==
  ASSUME Inv, OpenInferring
  PROVE  Now = file /\ \A i \in Ids : Now'[i] = file[i]
<1> DEFINE r == InferRoot(file)
           n == InferNext(file)
<1>1. /\ pend = <<>> /\ Now = file /\ UNCHANGED file /\ pend' = <<MetaWrite(r, n)>>
  BY DEF Inv, CallOK, Ready, OpenInferring, Now
<1>2. MetaWrite(r, n).to = MetaFile /\ MetaFile \notin Ids
  BY WritesMade DEF MetaWrite
<1> HIDE DEF r, n
<1>3. Len(pend') = 1 /\ pend'[1] = MetaWrite(r, n) /\ \A j \in 1 .. Len(pend') : j = 1
  BY <1>1
<1>4. ASSUME NEW i \in Ids PROVE Now'[i] = file[i]
  <2>1. \A j \in 1 .. Len(pend') : pend'[j].to # i
    BY <1>2, <1>3
  <2> QED BY <1>1, <2>1, MadeElsewhere, NowIsMade
<1> QED BY <1>1, <1>4

LEMMA GrowEffect ==
  ASSUME Inv, NEW k \in Key, NEW v \in Value, GrowRoot(k, v)
  PROVE  /\ Now = file /\ file[root] # NoFile /\ next \in Ids /\ root \in Ids
         /\ file[next] = NoFile
         /\ Now'[next] = NewRoot(root) /\ \A i \in Ids \ {next} : Now'[i] = file[i]
<1>1. TypeOK /\ IdsOK /\ root \in Ids /\ next \in Nat
  BY DEF Inv, TypeOK
<1>2. /\ UNCHANGED file /\ Now = file /\ file[root] # NoFile /\ next + Headroom <= MaxNodeId
      /\ pend' = <<MetaWrite(root, next + 1), NodeWrite(next, NewRoot(root)),
                   MetaWrite(next, next + 1)>>
  BY DEF GrowRoot, MayInsert, Idle, Now, Ready, GrowWrites
<1>3. next \in Ids /\ file[next] = NoFile
  <2>1. next \in Ids
    BY <1>1, <1>2, Bounds DEF Ids
  <2> QED BY <1>1, <2>1 DEF IdsOK
<1> DEFINE m1 == MetaWrite(root, next + 1)
           new == NodeWrite(next, NewRoot(root))
           m2 == MetaWrite(next, next + 1)
<1>4. /\ m1.to = MetaFile /\ m2.to = MetaFile /\ MetaFile \notin Ids
      /\ new.to = next /\ new.data = NewRoot(root)
  <2>1. next + 1 \in Nat /\ NewRoot(root) \in Node
    BY <1>1, FreshNodes
  <2> QED BY <1>1, <1>3, <2>1, WritesMade
<1>5. pend' = <<m1, new, m2>>
  BY <1>2
<1> HIDE DEF m1, new, m2
<1>6. /\ pend' # <<>> /\ Len(pend') = 3 /\ pend'[1] = m1 /\ pend'[2] = new /\ pend'[3] = m2
      /\ \A j \in 1 .. Len(pend') : j = 1 \/ j = 2 \/ j = 3
  BY <1>5
<1>7. Now'[next] = NewRoot(root)
  <2>1. 2 \in 1 .. Len(pend') /\ \A i \in 1 .. Len(pend') : pend'[i].to = next => i = 2
    BY <1>3, <1>4, <1>6
  <2> QED BY <1>3, <1>4, <1>6, <2>1, MadeWrite, NowIsMade
<1>8. ASSUME NEW i \in Ids \ {next} PROVE Now'[i] = file[i]
  <2>1. \A j \in 1 .. Len(pend') : pend'[j].to # i
    BY <1>4, <1>6
  <2> QED BY <1>2, <2>1, MadeElsewhere, NowIsMade
<1> QED BY <1>1, <1>2, <1>3, <1>7, <1>8

LEMMA SplitEffect ==
  ASSUME Inv, SplitChild
  PROVE  \E p, l \in Ids :
           /\ p = call.at /\ l = file[p].kids[call.idx]
           /\ Now = file /\ p # l /\ next \in Ids \ {p, l} /\ file[next] = NoFile
           /\ file[p] # NoFile /\ file[p] \in Node /\ ~file[p].leaf
           /\ file[l] # NoFile /\ file[l] \in Node /\ Full(file[l])
           /\ call.idx \in 1 .. Len(file[p].keys) + 1 /\ Separator(file[l]) \in Key
           /\ Now'[p] = WithChild(file[p], call.idx, Separator(file[l]), next)
           /\ Now'[l] = LeftHalf(file[l], next)
           /\ Now'[next] = RightHalf(file[l])
           /\ \A i \in Ids \ {p, l, next} : Now'[i] = file[i]
           /\ \E j \in 1 .. Len(pend') : pend'[j].to = MetaFile
           /\ \A j \in 1 .. Len(pend') :
                pend'[j].to = MetaFile => pend'[j].data.root = root
<1> DEFINE p == call.at
           l == file[p].kids[call.idx]
           n == file[l]
           parent == WithChild(file[p], call.idx, Separator(n), next)
           left == LeftHalf(n, next)
           right == RightHalf(n)
<1>1. TypeOK /\ PendOK /\ IdsOK /\ CallOK /\ next \in Nat /\ root \in Ids
  BY DEF Inv, TypeOK
<1>2. /\ UNCHANGED file /\ Now = file
      /\ call.op = "insert" /\ call.step \in {"split", "splitRoot"} /\ next <= MaxNodeId
      /\ pend' = <<MetaWrite(root, next + 1), NodeWrite(p, parent), NodeWrite(l, left),
                   NodeWrite(next, right)>>
  BY DEF SplitChild, SplitWrites, Now, Ready
<1>3. p \in Ids /\ call.idx \in Nat
  BY <1>1, <1>2, InsertFields
<1>4. /\ file[p] # NoFile /\ ~Full(file[p]) /\ ~file[p].leaf
      /\ call.idx \in 1 .. Len(file[p].keys) + 1 /\ n # NoFile /\ Full(n)
  BY <1>1, <1>2 DEF CallOK, HasRoom
<1>5. file[p] \in Node
  BY <1>2, <1>3, <1>4, NowType
<1>6. l \in Ids
  BY <1>4, <1>5, InnerParts, ElementOfSeq
<1>7. n \in Node /\ l # p /\ next \in Ids \ {p, l} /\ file[next] = NoFile
  <2>1. next \in Ids
    BY <1>1, <1>2, Bounds DEF Ids
  <2>2. file[next] = NoFile
    BY <1>1, <2>1 DEF IdsOK
  <2>3. n \in Node
    BY <1>2, <1>4, <1>6, NowType
  <2> QED BY <1>3, <1>4, <1>6, <2>1, <2>2, <2>3
<1>8. left \in Node /\ right \in Node /\ Separator(n) \in Key
  BY <1>4, <1>7, Halves
<1>9. parent \in Node
  <2> HIDE DEF n, l
  <2> QED BY <1>4, <1>5, <1>7, <1>8, WithChildNode
<1> HIDE DEF p, l, n, parent, left, right
<1> DEFINE m == MetaWrite(root, next + 1)
           wp == NodeWrite(p, parent)
           wl == NodeWrite(l, left)
           wr == NodeWrite(next, right)
<1>10. /\ m.to = MetaFile /\ MetaFile \notin Ids /\ m.data.root = root
       /\ wp.to = p /\ wp.data = parent
       /\ wl.to = l /\ wl.data = left
       /\ wr.to = next /\ wr.data = right
  BY <1>1, <1>3, <1>6, <1>7, <1>8, <1>9, WritesMade DEF MetaWrite
<1>11. pend' = <<m, wp, wl, wr>>
  BY <1>2
<1> HIDE DEF m, wp, wl, wr
<1>12. /\ pend' # <<>> /\ Len(pend') = 4
       /\ pend'[1] = m /\ pend'[2] = wp /\ pend'[3] = wl /\ pend'[4] = wr
       /\ \A j \in 1 .. Len(pend') : j = 1 \/ j = 2 \/ j = 3 \/ j = 4
  BY <1>11
<1>13. Now'[p] = parent
  <2>1. /\ 2 \in 1 .. Len(pend') /\ pend'[2].to \in Ids
        /\ \A i \in 1 .. Len(pend') : pend'[i].to = pend'[2].to => i = 2
    BY <1>3, <1>7, <1>10, <1>12
  <2>2. Made(file', pend')[pend'[2].to] = pend'[2].data
    BY <1>12, <2>1, MadeWrite
  <2> QED BY <1>10, <1>12, <2>2, NowIsMade
<1>14. Now'[l] = left
  <2>1. /\ 3 \in 1 .. Len(pend') /\ pend'[3].to \in Ids
        /\ \A i \in 1 .. Len(pend') : pend'[i].to = pend'[3].to => i = 3
    BY <1>6, <1>7, <1>10, <1>12
  <2>2. Made(file', pend')[pend'[3].to] = pend'[3].data
    BY <1>12, <2>1, MadeWrite
  <2> QED BY <1>10, <1>12, <2>2, NowIsMade
<1>15. Now'[next] = right
  <2>1. /\ 4 \in 1 .. Len(pend') /\ pend'[4].to \in Ids
        /\ \A i \in 1 .. Len(pend') : pend'[i].to = pend'[4].to => i = 4
    BY <1>7, <1>10, <1>12
  <2>2. Made(file', pend')[pend'[4].to] = pend'[4].data
    BY <1>12, <2>1, MadeWrite
  <2> QED BY <1>10, <1>12, <2>2, NowIsMade
<1>16. ASSUME NEW i \in Ids \ {p, l, next} PROVE Now'[i] = file[i]
  <2>1. \A j \in 1 .. Len(pend') : pend'[j].to # i
    BY <1>10, <1>12
  <2>2. Made(file', pend')[i] = file'[i]
    BY <2>1, MadeElsewhere
  <2>3. file' = file
    BY <1>2
  <2> QED BY <2>2, <2>3, NowIsMade
<1>17. /\ Now = file /\ p # l /\ next \in Ids \ {p, l} /\ file[next] = NoFile
       /\ file[p] # NoFile /\ file[p] \in Node /\ ~file[p].leaf
       /\ n # NoFile /\ n \in Node /\ Full(n)
       /\ call.idx \in 1 .. Len(file[p].keys) + 1 /\ Separator(n) \in Key
       /\ \A i \in Ids \ {p, l, next} : Now'[i] = file[i]
  BY <1>2, <1>4, <1>5, <1>7, <1>8, <1>16
<1>18. /\ p = call.at /\ l = file[p].kids[call.idx]
       /\ n = file[l] /\ Now'[p] = WithChild(file[p], call.idx, Separator(n), next)
       /\ Now'[l] = LeftHalf(n, next) /\ Now'[next] = RightHalf(n)
  BY <1>13, <1>14, <1>15 DEF p, l, n, parent, left, right
<1>19. /\ \E j \in 1 .. Len(pend') : pend'[j].to = MetaFile
       /\ \A j \in 1 .. Len(pend') : pend'[j].to = MetaFile => pend'[j].data.root = root
  BY <1>3, <1>6, <1>7, <1>10, <1>12
<1> QED BY <1>3, <1>6, <1>17, <1>18, <1>19

(* A leaf that is written again. *)
LEMMA LeafEffect ==
  ASSUME Inv, InsertIntoLeaf \/ RemoveFromLeaf
  PROVE  /\ Now = file /\ Now' = file' /\ UNCHANGED <<meta, root, next, pend>> /\ pend = <<>>
         /\ call' = None /\ call.at \in Ids /\ call.key \in Key
         /\ file[call.at] # NoFile /\ file[call.at] \in Node /\ file[call.at].leaf
         /\ \A i \in Ids \ {call.at} : file'[i] = file[i]
         /\ file'[call.at] \in Node
         /\ \/ /\ call.op = "insert" /\ call.val \in Value
               /\ file'[call.at] = WithEntry(file[call.at], call.key, call.val)
            \/ /\ call.op = "remove" /\ HasKey(file[call.at], call.key)
               /\ file'[call.at] = WithoutEntry(file[call.at], call.key)
            \/ file' = file
<1>1. TypeOK /\ file \in [Ids -> Node \cup {NoFile}]
  BY DEF Inv, TypeOK
<1>2. /\ UNCHANGED <<meta, root, next, pend>> /\ pend = <<>> /\ Now = file /\ Now' = file'
      /\ call' = None /\ file[call.at] # NoFile /\ file[call.at].leaf
      /\ call.at \in Ids /\ call.key \in Key
  BY <1>1, InsertFields, RemoveFields DEF InsertIntoLeaf, RemoveFromLeaf, Now, Ready
<1>3. file[call.at] \in Node
  BY <1>1, <1>2
<1>4. CASE InsertIntoLeaf
  <2>1. call.op = "insert" /\ call.val \in Value
    BY <1>1, <1>4, InsertFields DEF InsertIntoLeaf
  <2>2. file' = [file EXCEPT ![call.at] = WithEntry(file[call.at], call.key, call.val)]
    BY <1>4 DEF InsertIntoLeaf
  <2>3. WithEntry(file[call.at], call.key, call.val) \in Node
    BY <1>2, <1>3, <2>1, WithEntryNode
  <2> QED BY <1>1, <1>2, <1>3, <2>1, <2>2, <2>3
<1>5. CASE RemoveFromLeaf /\ HasKey(file[call.at], call.key)
  <2>1. call.op = "remove"
    BY <1>5 DEF RemoveFromLeaf
  <2>2. file' = [file EXCEPT ![call.at] = WithoutEntry(file[call.at], call.key)]
    BY <1>5 DEF RemoveFromLeaf
  <2>3. WithoutEntry(file[call.at], call.key) \in Node
    BY <1>2, <1>3, <1>5, WithoutEntryNode
  <2> QED BY <1>1, <1>2, <1>3, <1>5, <2>1, <2>2, <2>3
<1>6. CASE RemoveFromLeaf /\ ~HasKey(file[call.at], call.key)
  <2>1. file' = file
    BY <1>6 DEF RemoveFromLeaf
  <2> QED BY <1>2, <1>3, <2>1
<1> QED BY <1>4, <1>5, <1>6
----------------------------------------------------------------------------
(* The directory as it was before it was opened for the first time. *)
Unopened == call = Closed /\ meta = NoFile /\ \A i \in Ids : file[i] = NoFile

(* The last write of the metadata that is still to be made, or, when there *)
(* is none, the metadata file, says what the open object says.             *)
Told ==
  /\ \A j \in 1 .. Len(pend) : pend[j].to = MetaFile =>
       \/ pend[j].data.root = root
       \/ \E m \in 1 .. Len(pend) : m > j /\ pend[m].to = MetaFile
  /\ meta # NoFile /\ (\A j \in 1 .. Len(pend) : pend[j].to # MetaFile) =>
       meta.root = root /\ meta.next = next

(* Without a kill the directory is a tree, and so a remove finds a file at *)
(* every node it goes to.                                                  *)
Shape ==
  /\ Unopened \/ Tree(Now, root, next)
  /\ Told
  /\ call.op = "remove" => Now[call.at] # NoFile

LEMMA ShapeStart == Init => Shape
<1> SUFFICES ASSUME Init PROVE Shape
  OBVIOUS
<1>1. /\ file = [i \in Ids |-> NoFile] /\ meta = NoFile /\ call = Closed /\ pend = <<>>
      /\ Len(<<>>) = 0
  BY DEF Init
<1>2. Unopened /\ Told /\ call.op # "remove"
  BY <1>1 DEF Unopened, Told, Closed
<1> QED BY <1>2 DEF Shape

LEMMA ShapeWrite ==
  ASSUME Inv, Inv', Shape, WriteFile
  PROVE  Shape'
<1> DEFINE w == Head(pend)
<1>1. /\ pend \in Seq(Write) /\ pend # <<>> /\ pend' = Tail(pend)
      /\ w.to = MetaFile => meta' = w.data
      /\ w.to # MetaFile => UNCHANGED meta
      /\ UNCHANGED <<root, next, call>>
  BY DEF Inv, TypeOK, WriteFile, Ready
<1>2. /\ Len(pend) \in Nat /\ Len(pend) >= 1 /\ w = pend[1]
      /\ Len(pend') = Len(pend) - 1
      /\ \A j \in 1 .. Len(pend') : pend'[j] = pend[j + 1]
  BY <1>1, HeadTailProperties, LenProperties, EmptySeq
<1>3. \A i \in Ids : Now'[i] = Now[i]
  BY WriteKeepsNow DEF Inv
<1>4. Tree(Now, root, next)
  BY <1>1 DEF Shape, Unopened, Inv, CallOK, Ready
<1>5. Tree(Now', root', next')
  <2>1. Tree(Now', root, next)
    BY <1>3, <1>4, TreeSame
  <2> QED BY <1>1, <2>1
<1>6. Told'
  <2>1. ASSUME NEW j \in 1 .. Len(pend'), pend'[j].to = MetaFile
        PROVE  \/ pend'[j].data.root = root
               \/ \E m \in 1 .. Len(pend') : m > j /\ pend'[m].to = MetaFile
    <3>1. j + 1 \in 1 .. Len(pend) /\ pend'[j] = pend[j + 1]
      BY <1>2
    <3>2. CASE pend[j + 1].data.root = root
      BY <3>1, <3>2
    <3>3. CASE pend[j + 1].data.root # root
      <4>1. PICK m \in 1 .. Len(pend) : m > j + 1 /\ pend[m].to = MetaFile
        BY <2>1, <3>1, <3>3 DEF Shape, Told
      <4>2. m - 1 \in 1 .. Len(pend') /\ m - 1 > j /\ (m - 1) + 1 = m
        BY <1>2, <4>1
      <4>3. pend'[m - 1].to = MetaFile
        BY <1>2, <4>1, <4>2
      <4> QED BY <4>2, <4>3
    <3> QED BY <3>2, <3>3
  <2>2. ASSUME meta' # NoFile, \A j \in 1 .. Len(pend') : pend'[j].to # MetaFile
        PROVE  meta'.root = root /\ meta'.next = next
    <3>1. ASSUME NEW m \in 1 .. Len(pend), m > 1 PROVE pend[m].to # MetaFile
      <4>1. m - 1 \in 1 .. Len(pend') /\ (m - 1) + 1 = m
        BY <1>2, <3>1
      <4> QED BY <1>2, <2>2, <4>1
    <3>2. CASE w.to = MetaFile
      <4>1. 1 \in 1 .. Len(pend)
        BY <1>2
      <4>2. w.data.root = root /\ w.data.next = next
        BY <1>2, <3>1, <3>2, <4>1 DEF Shape, Told, Inv, PendOK
      <4> QED BY <1>1, <3>2, <4>2
    <3>3. CASE w.to # MetaFile
      <4>1. \A j \in 1 .. Len(pend) : pend[j].to # MetaFile
        BY <1>2, <3>1, <3>3
      <4> QED BY <1>1, <2>2, <3>3, <4>1 DEF Shape, Told
    <3> QED BY <3>2, <3>3
  <2> QED BY <1>1, <2>1, <2>2 DEF Told
<1>7. ASSUME call'.op = "remove" PROVE Now'[call'.at] # NoFile
  <2>1. call.at \in Ids
    BY <1>1, <1>7, RemoveFields DEF Inv
  <2> QED BY <1>1, <1>3, <1>7, <2>1 DEF Shape
<1> QED BY <1>5, <1>6, <1>7 DEF Shape

(* Opening reads, or infers, what the object was closed with. *)
LEMMA ShapeOpen ==
  ASSUME Inv, Inv', Shape, OpenExisting \/ OpenFresh \/ OpenInferring
  PROVE  Shape'
<1>1. /\ pend = <<>> /\ Len(<<>>) = 0 /\ Now = file /\ UNCHANGED <<file, meta>> /\ call' = None
      /\ call'.op # "remove" /\ ~Unopened'
  BY CallMade DEF Inv, CallOK, Ready, Now, OpenExisting, OpenFresh, OpenInferring, Unopened,
     None, Closed
<1>2. CASE OpenExisting
  <2>1. meta # NoFile /\ root' = meta.root /\ next' = meta.next /\ pend' = <<>>
    BY <1>1, <1>2 DEF OpenExisting
  <2>2. meta.root = root /\ meta.next = next
    BY <1>1, <2>1 DEF Shape, Told
  <2>3. Tree(Now, root, next)
    BY <2>1 DEF Shape, Unopened
  <2>4. Now' = Now /\ root' = root /\ next' = next
    BY <1>1, <2>1, <2>2 DEF Now, Ready
  <2>5. Told'
    BY <1>1, <2>1 DEF Told
  <2> QED BY <1>1, <2>3, <2>4, <2>5 DEF Shape
<1>3. CASE OpenFresh
  <2>1. /\ root' = 0 /\ next' = 1 /\ pend' = <<NodeWrite(0, EmptyLeaf), MetaWrite(0, 1)>>
        /\ meta = NoFile
    BY <1>3 DEF OpenFresh
  <2>2. /\ 0 \in Ids /\ Now'[0] = EmptyLeaf /\ \A i \in Ids \ {0} : Now'[i] = NoFile
    BY <1>3, FreshEffect
  <2>3. EmptyLeaf # NoFile /\ RefersTo(EmptyLeaf) = {}
    BY FreshNodes, FreshRefers, NoFileIsNoContent
  <2>4. Tree(Now', 0, 1)
    <3>1. \A i \in Ids : Now'[i] # NoFile <=> i < 1
      BY <2>2, <2>3 DEF Ids
    <3> QED BY <2>2, <2>3, <3>1, Bounds DEF Tree, Ids
  <2>5. Told'
    <3>1. /\ Len(pend') = 2 /\ pend'[1].to = 0 /\ pend'[2].to = MetaFile
          /\ pend'[2].data.root = 0 /\ MetaFile # 0
      BY <2>1 DEF NodeWrite, MetaWrite, MetaFile
    <3>2. \A j \in 1 .. Len(pend') : j = 1 \/ j = 2
      BY <3>1
    <3> QED BY <1>1, <2>1, <3>1, <3>2 DEF Told
  <2> QED BY <1>1, <2>1, <2>4, <2>5 DEF Shape
<1>4. CASE OpenInferring
  <2>1. /\ file[0] # NoFile /\ meta = NoFile
        /\ root' = InferRoot(file) /\ next' = InferNext(file)
        /\ pend' = <<MetaWrite(InferRoot(file), InferNext(file))>>
    BY <1>4 DEF OpenInferring
  <2>2. 0 \in Ids
    BY Bounds DEF Ids
  <2>3. Tree(file, root, next)
    BY <1>1, <2>1, <2>2 DEF Shape, Unopened
  <2>4. InferRoot(file) = root /\ InferNext(file) = next
    BY <2>3, TreeInfers
  <2>5. \A i \in Ids : Now'[i] = file[i]
    BY <1>4, InferEffect
  <2>6. Tree(Now', root', next')
    <3>1. Tree(Now', root, next)
      BY <2>3, <2>5, TreeSame
    <3> QED BY <2>1, <2>4, <3>1
  <2>7. Told'
    <3>1. Len(pend') = 1 /\ pend'[1].to = MetaFile /\ pend'[1].data.root = root'
      BY <2>1 DEF MetaWrite
    <3>2. \A j \in 1 .. Len(pend') : j = 1
      BY <3>1
    <3> QED BY <1>1, <2>1, <3>1, <3>2 DEF Told
  <2> QED BY <1>1, <2>6, <2>7 DEF Shape
<1> QED BY <1>2, <1>3, <1>4

(* The step that writes a leaf leaves its link alone. *)
LEMMA ShapeLeaf ==
  ASSUME Inv, Inv', Shape, InsertIntoLeaf \/ RemoveFromLeaf
  PROVE  Shape'
<1> DEFINE a == call.at
<1>1. /\ Now = file /\ Now' = file' /\ UNCHANGED <<meta, root, next, pend>> /\ call' = None
      /\ a \in Ids /\ call.key \in Key
      /\ file[a] # NoFile /\ file[a] \in Node /\ file[a].leaf
      /\ \A i \in Ids \ {a} : file'[i] = file[i]
      /\ file'[a] \in Node
      /\ \/ call.val \in Value /\ file'[a] = WithEntry(file[a], call.key, call.val)
         \/ file'[a] = WithoutEntry(file[a], call.key)
         \/ file' = file
  BY LeafEffect
<1>2. ~Unopened /\ call'.op # "remove"
  BY <1>1, CallMade DEF Unopened
<1>3. RefersTo(file'[a]) = RefersTo(file[a]) /\ file'[a] # NoFile
  <2>1. CASE call.val \in Value /\ file'[a] = WithEntry(file[a], call.key, call.val)
    BY <1>1, <2>1, LeafRefers, NoFileIsNoContent
  <2>2. CASE file'[a] = WithoutEntry(file[a], call.key)
    <3>1. RefersTo(WithoutEntry(file[a], call.key)) = RefersTo(file[a])
      BY <1>1 DEF RefersTo, WithoutEntry, LeafNode
    <3> QED BY <1>1, <2>2, <3>1, NoFileIsNoContent
  <2>3. CASE file' = file
    BY <1>1, <2>3
  <2> QED BY <1>1, <2>1, <2>2, <2>3
<1>4. \A i \in Ids : /\ file'[i] # NoFile <=> file[i] # NoFile
                     /\ file[i] # NoFile => RefersTo(file'[i]) = RefersTo(file[i])
  BY <1>1, <1>3
<1>5. Tree(file, root, next)
  BY <1>1, <1>2 DEF Shape
<1>6. Tree(file', root, next)
  BY <1>4, <1>5, TreeSame
<1>7. Tree(Now', root', next')
  BY <1>1, <1>6
<1>8. Told'
  BY <1>1 DEF Shape, Told
<1> QED BY <1>2, <1>7, <1>8 DEF Shape

LEMMA ShapeGrow ==
  ASSUME Inv, Inv', Shape, NEW k \in Key, NEW v \in Value, GrowRoot(k, v)
  PROVE  Shape'
<1>1. /\ Now = file /\ next \in Ids /\ root \in Ids
      /\ Now'[next] = NewRoot(root) /\ \A i \in Ids \ {next} : Now'[i] = file[i]
  BY GrowEffect
<1>2. /\ root' = next /\ next' = next + 1 /\ call # Closed
      /\ call' = Inserting("splitRoot", k, v, next, 1)
      /\ pend' = <<MetaWrite(root, next + 1), NodeWrite(next, NewRoot(root)),
                   MetaWrite(next, next + 1)>>
  BY CallMade DEF GrowRoot, MayInsert, Idle, GrowWrites
<1>3. call'.op # "remove"
  BY <1>2 DEF Inserting
<1>4. Tree(file, root, next)
  BY <1>1, <1>2 DEF Shape, Unopened
<1>5. NewRoot(root) # NoFile /\ RefersTo(NewRoot(root)) = {root}
  BY <1>1, FreshNodes, FreshRefers, NoFileIsNoContent
<1>6. Tree(Now', next, next + 1)
  <2>1. next <= MaxNodeId
    BY <1>1 DEF Ids
  <2> QED BY <1>1, <1>4, <1>5, <2>1, TreeGrows
<1>7. Told'
  <2>1. /\ Len(pend') = 3 /\ pend'[1].to = MetaFile /\ pend'[2].to = next
        /\ pend'[3].to = MetaFile /\ pend'[3].data.root = next /\ MetaFile # next
    BY <1>1, <1>2, WritesMade DEF NodeWrite, MetaWrite
  <2>2. \A j \in 1 .. Len(pend') : j = 1 \/ j = 2 \/ j = 3
    BY <2>1
  <2>3. 1 \in 1 .. Len(pend') /\ 3 \in 1 .. Len(pend') /\ 3 > 1
    BY <2>1
  <2> QED BY <1>2, <2>1, <2>2, <2>3 DEF Told
<1> QED BY <1>2, <1>3, <1>6, <1>7 DEF Shape

LEMMA ShapeSplit ==
  ASSUME Inv, Inv', Shape, SplitChild
  PROVE  Shape'
<1>1. PICK p \in Ids, l \in Ids :
        /\ Now = file /\ p # l /\ next \in Ids \ {p, l} /\ file[next] = NoFile
        /\ file[p] # NoFile /\ file[p] \in Node /\ ~file[p].leaf
        /\ file[l] # NoFile /\ file[l] \in Node /\ Full(file[l])
        /\ call.idx \in 1 .. Len(file[p].keys) + 1 /\ Separator(file[l]) \in Key
        /\ Now'[p] = WithChild(file[p], call.idx, Separator(file[l]), next)
        /\ Now'[l] = LeftHalf(file[l], next)
        /\ Now'[next] = RightHalf(file[l])
        /\ \A i \in Ids \ {p, l, next} : Now'[i] = file[i]
        /\ \E j \in 1 .. Len(pend') : pend'[j].to = MetaFile
        /\ \A j \in 1 .. Len(pend') : pend'[j].to = MetaFile => pend'[j].data.root = root
  BY SplitEffect
<1>2. root' = root /\ next' = next + 1 /\ call' # Closed /\ call'.op # "remove"
  BY DEF SplitChild, Continue, Inserting, Closed
<1>3. Tree(file, root, next)
  BY <1>1 DEF Shape, Unopened
<1>4. /\ Now'[p] # NoFile /\ Now'[l] # NoFile /\ Now'[next] # NoFile
      /\ RefersTo(Now'[p]) = RefersTo(file[p]) \cup {next}
  <2>1. WithChild(file[p], call.idx, Separator(file[l]), next) \in Node
    BY <1>1, WithChildNode
  <2>2. LeftHalf(file[l], next) \in Node /\ RightHalf(file[l]) \in Node
    BY <1>1, Halves
  <2>3. RefersTo(WithChild(file[p], call.idx, Separator(file[l]), next))
          = RefersTo(file[p]) \cup {next}
    BY <1>1, ParentRefers
  <2> QED BY <1>1, <2>1, <2>2, <2>3, NoFileIsNoContent
<1>5. /\ RefersTo(Now'[l]) \subseteq RefersTo(file[l]) \cup {next}
      /\ RefersTo(Now'[next]) \subseteq RefersTo(file[l])
      /\ RefersTo(file[l]) \subseteq RefersTo(Now'[l]) \cup RefersTo(Now'[next])
  BY <1>1, HalvesRefer
<1>6. Tree(Now', root, next + 1)
  <2>1. next <= MaxNodeId /\ \A i \in Ids : i \notin {p, l, next} => Now'[i] = file[i]
    BY <1>1 DEF Ids
  <2> QED BY <1>1, <1>3, <1>4, <1>5, <2>1, TreeSplits
<1>7. Told'
  BY <1>1, <1>2 DEF Told
<1> QED BY <1>2, <1>6, <1>7 DEF Shape

(* The steps that write nothing. *)
LEMMA ShapeWalk ==
  ASSUME Inv, Inv', Shape, UNCHANGED <<file, meta, root, next, pend>>,
         \/ UNCHANGED call \/ Close \/ PickHalf \/ DescendInsert \/ DescendRemove
         \/ CallThrows
         \/ \E k \in Key : BeginRemove(k) \/ \E v \in Value : BeginInsert(k, v)
  PROVE  Shape'
<1>1. Now' = Now /\ Told'
  BY DEF Now, Ready, Shape, Told
<1>2. CASE UNCHANGED call
  BY <1>1, <1>2 DEF Shape, Unopened
<1>3. CASE ~UNCHANGED call
  <2>1. call # Closed
    BY <1>3, CallMade DEF Close, Idle, PickHalf, DescendInsert, DescendRemove, CallThrows,
       MissesFile, BeginRemove, BeginInsert, MayInsert, Closed
  <2>2. Tree(Now, root, next)
    BY <2>1 DEF Shape, Unopened
  <2>3. ASSUME call'.op = "remove" PROVE Now[call'.at] # NoFile
    <3>1. ASSUME NEW k \in Key, BeginRemove(k) PROVE Now[call'.at] # NoFile
      BY <2>2, <3>1 DEF BeginRemove, Removing, Tree
    <3>2. CASE DescendRemove
      <4> DEFINE n == file[call.at]
                 i == ChildIndex(n, call.key)
      <4>1. /\ call.op = "remove" /\ n # NoFile /\ ~n.leaf /\ Now = file
            /\ call'.at = n.kids[i]
        BY <3>2 DEF DescendRemove, Removing, Now
      <4>2. call.key \in Key /\ call.at \in Ids /\ n \in Node
        BY <4>1, RemoveFields DEF Inv, TypeOK
      <4>3. n.kids \in Seq(Ids) /\ i \in 1 .. Len(n.kids)
        BY <4>1, <4>2, InnerParts, ChildIndexStops
      <4>4. n.kids[i] \in RefersTo(n)
        BY <4>1, <4>3, ToSetIs DEF RefersTo
      <4> QED BY <2>2, <4>1, <4>2, <4>4 DEF Tree
    <3>3. CASE ~DescendRemove /\ ~\E k \in Key : BeginRemove(k)
      BY <1>3, <2>3, <3>3 DEF Close, PickHalf, DescendInsert, CallThrows, BeginInsert,
         Continue, Inserting, None, Closed
    <3> QED BY <3>1, <3>2, <3>3
  <2> QED BY <1>1, <2>2, <2>3 DEF Shape
<1> QED BY <1>2, <1>3

LEMMA ShapeStep == Inv /\ Inv' /\ Shape /\ [Next]_vars => Shape'
<1> SUFFICES ASSUME Inv, Inv', Shape, [Next]_vars PROVE Shape'
  OBVIOUS
<1>1. CASE WriteFile
  BY <1>1, ShapeWrite
<1>2. CASE SplitChild
  BY <1>2, ShapeSplit
<1>3. CASE InsertIntoLeaf \/ RemoveFromLeaf
  BY <1>3, ShapeLeaf
<1>4. CASE OpenExisting \/ OpenFresh \/ OpenInferring
  BY <1>4, ShapeOpen
<1>5. ASSUME NEW k \in Key, NEW v \in Value, GrowRoot(k, v) PROVE Shape'
  BY <1>5, ShapeGrow
<1>6. CASE \/ Close \/ PickHalf \/ DescendInsert \/ DescendRemove \/ CallThrows
           \/ \E k \in Key : BeginRemove(k) \/ \E v \in Value : BeginInsert(k, v)
  <2>1. UNCHANGED <<file, meta, root, next, pend>>
    BY <1>6 DEF Close, PickHalf, DescendInsert, DescendRemove, CallThrows, BeginRemove,
       BeginInsert
  <2> QED BY <1>6, <2>1, ShapeWalk
<1>7. CASE UNCHANGED vars
  BY <1>7, ShapeWalk DEF vars
<1>8. CASE MetadataAbsent
  <2>1. /\ UNCHANGED <<file, root, next, call, pend>> /\ meta # NoFile /\ meta' = NoFile
        /\ call = Closed
    BY <1>8 DEF MetadataAbsent
  <2>2. Now' = Now /\ Told'
    BY <2>1 DEF Now, Ready, Shape, Told
  <2> QED BY <2>1, <2>2 DEF Shape, Unopened
<1> QED
  BY <1>1, <1>2, <1>3, <1>4, <1>5, <1>6, <1>7, <1>8 DEF Next, Running, Calls

LEMMA ShapeAlways == Spec => [](Inv /\ Shape)
<1>1. Spec => []Inv
  BY SpecsAreAny, InvAlways
<1> QED BY <1>1, ShapeStart, ShapeStep, PTL DEF Spec

(* What the constructor infers from the node files of a directory without  *)
(* a metadata file is what the file said: splits and the growth of the     *)
(* root leave the root as the only node that none refers to, and use the   *)
(* ids up to the next one (b_tree.cpp:8-80).                               *)
THEOREM InferenceRight == Spec => []InferenceAgrees
<1>1. Inv /\ Shape => InferenceAgrees
  <2> SUFFICES ASSUME Inv, Shape, Idle PROVE InferRoot(file) = root /\ InferNext(file) = next
    BY DEF InferenceAgrees
  <2>1. Now = file /\ call # Closed
    BY CallMade DEF Idle, Ready, Now
  <2>2. Tree(file, root, next)
    BY <2>1 DEF Shape, Unopened
  <2> QED BY <2>2, TreeInfers
<1> QED BY <1>1, ShapeAlways, PTL

(* Unless the program is killed, read_node never throws: the file of every *)
(* node that a walk goes to is there.                                      *)
THEOREM NothingMissing == Spec => [](Ready => ~MissesFile)
<1>1. Inv /\ Shape => (Ready => ~MissesFile)
  <2> SUFFICES ASSUME Inv, Shape, Ready PROVE ~MissesFile
    OBVIOUS
  <2>1. Now = file
    BY DEF Now
  <2>2. call.op = "remove" => file[call.at] # NoFile
    BY <2>1 DEF Shape
  <2>3. call.op = "insert" => file[call.at] # NoFile
    BY <2>1, InsertFields DEF Inv, CallOK, HasRoom
  <2>4. ASSUME call.op = "insert", file[call.at] # NoFile, ~file[call.at].leaf
        PROVE  file[file[call.at].kids[ChildIndex(file[call.at], call.key)]] # NoFile
    <3> DEFINE n == file[call.at]
               i == ChildIndex(n, call.key)
    <3>1. call.key \in Key /\ call.at \in Ids /\ n \in Node
      BY <2>4, InsertFields DEF Inv, TypeOK
    <3>2. n.kids \in Seq(Ids) /\ i \in 1 .. Len(n.kids)
      BY <2>4, <3>1, InnerParts, ChildIndexStops
    <3>3. n.kids[i] \in RefersTo(n)
      BY <2>4, <3>2, ToSetIs DEF RefersTo
    <3>4. Tree(file, root, next)
      BY <2>1, <2>4 DEF Shape, Unopened, Closed
    <3> QED BY <2>4, <3>1, <3>3, <3>4 DEF Tree
  <2> QED BY <2>2, <2>3, <2>4 DEF MissesFile
<1> QED BY <1>1, ShapeAlways, PTL
----------------------------------------------------------------------------
(* The pairs in the leaves of a directory. *)
StoredIn(f) == UNION {Pairs(f[i]) : i \in {j \in Files(f) : f[j].leaf}}

LEMMA StoredIs == Stored = StoredIn(Now) /\ Stored' = StoredIn(Now')
BY DEF Stored, StoredIn, Pairs

LEMMA InStored ==
  ASSUME NEW f, NEW e
  PROVE  e \in StoredIn(f) <=> \E i \in Ids : f[i] # NoFile /\ f[i].leaf /\ e \in Pairs(f[i])
BY DEF StoredIn, Files

LEMMA StoredSame ==
  ASSUME NEW f, NEW g, \A i \in Ids : g[i] = f[i]
  PROVE  StoredIn(g) = StoredIn(f)
<1>1. \A e : e \in StoredIn(g) <=> e \in StoredIn(f)
  BY InStored
<1> QED BY <1>1

(* What a step may do to the pairs. *)
Keeps ==
  /\ \A e \in Stored \ Stored' : call.op = "remove" /\ e[1] = call.key
  /\ \A e \in Stored' \ Stored : call.op = "insert" /\ e = <<call.key, call.val>>

LEMMA KeepsSame ==
  ASSUME \A i \in Ids : Now'[i] = Now[i]
  PROVE  Keeps
<1>1. Stored' = Stored
  BY StoredIs, StoredSame
<1> QED BY <1>1 DEF Keeps

(* Opening changes no pair. *)
LEMMA StoredOpen ==
  ASSUME Inv, OpenExisting \/ OpenFresh \/ OpenInferring
  PROVE  Stored' = Stored
<1>1. CASE OpenExisting
  <2>1. Now' = Now
    BY <1>1 DEF OpenExisting, Now, Ready
  <2> QED BY <2>1, StoredIs, StoredSame
<1>2. CASE OpenFresh
  <2>1. /\ Now = file /\ \A i \in Ids : file[i] = NoFile
        /\ 0 \in Ids /\ Now'[0] = EmptyLeaf /\ \A i \in Ids \ {0} : Now'[i] = NoFile
    BY <1>2, FreshEffect
  <2>2. Pairs(EmptyLeaf) = {}
    BY FreshNodes DEF Pairs
  <2>3. \A e : e \notin StoredIn(Now) /\ e \notin StoredIn(Now')
    BY <2>1, <2>2, InStored
  <2> QED BY <2>3, StoredIs
<1>3. CASE OpenInferring
  BY <1>3, InferEffect, StoredIs, StoredSame
<1> QED BY <1>1, <1>2, <1>3

(* A new root holds no pair. *)
LEMMA StoredGrow ==
  ASSUME Inv, NEW k \in Key, NEW v \in Value, GrowRoot(k, v)
  PROVE  Stored' = Stored
<1>1. /\ Now = file /\ next \in Ids /\ root \in Ids /\ file[next] = NoFile
      /\ Now'[next] = NewRoot(root) /\ \A i \in Ids \ {next} : Now'[i] = file[i]
  BY GrowEffect
<1>2. ~NewRoot(root).leaf
  BY <1>1, FreshNodes
<1>3. \A e : e \in StoredIn(Now) <=> e \in StoredIn(Now')
  BY <1>1, <1>2, InStored
<1> QED BY <1>3, StoredIs

(* A leaf that is split hands its pairs on to its halves, and the right    *)
(* half is a new file.                                                     *)
LEMMA StoredSplit ==
  ASSUME Inv, SplitChild
  PROVE  Stored' = Stored
<1>1. PICK p \in Ids, l \in Ids :
        /\ Now = file /\ p # l /\ next \in Ids \ {p, l} /\ file[next] = NoFile
        /\ file[p] # NoFile /\ file[p] \in Node /\ ~file[p].leaf
        /\ file[l] # NoFile /\ file[l] \in Node /\ Full(file[l])
        /\ call.idx \in 1 .. Len(file[p].keys) + 1 /\ Separator(file[l]) \in Key
        /\ Now'[p] = WithChild(file[p], call.idx, Separator(file[l]), next)
        /\ Now'[l] = LeftHalf(file[l], next)
        /\ Now'[next] = RightHalf(file[l])
        /\ \A i \in Ids \ {p, l, next} : Now'[i] = file[i]
  BY SplitEffect
<1>2. ~Now'[p].leaf
  BY <1>1, WithChildNode
<1>3. /\ Now'[l].leaf = file[l].leaf /\ Now'[next].leaf = file[l].leaf
      /\ Now'[l] # NoFile /\ Now'[next] # NoFile
  BY <1>1, HalvesRefer, Halves, NoFileIsNoContent
<1>4. file[l].leaf => Pairs(Now'[l]) \cup Pairs(Now'[next]) = Pairs(file[l])
  BY <1>1, PairsShared
<1>5. \A e : e \in StoredIn(file) <=>
               \/ file[l].leaf /\ e \in Pairs(file[l])
               \/ \E i \in Ids \ {p, l, next} :
                    file[i] # NoFile /\ file[i].leaf /\ e \in Pairs(file[i])
  BY <1>1, InStored
<1>6. \A e : e \in StoredIn(Now') <=>
               \/ file[l].leaf /\ e \in Pairs(Now'[l]) \cup Pairs(Now'[next])
               \/ \E i \in Ids \ {p, l, next} :
                    file[i] # NoFile /\ file[i].leaf /\ e \in Pairs(file[i])
  BY <1>1, <1>2, <1>3, InStored
<1>7. \A e : e \in StoredIn(file) <=> e \in StoredIn(Now')
  BY <1>4, <1>5, <1>6
<1> QED BY <1>1, <1>7, StoredIs

LEMMA KeepsLeaf ==
  ASSUME Inv, InsertIntoLeaf \/ RemoveFromLeaf
  PROVE  Keeps
<1> DEFINE a == call.at
           old == Pairs(file[a])
           new == Pairs(file'[a])
<1>1. /\ Now = file /\ Now' = file' /\ a \in Ids /\ call.key \in Key
      /\ file[a] # NoFile /\ file[a] \in Node /\ file[a].leaf
      /\ \A i \in Ids \ {a} : file'[i] = file[i]
      /\ file'[a] \in Node
      /\ \/ /\ call.op = "insert" /\ call.val \in Value
            /\ file'[a] = WithEntry(file[a], call.key, call.val)
         \/ /\ call.op = "remove" /\ HasKey(file[a], call.key)
            /\ file'[a] = WithoutEntry(file[a], call.key)
         \/ file' = file
  BY LeafEffect
<1>2. /\ file'[a] # NoFile /\ file'[a].leaf
      /\ \A e \in old \ new : call.op = "remove" /\ e[1] = call.key
      /\ \A e \in new \ old : call.op = "insert" /\ e = <<call.key, call.val>>
  <2>1. file'[a] # NoFile
    BY <1>1, NoFileIsNoContent
  <2>2. CASE /\ call.op = "insert" /\ call.val \in Value
             /\ file'[a] = WithEntry(file[a], call.key, call.val)
    <3>1. file'[a].leaf
      BY <1>1, <2>2, LeafRefers
    <3>2. old \subseteq new /\ new \subseteq old \cup {<<call.key, call.val>>}
      BY <1>1, <2>2, PairsAdded
    <3> QED BY <2>1, <2>2, <3>1, <3>2
  <2>3. CASE /\ call.op = "remove" /\ HasKey(file[a], call.key)
             /\ file'[a] = WithoutEntry(file[a], call.key)
    <3>1. file'[a].leaf
      BY <2>3 DEF WithoutEntry, LeafNode
    <3>2. new \subseteq old /\ \A e \in old \ new : e[1] = call.key
      BY <1>1, <2>3, PairsTaken
    <3> QED BY <2>1, <2>3, <3>1, <3>2
  <2>4. CASE file' = file
    BY <1>1, <2>4
  <2> QED BY <1>1, <2>2, <2>3, <2>4
<1> HIDE DEF a, old, new
<1>3. \A e : e \in StoredIn(file) <=>
               \/ e \in old
               \/ \E i \in Ids \ {a} : file[i] # NoFile /\ file[i].leaf /\ e \in Pairs(file[i])
  BY <1>1, InStored DEF old
<1>4. \A e : e \in StoredIn(file') <=>
               \/ e \in new
               \/ \E i \in Ids \ {a} : file[i] # NoFile /\ file[i].leaf /\ e \in Pairs(file[i])
  BY <1>1, <1>2, InStored DEF new
<1>5. \A e \in StoredIn(file) \ StoredIn(file') : call.op = "remove" /\ e[1] = call.key
  BY <1>2, <1>3, <1>4
<1>6. \A e \in StoredIn(file') \ StoredIn(file) :
        call.op = "insert" /\ e = <<call.key, call.val>>
  BY <1>2, <1>3, <1>4
<1> QED BY <1>1, <1>5, <1>6, StoredIs DEF Keeps

LEMMA KeepsStep == Inv /\ Inv' /\ Next => Keeps
<1> SUFFICES ASSUME Inv, Inv', Next PROVE Keeps
  OBVIOUS
<1>1. CASE WriteFile
  BY <1>1, WriteKeepsNow, KeepsSame DEF Inv
<1>2. CASE SplitChild
  BY <1>2, StoredSplit DEF Keeps
<1>3. CASE InsertIntoLeaf \/ RemoveFromLeaf
  BY <1>3, KeepsLeaf
<1>4. CASE OpenExisting \/ OpenFresh \/ OpenInferring
  BY <1>4, StoredOpen DEF Keeps
<1>5. ASSUME NEW k \in Key, NEW v \in Value, GrowRoot(k, v) PROVE Keeps
  BY <1>5, StoredGrow DEF Keeps
<1>6. CASE \/ Close \/ PickHalf \/ DescendInsert \/ DescendRemove \/ CallThrows
           \/ MetadataAbsent
           \/ \E k \in Key : BeginRemove(k) \/ \E v \in Value : BeginInsert(k, v)
  <2>1. UNCHANGED <<file, pend>>
    BY <1>6 DEF Close, PickHalf, DescendInsert, DescendRemove, CallThrows, MetadataAbsent,
       BeginRemove, BeginInsert
  <2>2. Now' = Now
    BY <2>1 DEF Now, Ready
  <2> QED BY <2>2, KeepsSame
<1> QED
  BY <1>1, <1>2, <1>3, <1>4, <1>5, <1>6 DEF Next, Running, Calls

(* In whatever order the keys arrive, a leaf loses no key and no value     *)
(* that belongs to it: split_child hands all of them on, to the positions  *)
(* next to their keys, and into a file that was not there before; only an  *)
(* insert and a remove of the key change the pairs (b_tree.cpp:245-337).   *)
THEOREM PairsKept == Spec => LeavesKeepPairs
<1>1. Inv /\ Inv' /\ [Next]_vars => [Keeps]_vars
  BY KeepsStep
<1>2. Spec => []Inv
  BY SpecsAreAny, InvAlways
<1>3. Spec => [][Keeps]_vars
  BY <1>1, <1>2, PTL DEF Spec
<1> QED BY <1>3, PTL DEF LeavesKeepPairs, Keeps
=============================================================================
