--------------------------- MODULE BTreeLevelProofs ---------------------------
(***************************************************************************)
(* Theorems about the form of the tree that a program which is not killed  *)
(* builds, for every node size, set of keys, order of the keys and number  *)
(* of node files: it is balanced, and its leaves are linked in the order   *)
(* of the inner nodes above them.                                          *)
(*                                                                         *)
(* The argument is about the position of every node: its level, its        *)
(* parent, its place among the parent's children, and the first and the    *)
(* last leaf below it.  These are not state of the program.  The invariant *)
(* says that there are functions that give them, and every step that       *)
(* changes the tree shows the next ones.                                   *)
(***************************************************************************)
EXTENDS BTreeShapeProofs

(***************************************************************************)
(* Walks.  A walk goes from i to s[i] until it meets a member of S or has  *)
(* made e steps, and ends with b[e][i].  The recursive functions that Edge *)
(* and NodeAt are made of exist: no walk leaves them undefined.            *)
(***************************************************************************)
WalkRow(S, b, s, p, e) == [i \in Ids |-> IF i \in S \/ e = 0 THEN b[e][i] ELSE p[s[i]]]

IsWalk(g, N, S, b, s) == g = [e \in 0 .. N |-> WalkRow(S, b, s, g[e - 1], e)]

TheWalk(N, S, b, s) == CHOOSE g : IsWalk(g, N, S, b, s)

(* By the least number of steps for which there is none. *)
LEMMA WalkExists ==
  ASSUME NEW N \in Nat, NEW S, NEW b, NEW s
  PROVE  \E g : IsWalk(g, N, S, b, s)
<1> DEFINE Level(p, e) == WalkRow(S, b, s, p, e)
           P(m) == \E g : g = [e \in 0 .. m |-> Level(g[e - 1], e)]
           Bad == {m \in 0 .. N : ~P(m)}
<1> SUFFICES Bad = {}
  <2>1. N \in 0 .. N
    OBVIOUS
  <2>2. P(N)
    BY <2>1
  <2> QED BY <2>2 DEF IsWalk
<1> SUFFICES ASSUME Bad # {} PROVE FALSE
  OBVIOUS
<1>1. PICK m \in Bad : \A k \in Bad : m <= k
  <2>1. Bad \in SUBSET Nat
    OBVIOUS
  <2> HIDE DEF Bad
  <2> QED BY <2>1, MinExists
<1>2. m \in 0 .. N /\ ~P(m)
  OBVIOUS
<1>3. ASSUME m = 0 PROVE FALSE
  <2> DEFINE g == [e \in 0 .. 0 |-> [i \in Ids |-> b[0][i]]]
  <2>1. \A e \in 0 .. 0 : e = 0 /\ Level(g[e - 1], e) = [i \in Ids |-> b[0][i]]
    BY DEF WalkRow
  <2>2. [e \in 0 .. 0 |-> Level(g[e - 1], e)] = g
    <3> HIDE DEF Level
    <3> QED BY <2>1
  <2> HIDE DEF Level, g
  <2> QED BY <1>2, <1>3, <2>2
<1>4. ASSUME m # 0 PROVE FALSE
  <2>1. m - 1 \in 0 .. N /\ ~(m <= m - 1) /\ m \in Nat /\ m > 0
    BY <1>2, <1>4
  <2>2. P(m - 1)
    <3>1. m - 1 \notin Bad
      <4> HIDE DEF Bad
      <4> QED BY <1>1, <2>1
    <3> QED BY <2>1, <3>1
  <2>3. PICK f : f = [e \in 0 .. m - 1 |-> Level(f[e - 1], e)]
    BY <2>2
  <2> DEFINE g == [e \in 0 .. m |-> IF e = m THEN Level(f[m - 1], m) ELSE f[e]]
  <2>4. ASSUME NEW e \in 0 .. m PROVE g[e] = Level(g[e - 1], e)
    <3>1. CASE e = m
      <4>1. m - 1 \in 0 .. m /\ m - 1 # m
        BY <2>1
      <4>2. g[m - 1] = f[m - 1] /\ g[e] = Level(f[m - 1], m)
        <5> HIDE DEF Level
        <5> QED BY <3>1, <4>1
      <4> HIDE DEF Level, g
      <4> QED BY <3>1, <4>2
    <3>2. CASE e # m /\ e # 0
      <4>1. e \in 0 .. m - 1 /\ e - 1 \in 0 .. m /\ e - 1 # m
        BY <2>1, <3>2
      <4>2. g[e] = f[e] /\ g[e - 1] = f[e - 1] /\ f[e] = Level(f[e - 1], e)
        <5> HIDE DEF Level
        <5> QED BY <2>3, <3>2, <4>1
      <4> HIDE DEF Level, g
      <4> QED BY <4>2
    <3>3. CASE e = 0 /\ e # m
      <4>1. g[0] = f[0] /\ f[0] = Level(f[0 - 1], 0)
        <5>1. 0 \in 0 .. m - 1
          BY <2>1
        <5> HIDE DEF Level
        <5> QED BY <2>3, <3>3, <5>1
      <4>2. \A x : Level(x, 0) = [i \in Ids |-> b[0][i]]
        BY DEF WalkRow
      <4> HIDE DEF Level, g
      <4> QED BY <3>3, <4>1, <4>2
    <3> QED BY <3>1, <3>2, <3>3
  <2>5. g = [e \in 0 .. m |-> Level(g[e - 1], e)]
    <3>1. DOMAIN g = 0 .. m /\ g = [e \in 0 .. m |-> g[e]]
      <4> HIDE DEF Level
      <4> QED OBVIOUS
    <3> HIDE DEF Level, g
    <3> QED BY <2>4, <3>1
  <2> HIDE DEF Level, g
  <2> QED BY <1>2, <2>5
<1> QED BY <1>3, <1>4

(* Each step of the walk is what its definition says.                      *)
LEMMA WalkOf ==
  ASSUME NEW N \in Nat, NEW S, NEW b, NEW s
  PROVE  \A e \in 0 .. N, i \in Ids :
           TheWalk(N, S, b, s)[e][i] =
             IF i \in S \/ e = 0 THEN b[e][i] ELSE TheWalk(N, S, b, s)[e - 1][s[i]]
<1> DEFINE D == TheWalk(N, S, b, s)
<1>1. IsWalk(D, N, S, b, s)
  BY WalkExists, Zenon DEF TheWalk
<1> HIDE DEF D
<1> SUFFICES ASSUME NEW e \in 0 .. N, NEW i \in Ids
             PROVE  D[e][i] = IF i \in S \/ e = 0 THEN b[e][i] ELSE D[e - 1][s[i]]
  BY DEF D
<1>2. D[e] = WalkRow(S, b, s, D[e - 1], e)
  BY <1>1 DEF IsWalk
<1> QED BY <1>2 DEF WalkRow

(* Edge, one step at a time.                                               *)
LEMMA EdgeDescends ==
  ASSUME NEW f, NEW right \in BOOLEAN
  PROVE  \E D :
           /\ \A i : Edge(f, i, right) = D[MaxNodeId][i]
           /\ \A e \in 0 .. MaxNodeId, i \in Ids :
                D[e][i] = IF Stops(f, i) \/ e = 0
                          THEN [leaf |-> i, height |-> MaxNodeId - e]
                          ELSE D[e - 1][EndKid(f[i], right)]
<1> DEFINE S == {i \in Ids : Stops(f, i)}
           b == [e \in 0 .. MaxNodeId |-> [i \in Ids |-> [leaf |-> i, height |-> MaxNodeId - e]]]
           s == [i \in Ids |-> EndKid(f[i], right)]
           F(g) == [e \in 0 .. MaxNodeId |-> [i \in Ids |->
                      IF Stops(f, i) \/ e = 0
                      THEN [leaf |-> i, height |-> MaxNodeId - e]
                      ELSE g[e - 1][EndKid(f[i], right)]]]
           D == CHOOSE g : g = F(g)
<1>1. \A g : g = F(g) <=> IsWalk(g, MaxNodeId, S, b, s)
  <2> TAKE g
  <2>1. \A e \in 0 .. MaxNodeId :
          [i \in Ids |-> IF Stops(f, i) \/ e = 0
                         THEN [leaf |-> i, height |-> MaxNodeId - e]
                         ELSE g[e - 1][EndKid(f[i], right)]]
            = WalkRow(S, b, s, g[e - 1], e)
    BY DEF WalkRow
  <2> HIDE DEF S, b, s
  <2> QED BY <2>1 DEF IsWalk
<1>2. D = TheWalk(MaxNodeId, S, b, s)
  <2> HIDE DEF F, S, b, s
  <2> QED BY <1>1 DEF TheWalk
<1>3. \A e \in 0 .. MaxNodeId, i \in Ids :
        D[e][i] = IF i \in S \/ e = 0 THEN b[e][i] ELSE D[e - 1][s[i]]
  <2> HIDE DEF D, S, b, s
  <2> QED BY <1>2, Bounds, WalkOf
<1>4. \A i : Edge(f, i, right) = D[MaxNodeId][i]
  BY DEF Edge
<1> HIDE DEF D
<1> QED BY <1>3, <1>4

(* D[d][i] is where the search for k is d steps after node i. *)
IsPath(f, k, D) ==
  /\ \A i, d : NodeAt(f, i, k, d) = D[d][i]
  /\ \A e \in 0 .. MaxNodeId + 1, i \in Ids :
       D[e][i] = IF Stops(f, i) \/ e = 0 THEN i
                 ELSE D[e - 1][f[i].kids[ChildIndex(f[i], k)]]

(* The path of a search, one step at a time.                               *)
LEMMA PathDescends ==
  ASSUME NEW f, NEW k
  PROVE  \E D : IsPath(f, k, D)
<1> DEFINE S == {i \in Ids : Stops(f, i)}
           b == [e \in 0 .. MaxNodeId + 1 |-> [i \in Ids |-> i]]
           s == [i \in Ids |-> f[i].kids[ChildIndex(f[i], k)]]
           F(g) == [e \in 0 .. MaxNodeId + 1 |-> [i \in Ids |->
                      IF Stops(f, i) \/ e = 0 THEN i
                      ELSE g[e - 1][f[i].kids[ChildIndex(f[i], k)]]]]
           D == CHOOSE g : g = F(g)
<1>1. \A g : g = F(g) <=> IsWalk(g, MaxNodeId + 1, S, b, s)
  <2> TAKE g
  <2>1. \A e \in 0 .. MaxNodeId + 1 :
          [i \in Ids |-> IF Stops(f, i) \/ e = 0 THEN i
                         ELSE g[e - 1][f[i].kids[ChildIndex(f[i], k)]]]
            = WalkRow(S, b, s, g[e - 1], e)
    BY DEF WalkRow
  <2> HIDE DEF S, b, s
  <2> QED BY <2>1 DEF IsWalk
<1>2. D = TheWalk(MaxNodeId + 1, S, b, s)
  <2> HIDE DEF F, S, b, s
  <2> QED BY <1>1 DEF TheWalk
<1>3. \A e \in 0 .. MaxNodeId + 1, i \in Ids :
        D[e][i] = IF i \in S \/ e = 0 THEN b[e][i] ELSE D[e - 1][s[i]]
  <2>1. MaxNodeId + 1 \in Nat
    BY Bounds
  <2> HIDE DEF D, S, b, s
  <2> QED BY <1>2, <2>1, WalkOf
<1>4. \A i, d : NodeAt(f, i, k, d) = D[d][i]
  BY DEF NodeAt
<1> HIDE DEF D
<1> QED BY <1>3, <1>4 DEF IsPath

----------------------------------------------------------------------------
(***************************************************************************)
(* What the proofs below say of the node files: which are there, of which  *)
(* kind, and their children, number of children, number of keys and link.  *)
(***************************************************************************)
There(f, i)     == f[i] # NoFile
LeafFile(f, i)  == f[i] # NoFile /\ f[i].leaf
InnerFile(f, i) == f[i] # NoFile /\ ~f[i].leaf
Kid(f, i, c)    == f[i].kids[c]
Degree(f, i)    == Len(f[i].kids)
Load(f, i)      == Len(f[i].keys)
Link(f, i)      == f[i].link

(* Node i is the same in f and in g. *)
SameNode(f, g, i) ==
  /\ LeafFile(g, i) <=> LeafFile(f, i)
  /\ InnerFile(g, i) <=> InnerFile(f, i)
  /\ Degree(g, i) = Degree(f, i) /\ Load(g, i) = Load(f, i) /\ Link(g, i) = Link(f, i)
  /\ \A c : Kid(g, i, c) = Kid(f, i, c)

(* Equal contents are the same node.                                       *)
LEMMA SameContent ==
  ASSUME NEW f, NEW g, NEW i, g[i] = f[i]
  PROVE  SameNode(f, g, i)
BY DEF SameNode, LeafFile, InnerFile, Degree, Load, Link, Kid

(* A file that is there is a leaf's or an inner node's.                    *)
LEMMA FileIs ==
  ASSUME NEW f, NEW i
  PROVE  /\ There(f, i) <=> LeafFile(f, i) \/ InnerFile(f, i)
         /\ ~(LeafFile(f, i) /\ InnerFile(f, i))
BY DEF There, LeafFile, InnerFile

(* g is f after l, the i-th child of p, has been split into l and n. *)
SplitOf(f, g, n, p, l, i) ==
  /\ p \in Ids /\ l \in Ids /\ n \in Ids /\ p # l /\ n # p /\ n # l
  /\ ~There(f, n) /\ InnerFile(f, p) /\ There(f, l)
  /\ i \in 1 .. Degree(f, p) /\ Kid(f, p, i) = l /\ Degree(f, p) \in Nat
  /\ \A j \in Ids \ {p, l, n} : SameNode(f, g, j)
  /\ InnerFile(g, p) /\ There(g, l) /\ There(g, n)
  /\ LeafFile(g, l) <=> LeafFile(f, l)
  /\ LeafFile(g, n) <=> LeafFile(f, l)
  /\ Load(f, p) \in Nat /\ Load(g, p) = Load(f, p) + 1
  /\ Load(g, l) \in Nat /\ Load(g, n) \in Nat /\ Load(g, l) >= MinKeys /\ Load(g, n) >= MinKeys
  /\ Degree(g, p) = Degree(f, p) + 1
  /\ \A c \in 1 .. Degree(f, p) + 1 :
       Kid(g, p, c) = IF c <= i THEN Kid(f, p, c) ELSE IF c = i + 1 THEN n ELSE Kid(f, p, c - 1)
  /\ LeafFile(f, l) => Link(g, l) = n /\ Link(g, n) = Link(f, l)
  /\ InnerFile(f, l) =>
       /\ Degree(f, l) = 2 * MinKeys + 2
       /\ Degree(g, l) = MinKeys + 1 /\ Degree(g, n) = MinKeys + 1
       /\ \A c \in 1 .. MinKeys + 1 :
            Kid(g, l, c) = Kid(f, l, c) /\ Kid(g, n, c) = Kid(f, l, MinKeys + 1 + c)

(* The children of the halves of an inner node, one by one.                *)
LEMMA HalfKids ==
  ASSUME NEW m \in Node, ~m.leaf, Full(m), NEW r \in Ids
  PROVE  /\ Len(m.kids) = 2 * MinKeys + 2
         /\ Len(LeftHalf(m, r).kids) = MinKeys + 1 /\ Len(RightHalf(m).kids) = MinKeys + 1
         /\ \A c \in 1 .. MinKeys + 1 :
              /\ LeftHalf(m, r).kids[c] = m.kids[c]
              /\ RightHalf(m).kids[c] = m.kids[MinKeys + 1 + c]
<1> DEFINE a == SubSeq(m.kids, 1, MinKeys + 1)
           b == SubSeq(m.kids, MinKeys + 2, MaxKeys + 1)
<1>1. /\ m.kids \in Seq(Ids) /\ Len(m.kids) = MaxKeys + 1
      /\ MaxKeys = 2 * MinKeys + 1 /\ MinKeys \in Nat \ {0}
  BY InnerParts, NodeSizes DEF Full
<1>2. LeftHalf(m, r).kids = a /\ RightHalf(m).kids = b
  BY DEF LeftHalf, RightHalf, RightInner, InnerNode
<1>3. Len(a) = MinKeys + 1 /\ \A c \in 1 .. MinKeys + 1 : a[c] = m.kids[c]
  <2>1. Len(a) = MinKeys + 1
    BY <1>1, SubSeqType
  <2>2. \A c \in 1 .. MinKeys + 1 - 1 + 1 : a[c] = m.kids[1 + c - 1]
    BY <1>1, SubSeqElements
  <2> HIDE DEF a
  <2> QED BY <1>1, <2>1, <2>2
<1>4. Len(b) = MinKeys + 1 /\ \A c \in 1 .. MinKeys + 1 : b[c] = m.kids[MinKeys + 1 + c]
  <2>1. Len(b) = MinKeys + 1
    BY <1>1, SubSeqType
  <2>2. \A c \in 1 .. (MaxKeys + 1) - (MinKeys + 2) + 1 : b[c] = m.kids[MinKeys + 2 + c - 1]
    <3> DEFINE s == m.kids
               i == MinKeys + 2
               j == MaxKeys + 1
    <3>1. s \in Seq(Ids) /\ i \in Nat \ {0} /\ j \in Nat /\ j <= Len(s) /\ i <= j
      BY <1>1
    <3>2. b = SubSeq(s, i, j)
      OBVIOUS
    <3> HIDE DEF b, s, i, j
    <3>3. \A c \in 1 .. j - i + 1 : SubSeq(s, i, j)[c] = s[i + c - 1]
      BY <3>1, SubSeqElements
    <3>4. \A c \in 1 .. j - i + 1 : b[c] = s[i + c - 1]
      BY <3>2, <3>3
    <3> QED BY <3>4, Zenon DEF s, i, j
  <2>3. \A c \in 1 .. MinKeys + 1 :
          /\ c \in 1 .. (MaxKeys + 1) - (MinKeys + 2) + 1
          /\ MinKeys + 2 + c - 1 = MinKeys + 1 + c
    BY <1>1
  <2> HIDE DEF b
  <2> QED BY <2>1, <2>2, <2>3
<1> HIDE DEF a, b
<1> QED BY <1>1, <1>2, <1>3, <1>4

(* The keys of the halves of a node, one by one.                           *)
LEMMA HalfKeys ==
  ASSUME NEW m \in Node, Full(m), NEW r \in Ids
  PROVE  /\ Len(LeftHalf(m, r).keys) = MinKeys
         /\ Len(RightHalf(m).keys) = IF m.leaf THEN MinKeys + 1 ELSE MinKeys
         /\ \A c \in 1 .. MinKeys : LeftHalf(m, r).keys[c] = m.keys[c]
         /\ \A c \in 1 .. Len(RightHalf(m).keys) :
              RightHalf(m).keys[c] = m.keys[(IF m.leaf THEN MinKeys ELSE MinKeys + 1) + c]
<1> DEFINE a == SubSeq(m.keys, 1, MinKeys)
           k == IF m.leaf THEN MinKeys ELSE MinKeys + 1
           b == SubSeq(m.keys, k + 1, MaxKeys)
<1>1. /\ m.keys \in Seq(Key) /\ Len(m.keys) = MaxKeys
      /\ MaxKeys = 2 * MinKeys + 1 /\ MinKeys \in Nat \ {0}
  BY KeysOfNode, NodeSizes DEF Full
<1>2. LeftHalf(m, r).keys = a /\ RightHalf(m).keys = b
  <2>1. (MinKeys + 1) + 1 = MinKeys + 2
    BY <1>1
  <2>2. LeftHalf(m, r).keys = a
    BY DEF LeftHalf, LeafNode, InnerNode
  <2>3. CASE m.leaf
    BY <2>2, <2>3 DEF RightHalf, RightLeaf, LeafNode
  <2>4. CASE ~m.leaf
    <3>1. RightHalf(m).keys = SubSeq(m.keys, MinKeys + 2, MaxKeys)
      BY <2>4 DEF RightHalf, RightInner, InnerNode
    <3> QED BY <2>1, <2>2, <2>4, <3>1
  <2> QED BY <2>3, <2>4
<1>3. k \in Nat /\ k + 1 <= MaxKeys /\ MaxKeys - k = (IF m.leaf THEN MinKeys + 1 ELSE MinKeys)
  BY <1>1
<1> HIDE DEF k
<1>4. Len(a) = MinKeys /\ \A c \in 1 .. MinKeys : a[c] = m.keys[c]
  <2>1. Len(a) = MinKeys
    BY <1>1, SubSeqType
  <2>2. \A c \in 1 .. MinKeys - 1 + 1 : a[c] = m.keys[1 + c - 1]
    BY <1>1, SubSeqElements
  <2> HIDE DEF a
  <2> QED BY <1>1, <2>1, <2>2
<1>5. Len(b) = MaxKeys - k /\ \A c \in 1 .. MaxKeys - k : b[c] = m.keys[k + c]
  <2> DEFINE s == m.keys
             i == k + 1
  <2>1. /\ s \in Seq(Key) /\ i \in Nat \ {0} /\ MaxKeys \in Nat /\ MaxKeys <= Len(s)
        /\ i <= MaxKeys /\ b = SubSeq(s, i, MaxKeys)
    BY <1>1, <1>3
  <2> HIDE DEF b, s, i
  <2>2. Len(b) = MaxKeys - i + 1
    BY <2>1, SubSeqType
  <2>3. \A c \in 1 .. MaxKeys - i + 1 : b[c] = s[i + c - 1]
    BY <2>1, SubSeqElements
  <2>4. MaxKeys - i + 1 = MaxKeys - k /\ \A c \in 1 .. MaxKeys - k : i + c - 1 = k + c
    BY <1>1, <1>3 DEF i
  <2> QED BY <2>2, <2>3, <2>4 DEF s
<1> HIDE DEF a, b
<1> QED BY <1>2, <1>3, <1>4, <1>5 DEF k

(* SplitChild splits the child of call.at that call.idx names.             *)
LEMMA SplitIs ==
  ASSUME Inv, SplitChild
  PROVE  \E p, l \in Ids :
           /\ p = call.at /\ l = file[p].kids[call.idx] /\ Now = file
           /\ SplitOf(file, Now', next, p, l, call.idx)
           /\ file[p] \in Node /\ file[l] \in Node /\ Full(file[l])
           /\ call.idx \in 1 .. Len(file[p].keys) + 1 /\ Separator(file[l]) \in Key
           /\ Now'[p] = WithChild(file[p], call.idx, Separator(file[l]), next)
           /\ Now'[l] = LeftHalf(file[l], next)
           /\ Now'[next] = RightHalf(file[l])
           /\ \A j \in Ids \ {p, l, next} : Now'[j] = file[j]
<1>1. PICK p \in Ids, l \in Ids :
        /\ p = call.at /\ l = file[p].kids[call.idx]
        /\ Now = file /\ p # l /\ next \in Ids \ {p, l} /\ file[next] = NoFile
        /\ file[p] # NoFile /\ file[p] \in Node /\ ~file[p].leaf
        /\ file[l] # NoFile /\ file[l] \in Node /\ Full(file[l])
        /\ call.idx \in 1 .. Len(file[p].keys) + 1 /\ Separator(file[l]) \in Key
        /\ Now'[p] = WithChild(file[p], call.idx, Separator(file[l]), next)
        /\ Now'[l] = LeftHalf(file[l], next)
        /\ Now'[next] = RightHalf(file[l])
        /\ \A i \in Ids \ {p, l, next} : Now'[i] = file[i]
  BY SplitEffect
<1> DEFINE P == file[p]
           m == file[l]
           i == call.idx
           s == Separator(m)
           Q == WithChild(P, i, s, next)
<1>2. /\ P.kids \in Seq(Ids) /\ Len(P.kids) = Len(P.keys) + 1 /\ Len(P.keys) \in Nat
      /\ i \in 1 .. Len(P.kids) /\ Len(P.kids) \in Nat
  <2>1. P \in Node /\ ~P.leaf /\ i \in 1 .. Len(P.keys) + 1
    BY <1>1
  <2> HIDE DEF P, i
  <2>2. /\ P.kids \in Seq(Ids) /\ Len(P.kids) = Len(P.keys) + 1 /\ Len(P.keys) \in Nat
    BY <2>1, InnerParts
  <2> QED BY <2>1, <2>2
<1>3. /\ Q \in Node /\ ~Q.leaf /\ Len(Q.keys) = Len(P.keys) + 1
      /\ Q.kids = InsertAt(P.kids, i + 1, next)
  <2> HIDE DEF P, m
  <2>1. P \in Node /\ ~P.leaf /\ i \in 1 .. Len(P.keys) + 1 /\ s \in Key /\ next \in Ids
    BY <1>1 DEF P, m
  <2> HIDE DEF s, i
  <2> QED BY <2>1, WithChildNode
<1>4. Len(Q.kids) = Len(P.kids) + 1
  <2> HIDE DEF Q
  <2> QED BY <1>2, <1>3, InnerParts
<1>5. ASSUME NEW c \in 1 .. Len(P.kids) + 1
      PROVE  Q.kids[c] = IF c <= i THEN P.kids[c] ELSE IF c = i + 1 THEN next ELSE P.kids[c - 1]
  <2>1. i + 1 \in 1 .. Len(P.kids) + 1 /\ (c < i + 1 <=> c <= i)
    BY <1>2
  <2>2. Q.kids[c] = IF c < i + 1 THEN P.kids[c] ELSE IF c = i + 1 THEN next ELSE P.kids[c - 1]
    <3> DEFINE t == P.kids
               d == i + 1
    <3>1. t \in Seq(Ids) /\ d \in 1 .. Len(t) + 1 /\ c \in 1 .. Len(t) + 1 /\ next \in Ids
      BY <1>1, <1>2, <2>1
    <3> HIDE DEF t, d, Q
    <3>2. InsertAt(t, d, next)[c] = IF c < d THEN t[c] ELSE IF c = d THEN next ELSE t[c - 1]
      BY <3>1, InsertAtElements
    <3> QED BY <1>3, <3>2 DEF t, d
  <2> QED BY <2>1, <2>2
<1>6. /\ LeftHalf(m, next) \in Node /\ RightHalf(m) \in Node
      /\ LeftHalf(m, next).leaf = m.leaf /\ RightHalf(m).leaf = m.leaf
      /\ Len(LeftHalf(m, next).keys) >= MinKeys /\ Len(RightHalf(m).keys) >= MinKeys
  <2>1. m \in Node /\ Full(m) /\ next \in Ids
    BY <1>1
  <2> HIDE DEF m
  <2>2. LeftHalf(m, next) \in Node /\ RightHalf(m) \in Node
    BY <2>1, Halves
  <2>3. LeftHalf(m, next).leaf = m.leaf /\ RightHalf(m).leaf = m.leaf
    BY <2>1, HalvesRefer
  <2>4. /\ Len(LeftHalf(m, next).keys) = MinKeys
        /\ Len(RightHalf(m).keys) = IF m.leaf THEN MinKeys + 1 ELSE MinKeys
    BY <2>1, HalfKeys
  <2> QED BY <2>2, <2>3, <2>4, NodeSizes
<1>7. m.leaf => LeftHalf(m, next).link = next /\ RightHalf(m).link = m.link
  BY DEF LeftHalf, RightHalf, RightLeaf, LeafNode
<1>8. ~m.leaf =>
        /\ Len(m.kids) = 2 * MinKeys + 2
        /\ Len(LeftHalf(m, next).kids) = MinKeys + 1 /\ Len(RightHalf(m).kids) = MinKeys + 1
        /\ \A c \in 1 .. MinKeys + 1 :
             /\ LeftHalf(m, next).kids[c] = m.kids[c]
             /\ RightHalf(m).kids[c] = m.kids[MinKeys + 1 + c]
  BY <1>1, HalfKids
<1>9. Now'[p] = Q /\ Now'[l] = LeftHalf(m, next) /\ Now'[next] = RightHalf(m)
  BY <1>1
<1> HIDE DEF Q, P, m, s
<1>10. SplitOf(file, Now', next, p, l, i)
  <2> DEFINE g == Now'
  <2>1. /\ p \in Ids /\ l \in Ids /\ next \in Ids /\ p # l /\ next # p /\ next # l
        /\ ~There(file, next) /\ InnerFile(file, p) /\ There(file, l)
        /\ i \in 1 .. Degree(file, p) /\ Kid(file, p, i) = l /\ Degree(file, p) \in Nat
    BY <1>1, <1>2 DEF InnerFile, There, Degree, Kid, P
  <2>2. \A j \in Ids \ {p, l, next} : SameNode(file, g, j)
    BY <1>1, SameContent
  <2>3. /\ InnerFile(g, p) /\ There(g, l) /\ There(g, next)
        /\ LeafFile(g, l) <=> LeafFile(file, l)
        /\ LeafFile(g, next) <=> LeafFile(file, l)
    BY <1>1, <1>3, <1>6, <1>9, NoFileIsNoContent DEF InnerFile, There, LeafFile, m
  <2>4. /\ Load(file, p) \in Nat /\ Load(g, p) = Load(file, p) + 1
        /\ Degree(g, p) = Degree(file, p) + 1
    BY <1>2, <1>3, <1>4, <1>9 DEF Load, Degree, P
  <2>5. /\ Load(g, l) \in Nat /\ Load(g, next) \in Nat
        /\ Load(g, l) >= MinKeys /\ Load(g, next) >= MinKeys
    BY <1>6, <1>9, KeysOfNode DEF Load
  <2>6. \A c \in 1 .. Degree(file, p) + 1 :
          Kid(g, p, c) = IF c <= i THEN Kid(file, p, c)
                         ELSE IF c = i + 1 THEN next ELSE Kid(file, p, c - 1)
    BY <1>5, <1>9 DEF Degree, Kid, P
  <2>7. LeafFile(file, l) => Link(g, l) = next /\ Link(g, next) = Link(file, l)
    BY <1>7, <1>9 DEF LeafFile, Link, m
  <2>8. InnerFile(file, l) =>
          /\ Degree(file, l) = 2 * MinKeys + 2
          /\ Degree(g, l) = MinKeys + 1 /\ Degree(g, next) = MinKeys + 1
          /\ \A c \in 1 .. MinKeys + 1 :
               /\ Kid(g, l, c) = Kid(file, l, c)
               /\ Kid(g, next, c) = Kid(file, l, MinKeys + 1 + c)
    BY <1>8, <1>9 DEF InnerFile, Degree, Kid, m
  <2> HIDE DEF i, g
  <2>9. SplitOf(file, g, next, p, l, i)
    BY <2>1, <2>2, <2>3, <2>4, <2>5, <2>6, <2>7, <2>8 DEF SplitOf
  <2> QED BY <2>9 DEF g
<1> QED BY <1>1, <1>10

----------------------------------------------------------------------------
(***************************************************************************)
(* The levels of a tree: h[i] is how far node i is above the leaves, and   *)
(* every node i but the root is the child pos[i] of par[i] and of no       *)
(* other node.                                                             *)
(***************************************************************************)
ChildFits(f, r, h, par, pos, i, c) ==
  /\ Kid(f, i, c) \in Ids /\ There(f, Kid(f, i, c)) /\ Kid(f, i, c) # r
  /\ h[Kid(f, i, c)] + 1 = h[i]
  /\ par[Kid(f, i, c)] = i /\ pos[Kid(f, i, c)] = c

Below(f, r, h, par, pos, i) ==
  /\ h[i] < h[r]
  /\ InnerFile(f, par[i]) /\ pos[i] \in 1 .. Degree(f, par[i]) /\ Kid(f, par[i], pos[i]) = i
  /\ InnerFile(f, i) => Load(f, i) >= MinKeys

Leveled(f, r, n, h, par, pos) ==
  /\ h \in [Ids -> Nat] /\ par \in [Ids -> Ids] /\ pos \in [Ids -> Nat]
  /\ r \in Ids /\ There(f, r)
  /\ \A i \in Ids : There(f, i) => h[i] < n /\ (i # r => Below(f, r, h, par, pos, i))
  /\ \A i \in Ids : LeafFile(f, i) => h[i] = 0
  /\ \A i \in Ids : InnerFile(f, i) =>
       /\ Degree(f, i) \in Nat /\ Degree(f, i) >= 1 /\ Load(f, i) \in Nat
       /\ \A c \in 1 .. Degree(f, i) : ChildFits(f, r, h, par, pos, i, c)

SplitLevel(h, n, l) == [h EXCEPT ![n] = h[l]]

SplitPar(par, pos, n, p, l) ==
  [x \in Ids |-> IF x = n THEN p
                 ELSE IF par[x] = l /\ pos[x] > MinKeys + 1 THEN n
                 ELSE par[x]]

SplitPos(par, pos, n, p, l, i) ==
  [x \in Ids |-> IF x = n THEN i + 1
                 ELSE IF par[x] = p /\ pos[x] > i THEN pos[x] + 1
                 ELSE IF par[x] = l /\ pos[x] > MinKeys + 1 THEN pos[x] - (MinKeys + 1)
                 ELSE pos[x]]

(* A split moves the right half of the children below the new node and     *)
(* the younger siblings of the split node by one.                          *)
LEMMA LeveledSplits ==
  ASSUME NEW f, NEW g, NEW r, NEW n, NEW h, NEW par, NEW pos, Leveled(f, r, n, h, par, pos),
         NEW p, NEW l, NEW i, SplitOf(f, g, n, p, l, i), n \in Nat
  PROVE  Leveled(g, r, n + 1, SplitLevel(h, n, l), SplitPar(par, pos, n, p, l),
                 SplitPos(par, pos, n, p, l, i))
<1> DEFINE h2 == SplitLevel(h, n, l)
           par2 == SplitPar(par, pos, n, p, l)
           pos2 == SplitPos(par, pos, n, p, l, i)
           k == MinKeys + 1
<1>1. /\ h \in [Ids -> Nat] /\ par \in [Ids -> Ids] /\ pos \in [Ids -> Nat]
      /\ r \in Ids /\ There(f, r)
  BY DEF Leveled
<1>2. /\ p \in Ids /\ l \in Ids /\ n \in Ids /\ p # l /\ n # p /\ n # l
      /\ ~There(f, n) /\ There(f, l) /\ There(f, p)
  BY FileIs DEF SplitOf
<1>3. /\ InnerFile(f, p) /\ InnerFile(g, p)
      /\ i \in 1 .. Degree(f, p) /\ Degree(f, p) \in Nat /\ Kid(f, p, i) = l
      /\ Load(f, p) \in Nat /\ Load(g, p) = Load(f, p) + 1
      /\ Degree(g, p) = Degree(f, p) + 1
  BY DEF SplitOf
<1>4. \A c \in 1 .. Degree(f, p) + 1 :
        Kid(g, p, c) = IF c <= i THEN Kid(f, p, c)
                       ELSE IF c = i + 1 THEN n ELSE Kid(f, p, c - 1)
  BY DEF SplitOf
<1>5. k \in Nat /\ k >= 1 /\ 2 * MinKeys + 2 = k + k /\ MinKeys \in Nat
  BY NodeSizes
<1>6. InnerFile(f, l) =>
        /\ Degree(f, l) = k + k
        /\ Degree(g, l) = k /\ Degree(g, n) = k
        /\ \A c \in 1 .. k : Kid(g, l, c) = Kid(f, l, c) /\ Kid(g, n, c) = Kid(f, l, k + c)
  BY <1>5 DEF SplitOf
<1>7. \A j \in Ids \ {p, l, n} : SameNode(f, g, j)
  BY DEF SplitOf
<1>8. /\ There(g, p) /\ There(g, l) /\ There(g, n)
      /\ LeafFile(g, l) <=> LeafFile(f, l)
      /\ LeafFile(g, n) <=> LeafFile(f, l)
      /\ Load(g, l) \in Nat /\ Load(g, n) \in Nat
      /\ Load(g, l) >= MinKeys /\ Load(g, n) >= MinKeys
  BY FileIs DEF SplitOf
<1>9. \A j \in Ids \ {n} : There(g, j) <=> There(f, j)
  BY <1>2, <1>7, <1>8, FileIs DEF SameNode
<1>10. /\ InnerFile(g, l) <=> InnerFile(f, l)
       /\ InnerFile(g, n) <=> InnerFile(f, l)
  BY <1>2, <1>8, FileIs
<1>11. ASSUME NEW j \in Ids, InnerFile(f, j)
       PROVE  /\ j # n /\ Degree(f, j) \in Nat /\ Degree(f, j) >= 1 /\ Load(f, j) \in Nat
              /\ There(f, j)
  BY <1>2, <1>11, FileIs DEF Leveled
<1>12. ASSUME NEW j \in Ids, InnerFile(f, j), NEW c \in 1 .. Degree(f, j)
       PROVE  /\ Kid(f, j, c) \in Ids \ {n} /\ There(g, Kid(f, j, c)) /\ Kid(f, j, c) # r
              /\ h[Kid(f, j, c)] + 1 = h[j]
              /\ par[Kid(f, j, c)] = j /\ pos[Kid(f, j, c)] = c
  <2>1. ChildFits(f, r, h, par, pos, j, c)
    BY <1>12 DEF Leveled
  <2> QED BY <1>2, <1>9, <2>1 DEF ChildFits
<1>13. ASSUME NEW j \in Ids, There(f, j), j # r
       PROVE  /\ h[j] < h[r] /\ par[j] \in Ids \ {n}
              /\ InnerFile(f, par[j]) /\ pos[j] \in 1 .. Degree(f, par[j])
              /\ Kid(f, par[j], pos[j]) = j
              /\ InnerFile(f, j) => Load(f, j) >= MinKeys
  <2>1. Below(f, r, h, par, pos, j)
    BY <1>13 DEF Leveled
  <2>2. par[j] \in Ids
    BY <1>1
  <2> QED BY <1>11, <2>1, <2>2 DEF Below
<1>14. n # r /\ l # r /\ h[l] + 1 = h[p] /\ par[l] = p /\ pos[l] = i
  BY <1>1, <1>2, <1>3, <1>12
<1>15. h2 \in [Ids -> Nat] /\ h2[n] = h[l] /\ \A x \in Ids \ {n} : h2[x] = h[x]
  BY <1>1, <1>2 DEF SplitLevel
<1>16. /\ par2 \in [Ids -> Ids] /\ par2[n] = p
       /\ \A x \in Ids \ {n} : par2[x] = IF par[x] = l /\ pos[x] > k THEN n ELSE par[x]
  BY <1>1, <1>2 DEF SplitPar
<1>17. /\ pos2[n] = i + 1
       /\ \A x \in Ids \ {n} : pos2[x] = IF par[x] = p /\ pos[x] > i THEN pos[x] + 1
                                         ELSE IF par[x] = l /\ pos[x] > k THEN pos[x] - k
                                         ELSE pos[x]
  BY <1>2 DEF SplitPos
<1> HIDE DEF k
<1>18. pos2 \in [Ids -> Nat]
  <2>1. ASSUME NEW x \in Ids PROVE pos2[x] \in Nat
    <3>1. pos[x] \in Nat /\ i \in Nat
      BY <1>1, <1>3
    <3>2. CASE x = n
      BY <1>17, <3>1, <3>2
    <3>3. CASE x # n
      <4>1. pos2[x] \in {pos[x] + 1, pos[x]} \/ (pos[x] > k /\ pos2[x] = pos[x] - k)
        BY <1>17, <3>3
      <4> QED BY <1>5, <3>1, <4>1
    <3> QED BY <3>2, <3>3
  <2>2. pos2 = [x \in Ids |-> pos2[x]]
    BY DEF SplitPos
  <2> HIDE DEF pos2
  <2> QED BY <2>1, <2>2
<1> HIDE DEF h2, par2, pos2
<1>19. ASSUME NEW c \in 1 .. Degree(g, p) PROVE ChildFits(g, r, h2, par2, pos2, p, c)
  <2>1. CASE c <= i
    <3>1. c \in 1 .. Degree(f, p) + 1 /\ c \in 1 .. Degree(f, p) /\ ~(c > i)
      BY <1>3, <2>1
    <3>2. Kid(g, p, c) = Kid(f, p, c)
      BY <1>4, <2>1, <3>1
    <3>3. /\ Kid(f, p, c) \in Ids \ {n} /\ There(g, Kid(f, p, c)) /\ Kid(f, p, c) # r
          /\ h[Kid(f, p, c)] + 1 = h[p]
          /\ par[Kid(f, p, c)] = p /\ pos[Kid(f, p, c)] = c
      BY <1>2, <1>3, <1>12, <3>1
    <3> QED BY <1>2, <1>15, <1>16, <1>17, <3>1, <3>2, <3>3 DEF ChildFits
  <2>2. CASE c = i + 1
    <3>1. Kid(g, p, c) = n
      BY <1>3, <1>4, <2>2
    <3> QED BY <1>2, <1>8, <1>14, <1>15, <1>16, <1>17, <2>2, <3>1 DEF ChildFits
  <2>3. CASE c > i + 1
    <3>1. /\ c \in 1 .. Degree(f, p) + 1 /\ c - 1 \in 1 .. Degree(f, p) /\ c - 1 > i
          /\ (c - 1) + 1 = c /\ ~(c <= i) /\ c # i + 1
      BY <1>3, <2>3
    <3>2. Kid(g, p, c) = Kid(f, p, c - 1)
      BY <1>4, <3>1
    <3>3. /\ Kid(f, p, c - 1) \in Ids \ {n} /\ There(g, Kid(f, p, c - 1)) /\ Kid(f, p, c - 1) # r
          /\ h[Kid(f, p, c - 1)] + 1 = h[p]
          /\ par[Kid(f, p, c - 1)] = p /\ pos[Kid(f, p, c - 1)] = c - 1
      BY <1>2, <1>3, <1>12, <3>1
    <3> QED BY <1>2, <1>15, <1>16, <1>17, <3>1, <3>2, <3>3 DEF ChildFits
  <2> QED BY <1>3, <2>1, <2>2, <2>3
<1>20. ASSUME InnerFile(f, l), NEW c \in 1 .. k
       PROVE  /\ ChildFits(g, r, h2, par2, pos2, l, c)
              /\ ChildFits(g, r, h2, par2, pos2, n, c)
  <2>1. /\ c \in 1 .. Degree(f, l) /\ ~(c > k)
        /\ k + c \in 1 .. Degree(f, l) /\ k + c > k /\ (k + c) - k = c
    BY <1>5, <1>6, <1>20
  <2>2. Kid(g, l, c) = Kid(f, l, c) /\ Kid(g, n, c) = Kid(f, l, k + c)
    BY <1>6, <1>20
  <2>3. /\ Kid(f, l, c) \in Ids \ {n} /\ There(g, Kid(f, l, c)) /\ Kid(f, l, c) # r
        /\ h[Kid(f, l, c)] + 1 = h[l]
        /\ par[Kid(f, l, c)] = l /\ pos[Kid(f, l, c)] = c
    BY <1>2, <1>12, <1>20, <2>1
  <2>4. ChildFits(g, r, h2, par2, pos2, l, c)
    BY <1>2, <1>15, <1>16, <1>17, <2>1, <2>2, <2>3 DEF ChildFits
  <2>5. /\ Kid(f, l, k + c) \in Ids \ {n} /\ There(g, Kid(f, l, k + c)) /\ Kid(f, l, k + c) # r
        /\ h[Kid(f, l, k + c)] + 1 = h[l]
        /\ par[Kid(f, l, k + c)] = l /\ pos[Kid(f, l, k + c)] = k + c
    BY <1>2, <1>12, <1>20, <2>1
  <2>6. ChildFits(g, r, h2, par2, pos2, n, c)
    BY <1>2, <1>15, <1>16, <1>17, <2>1, <2>2, <2>5 DEF ChildFits
  <2> QED BY <2>4, <2>6
<1>21. ASSUME NEW j \in Ids, InnerFile(g, j)
       PROVE  /\ Degree(g, j) \in Nat /\ Degree(g, j) >= 1 /\ Load(g, j) \in Nat
              /\ \A c \in 1 .. Degree(g, j) : ChildFits(g, r, h2, par2, pos2, j, c)
  <2>1. CASE j = p
    BY <1>3, <1>19, <2>1
  <2>2. CASE j \in {l, n}
    BY <1>5, <1>6, <1>8, <1>10, <1>20, <1>21, <2>2
  <2>3. CASE j \notin {p, l, n}
    <3>1. SameNode(f, g, j)
      BY <1>7, <2>3
    <3>2. InnerFile(f, j) /\ Degree(g, j) = Degree(f, j) /\ Load(g, j) = Load(f, j)
      BY <1>21, <3>1 DEF SameNode
    <3>3. ASSUME NEW c \in 1 .. Degree(f, j)
          PROVE  ChildFits(g, r, h2, par2, pos2, j, c)
      <4>1. Kid(g, j, c) = Kid(f, j, c)
        BY <3>1 DEF SameNode
      <4> QED BY <1>12, <1>15, <1>16, <1>17, <2>3, <3>2, <4>1 DEF ChildFits
    <3> QED BY <1>11, <3>2, <3>3
  <2> QED BY <2>1, <2>2, <2>3
<1>22. ASSUME NEW j \in Ids, There(g, j)
       PROVE  /\ h2[j] < n + 1
              /\ LeafFile(g, j) => h2[j] = 0
  <2>1. CASE j = n
    <3>1. h[l] < n /\ h[l] \in Nat /\ (LeafFile(f, l) => h[l] = 0)
      BY <1>1, <1>2 DEF Leveled
    <3> QED BY <1>8, <1>15, <2>1, <3>1
  <2>2. CASE j # n
    <3>1. There(f, j) /\ h2[j] = h[j] /\ h[j] \in Nat /\ h[j] < n
      BY <1>1, <1>9, <1>15, <1>22, <2>2 DEF Leveled
    <3>2. LeafFile(g, j) => LeafFile(f, j)
      BY <1>3, <1>7, <1>8, <2>2, FileIs DEF SameNode
    <3> QED BY <3>1, <3>2 DEF Leveled
  <2> QED BY <2>1, <2>2
<1>23. ASSUME NEW j \in Ids, There(g, j), j # r
       PROVE  Below(g, r, h2, par2, pos2, j)
  <2>1. CASE j = n
    <3>1. h[l] < h[r]
      BY <1>2, <1>13, <1>14
    <3>2. i + 1 \in 1 .. Degree(g, p) /\ Kid(g, p, i + 1) = n
      BY <1>3, <1>4
    <3> QED BY <1>1, <1>3, <1>8, <1>14, <1>15, <1>16, <1>17, <2>1, <3>1, <3>2 DEF Below
  <2>2. CASE j # n
    <3>1. There(f, j) /\ h2[j] < h2[r]
      BY <1>1, <1>9, <1>13, <1>14, <1>15, <1>23, <2>2
    <3>2. /\ par[j] \in Ids \ {n} /\ InnerFile(f, par[j])
          /\ pos[j] \in 1 .. Degree(f, par[j]) /\ Kid(f, par[j], pos[j]) = j
      BY <1>13, <1>23, <3>1
    <3>3. InnerFile(g, j) => Load(g, j) >= MinKeys
      <4>1. CASE j = p
        BY <1>3, <1>5, <1>13, <1>23, <3>1, <4>1
      <4>2. CASE j = l
        BY <1>8, <4>2
      <4>3. CASE j \notin {p, l}
        <5>1. SameNode(f, g, j)
          BY <1>7, <2>2, <4>3
        <5> QED BY <1>13, <1>23, <3>1, <5>1 DEF SameNode
      <4> QED BY <4>1, <4>2, <4>3
    <3>4. /\ InnerFile(g, par2[j]) /\ pos2[j] \in 1 .. Degree(g, par2[j])
          /\ Kid(g, par2[j], pos2[j]) = j
      <4>1. CASE par[j] = l /\ pos[j] > k
        <5>1. par2[j] = n /\ pos2[j] = pos[j] - k
          BY <1>2, <1>16, <1>17, <2>2, <4>1
        <5>2. pos[j] - k \in 1 .. k /\ k + (pos[j] - k) = pos[j]
          BY <1>5, <1>6, <3>2, <4>1
        <5> QED BY <1>6, <1>10, <3>2, <4>1, <5>1, <5>2
      <4>2. CASE par[j] = l /\ ~(pos[j] > k)
        <5>1. par2[j] = l /\ pos2[j] = pos[j]
          BY <1>2, <1>16, <1>17, <2>2, <4>2
        <5>2. pos[j] \in 1 .. k
          BY <1>5, <1>6, <3>2, <4>2
        <5> QED BY <1>6, <1>10, <3>2, <4>2, <5>1, <5>2
      <4>3. CASE par[j] = p /\ pos[j] > i
        <5>1. par2[j] = p /\ pos2[j] = pos[j] + 1
          BY <1>2, <1>16, <1>17, <2>2, <4>3
        <5>2. /\ pos[j] + 1 \in 1 .. Degree(f, p) + 1
              /\ ~(pos[j] + 1 <= i) /\ pos[j] + 1 # i + 1 /\ (pos[j] + 1) - 1 = pos[j]
          BY <1>3, <3>2, <4>3
        <5>3. Kid(g, p, pos[j] + 1) = Kid(f, p, pos[j])
          BY <1>4, <5>2
        <5> QED BY <1>3, <3>2, <4>3, <5>1, <5>2, <5>3
      <4>4. CASE par[j] = p /\ ~(pos[j] > i)
        <5>1. par2[j] = p /\ pos2[j] = pos[j]
          BY <1>2, <1>16, <1>17, <2>2, <4>4
        <5>2. pos[j] \in 1 .. Degree(f, p) + 1 /\ pos[j] <= i
          BY <1>3, <3>2, <4>4
        <5>3. Kid(g, p, pos[j]) = Kid(f, p, pos[j])
          BY <1>4, <5>2
        <5> QED BY <1>3, <3>2, <4>4, <5>1, <5>2, <5>3
      <4>5. CASE par[j] \notin {p, l}
        <5>1. par2[j] = par[j] /\ pos2[j] = pos[j]
          BY <1>16, <1>17, <2>2, <4>5
        <5>2. SameNode(f, g, par[j])
          BY <1>7, <3>2, <4>5
        <5> QED BY <3>2, <5>1, <5>2 DEF SameNode
      <4> QED BY <4>1, <4>2, <4>3, <4>4, <4>5
    <3> QED BY <3>1, <3>3, <3>4 DEF Below
  <2> QED BY <2>1, <2>2
<1>24. There(g, r)
  BY <1>1, <1>9, <1>14
<1>25. \A j \in Ids : LeafFile(g, j) => h2[j] = 0
  BY <1>22, FileIs
<1>26. Leveled(g, r, n + 1, h2, par2, pos2)
  BY <1>1, <1>15, <1>16, <1>18, <1>21, <1>22, <1>23, <1>24, <1>25 DEF Leveled
<1> QED BY <1>26 DEF h2, par2, pos2

(* g is f with node n above the root r. *)
GrowOf(f, g, n, r) ==
  /\ n \in Ids /\ ~There(f, n) /\ \A j \in Ids \ {n} : SameNode(f, g, j)
  /\ InnerFile(g, n) /\ Degree(g, n) = 1 /\ Kid(g, n, 1) = r /\ Load(g, n) = 0

(* A new root has one child, the old root, one level below.                *)
LEMMA LeveledGrows ==
  ASSUME NEW f, NEW g, NEW r, NEW n, NEW h, NEW par, NEW pos, Leveled(f, r, n, h, par, pos),
         GrowOf(f, g, n, r), n \in Nat, Load(f, r) >= MinKeys
  PROVE  Leveled(g, n, n + 1, [h EXCEPT ![n] = h[r] + 1], [par EXCEPT ![r] = n],
                 [pos EXCEPT ![r] = 1])
<1> DEFINE h2 == [h EXCEPT ![n] = h[r] + 1]
           par2 == [par EXCEPT ![r] = n]
           pos2 == [pos EXCEPT ![r] = 1]
<1>1. /\ h \in [Ids -> Nat] /\ par \in [Ids -> Ids] /\ pos \in [Ids -> Nat]
      /\ r \in Ids /\ There(f, r) /\ n \in Ids /\ ~There(f, n) /\ r # n
      /\ \A j \in Ids \ {n} : SameNode(f, g, j)
      /\ InnerFile(g, n) /\ Degree(g, n) = 1 /\ Kid(g, n, 1) = r /\ Load(g, n) = 0
  BY DEF Leveled, GrowOf
<1>2. /\ h2 \in [Ids -> Nat] /\ h2[n] = h[r] + 1 /\ \A x \in Ids \ {n} : h2[x] = h[x]
      /\ par2 \in [Ids -> Ids] /\ par2[r] = n /\ \A x \in Ids \ {r} : par2[x] = par[x]
      /\ pos2 \in [Ids -> Nat] /\ pos2[r] = 1 /\ \A x \in Ids \ {r} : pos2[x] = pos[x]
  BY <1>1
<1> HIDE DEF h2, par2, pos2
<1>3. There(g, n) /\ ~LeafFile(g, n)
  BY <1>1, FileIs
<1>4. \A j \in Ids \ {n} : There(g, j) <=> There(f, j)
  BY <1>1, FileIs DEF SameNode
<1>5. ASSUME NEW j \in Ids, There(g, j)
      PROVE  /\ h2[j] < n + 1
             /\ j # n => Below(g, n, h2, par2, pos2, j)
             /\ LeafFile(g, j) => h2[j] = 0
  <2>1. h[r] < n /\ h[r] \in Nat
    BY <1>1 DEF Leveled
  <2>2. CASE j = n
    BY <1>1, <1>2, <1>3, <2>1, <2>2
  <2>3. CASE j # n
    <3>1. SameNode(f, g, j) /\ There(f, j) /\ h2[j] = h[j] /\ h[j] \in Nat /\ h[j] < n
      BY <1>1, <1>2, <1>4, <1>5, <2>3 DEF Leveled
    <3>2. LeafFile(g, j) => h2[j] = 0
      BY <3>1 DEF Leveled, SameNode
    <3>3. CASE j = r
      BY <1>1, <1>2, <2>1, <3>1, <3>2, <3>3 DEF Below, SameNode
    <3>4. CASE j # r
      <4>1. Below(f, r, h, par, pos, j)
        BY <3>1, <3>4 DEF Leveled
      <4>2. /\ h[j] < h[r] /\ par[j] \in Ids /\ par[j] # n /\ InnerFile(f, par[j])
            /\ pos[j] \in 1 .. Degree(f, par[j]) /\ Kid(f, par[j], pos[j]) = j
            /\ InnerFile(f, j) => Load(f, j) >= MinKeys
        BY <1>1, <4>1, FileIs DEF Below
      <4>3. SameNode(f, g, par[j])
        BY <1>1, <4>2
      <4>4. par2[j] = par[j] /\ pos2[j] = pos[j] /\ h2[j] < h2[n]
        BY <1>1, <1>2, <2>1, <3>1, <3>4, <4>2
      <4>5. Below(g, n, h2, par2, pos2, j)
        BY <3>1, <4>2, <4>3, <4>4 DEF Below, SameNode
      <4> QED BY <2>3, <3>1, <3>2, <4>5
    <3> QED BY <3>3, <3>4
  <2> QED BY <2>2, <2>3
<1>6. ASSUME NEW j \in Ids, InnerFile(g, j)
      PROVE  /\ Degree(g, j) \in Nat /\ Degree(g, j) >= 1 /\ Load(g, j) \in Nat
             /\ \A c \in 1 .. Degree(g, j) : ChildFits(g, n, h2, par2, pos2, j, c)
  <2>1. CASE j = n
    <3>1. There(g, r) /\ h2[r] + 1 = h2[n]
      BY <1>1, <1>2, <1>4
    <3>2. \A c \in 1 .. Degree(g, n) : c = 1
      BY <1>1
    <3>3. ChildFits(g, n, h2, par2, pos2, n, 1)
      BY <1>1, <1>2, <3>1 DEF ChildFits
    <3> QED BY <1>1, <2>1, <3>2, <3>3
  <2>2. CASE j # n
    <3>1. SameNode(f, g, j)
      BY <1>1, <2>2
    <3>2. InnerFile(f, j) /\ Degree(g, j) = Degree(f, j) /\ Load(g, j) = Load(f, j)
      BY <1>6, <3>1 DEF SameNode
    <3>3. Degree(f, j) \in Nat /\ Degree(f, j) >= 1 /\ Load(f, j) \in Nat
      BY <3>2 DEF Leveled
    <3>4. ASSUME NEW c \in 1 .. Degree(f, j)
          PROVE  ChildFits(g, n, h2, par2, pos2, j, c)
      <4>1. Kid(g, j, c) = Kid(f, j, c)
        BY <3>1 DEF SameNode
      <4>2. ChildFits(f, r, h, par, pos, j, c)
        BY <3>2 DEF Leveled
      <4>3. /\ Kid(f, j, c) \in Ids \ {n, r} /\ There(g, Kid(f, j, c))
            /\ h[Kid(f, j, c)] + 1 = h[j] /\ par[Kid(f, j, c)] = j /\ pos[Kid(f, j, c)] = c
        BY <1>1, <1>4, <4>2 DEF ChildFits
      <4> QED BY <1>2, <2>2, <4>1, <4>3 DEF ChildFits
    <3> QED BY <3>2, <3>3, <3>4
  <2> QED BY <2>1, <2>2
<1>7. \A j \in Ids : LeafFile(g, j) => h2[j] = 0
  BY <1>5, FileIs
<1>8. Leveled(g, n, n + 1, h2, par2, pos2)
  BY <1>1, <1>2, <1>3, <1>5, <1>6, <1>7 DEF Leveled
<1> QED BY <1>8 DEF h2, par2, pos2

(* The nodes of g are those of f; only what the leaves hold may differ. *)
SameTree(f, g) ==
  \A j \in Ids : /\ LeafFile(g, j) <=> LeafFile(f, j)
                 /\ InnerFile(g, j) <=> InnerFile(f, j)
                 /\ LeafFile(f, j) => Link(g, j) = Link(f, j)
                 /\ InnerFile(f, j) => SameNode(f, g, j)

(* Levels do not depend on what the leaves hold.                           *)
LEMMA LeveledSame ==
  ASSUME NEW f, NEW g, NEW r, NEW n, NEW h, NEW par, NEW pos, Leveled(f, r, n, h, par, pos),
         SameTree(f, g)
  PROVE  Leveled(g, r, n, h, par, pos)
<1>1. /\ h \in [Ids -> Nat] /\ par \in [Ids -> Ids] /\ pos \in [Ids -> Nat]
      /\ r \in Ids /\ There(f, r)
  BY DEF Leveled
<1>2. \A j \in Ids : There(g, j) <=> There(f, j)
  BY FileIs DEF SameTree
<1>3. ASSUME NEW j \in Ids, There(g, j), j # r PROVE Below(g, r, h, par, pos, j)
  <2>1. Below(f, r, h, par, pos, j) /\ par[j] \in Ids
    BY <1>1, <1>2, <1>3 DEF Leveled
  <2>2. InnerFile(f, par[j])
    BY <2>1 DEF Below
  <2>3. SameNode(f, g, par[j]) /\ (InnerFile(g, j) => InnerFile(f, j) /\ SameNode(f, g, j))
    BY <2>1, <2>2 DEF SameTree
  <2> QED BY <2>1, <2>3 DEF Below, SameNode
<1>4. ASSUME NEW j \in Ids, InnerFile(g, j)
      PROVE  /\ Degree(g, j) \in Nat /\ Degree(g, j) >= 1 /\ Load(g, j) \in Nat
             /\ \A c \in 1 .. Degree(g, j) : ChildFits(g, r, h, par, pos, j, c)
  <2>1. InnerFile(f, j) /\ SameNode(f, g, j)
    BY <1>4 DEF SameTree
  <2>2. /\ Degree(f, j) \in Nat /\ Degree(f, j) >= 1 /\ Load(f, j) \in Nat
        /\ \A c \in 1 .. Degree(f, j) : ChildFits(f, r, h, par, pos, j, c)
    BY <2>1 DEF Leveled
  <2>3. ASSUME NEW c \in 1 .. Degree(f, j) PROVE ChildFits(g, r, h, par, pos, j, c)
    <3>1. ChildFits(f, r, h, par, pos, j, c) /\ Kid(g, j, c) = Kid(f, j, c)
      BY <2>1, <2>2 DEF SameNode
    <3> QED BY <1>2, <3>1 DEF ChildFits
  <2>4. Degree(g, j) = Degree(f, j) /\ Load(g, j) = Load(f, j)
    BY <2>1 DEF SameNode
  <2> QED BY <2>2, <2>3, <2>4
<1>5. \A j \in Ids : LeafFile(g, j) => h[j] = 0
  BY DEF Leveled, SameTree
<1>6. \A j \in Ids : There(g, j) => h[j] < n
  BY <1>2 DEF Leveled
<1> QED BY <1>1, <1>2, <1>3, <1>4, <1>5, <1>6 DEF Leveled

(* The nodes of a fresh directory. *)
FreshOf(f) == 0 \in Ids /\ LeafFile(f, 0) /\ Link(f, 0) = 0 /\ \A j \in Ids \ {0} : ~There(f, j)

(* The fresh tree has one node, on level 0.                                *)
LEMMA LeveledFresh ==
  ASSUME NEW f, FreshOf(f)
  PROVE  Leveled(f, 0, 1, [i \in Ids |-> 0], [i \in Ids |-> 0], [i \in Ids |-> 0])
<1> DEFINE z == [i \in Ids |-> 0]
<1>1. z \in [Ids -> Nat] /\ z \in [Ids -> Ids] /\ \A i \in Ids : z[i] = 0
  BY DEF FreshOf
<1> HIDE DEF z
<1>2. There(f, 0) /\ \A j \in Ids : ~InnerFile(f, j) /\ (There(f, j) => j = 0)
  BY FileIs DEF FreshOf
<1>3. Leveled(f, 0, 1, z, z, z)
  BY <1>1, <1>2 DEF Leveled, FreshOf
<1> QED BY <1>3 DEF z

----------------------------------------------------------------------------
(***************************************************************************)
(* The chain of the leaves: lm[i] and rm[i] are the first and the last     *)
(* leaf below node i, and the last leaf below a child is linked to the     *)
(* first leaf below the next one.                                          *)
(***************************************************************************)
Joined(f, lm, rm, i) ==
  /\ lm[i] = lm[Kid(f, i, 1)]
  /\ rm[i] = rm[Kid(f, i, Degree(f, i))]
  /\ \A c \in 1 .. Degree(f, i) - 1 : Link(f, rm[Kid(f, i, c)]) = lm[Kid(f, i, c + 1)]

Chained(f, r, lm, rm) ==
  /\ lm \in [Ids -> Ids] /\ rm \in [Ids -> Ids]
  /\ \A i \in Ids : There(f, i) => LeafFile(f, lm[i]) /\ LeafFile(f, rm[i])
  /\ \A i \in Ids : LeafFile(f, i) => lm[i] = i /\ rm[i] = i
  /\ \A i \in Ids : InnerFile(f, i) => Joined(f, lm, rm, i)
  /\ Link(f, rm[r]) = 0

(* Where the nodes that a split touches hang. *)
HangOnce(f, r, n, p, l, i) ==
  /\ l # r /\ n # r /\ r \in Ids /\ There(f, r)
  /\ \A j \in Ids : InnerFile(f, j) =>
       /\ j # n /\ Degree(f, j) \in Nat /\ Degree(f, j) >= 1
       /\ \A c \in 1 .. Degree(f, j) :
            /\ Kid(f, j, c) \in Ids \ {n} /\ There(f, Kid(f, j, c))
            /\ Kid(f, j, c) = l => j = p /\ c = i

(* No other child is the split node, and none is the new one.              *)
LEMMA KidsOnce ==
  ASSUME NEW f, NEW g, NEW r, NEW m, NEW h, NEW par, NEW pos, Leveled(f, r, m, h, par, pos),
         NEW n, NEW p, NEW l, NEW i, SplitOf(f, g, n, p, l, i)
  PROVE  HangOnce(f, r, n, p, l, i)
<1>1. /\ p \in Ids /\ n \in Ids /\ ~There(f, n) /\ InnerFile(f, p)
      /\ i \in 1 .. Degree(f, p) /\ Kid(f, p, i) = l
  BY DEF SplitOf
<1>2. r \in Ids /\ There(f, r) /\ n # r
  BY <1>1 DEF Leveled
<1>3. l # r /\ par[l] = p /\ pos[l] = i
  <2>1. ChildFits(f, r, h, par, pos, p, i)
    BY <1>1 DEF Leveled
  <2> QED BY <1>1, <2>1 DEF ChildFits
<1>4. ASSUME NEW j \in Ids, InnerFile(f, j)
      PROVE  j # n /\ Degree(f, j) \in Nat /\ Degree(f, j) >= 1
  BY <1>1, <1>4, FileIs DEF Leveled
<1>5. ASSUME NEW j \in Ids, InnerFile(f, j), NEW c \in 1 .. Degree(f, j)
      PROVE  /\ Kid(f, j, c) \in Ids \ {n} /\ There(f, Kid(f, j, c))
             /\ Kid(f, j, c) = l => j = p /\ c = i
  <2>1. ChildFits(f, r, h, par, pos, j, c)
    BY <1>5 DEF Leveled
  <2> QED BY <1>1, <1>3, <2>1 DEF ChildFits
<1> QED BY <1>2, <1>3, <1>4, <1>5 DEF HangOnce

(* What the parent joins after the split, from what it joined before. *)
LEMMA ParentJoins ==
  ASSUME NEW f, NEW g, NEW n, NEW p, NEW l, NEW i, SplitOf(f, g, n, p, l, i),
         NEW lm, NEW rm, NEW lm2, NEW rm2, Joined(f, lm, rm, p), Degree(f, p) >= 1,
         lm2[p] = lm[p],
         \A c \in 1 .. Degree(f, p) : lm2[Kid(f, p, c)] = lm[Kid(f, p, c)],
         \A c \in 1 .. Degree(f, p) : c # i =>
           Link(g, rm2[Kid(f, p, c)]) = Link(f, rm[Kid(f, p, c)]),
         Link(g, rm2[l]) = lm2[n], Link(g, rm2[n]) = Link(f, rm[l]),
         rm2[p] = rm2[IF i = Degree(f, p) THEN n ELSE Kid(f, p, Degree(f, p))]
  PROVE  Joined(g, lm2, rm2, p)
<1> DEFINE d == Degree(f, p)
<1>1. /\ i \in 1 .. d /\ d \in Nat /\ Degree(g, p) = d + 1 /\ Kid(f, p, i) = l
      /\ \A c \in 1 .. d + 1 :
           Kid(g, p, c) = IF c <= i THEN Kid(f, p, c) ELSE IF c = i + 1 THEN n ELSE Kid(f, p, c - 1)
  BY DEF SplitOf
<1>2. /\ lm[p] = lm[Kid(f, p, 1)] /\ rm[p] = rm[Kid(f, p, d)]
      /\ \A c \in 1 .. d - 1 : Link(f, rm[Kid(f, p, c)]) = lm[Kid(f, p, c + 1)]
  BY DEF Joined
<1> HIDE DEF d
<1>3. ASSUME NEW c \in 1 .. d
      PROVE  /\ lm2[Kid(f, p, c)] = lm[Kid(f, p, c)]
             /\ c # i => Link(g, rm2[Kid(f, p, c)]) = Link(f, rm[Kid(f, p, c)])
  BY DEF d
<1>4. lm2[p] = lm2[Kid(g, p, 1)]
  <2>1. 1 \in 1 .. d /\ 1 \in 1 .. d + 1 /\ 1 <= i
    BY <1>1
  <2> QED BY <1>1, <1>2, <1>3, <2>1
<1>5. rm2[p] = rm2[Kid(g, p, d + 1)]
  <2>1. CASE i = d
    <3>1. d + 1 \in 1 .. d + 1 /\ ~(d + 1 <= i) /\ d + 1 = i + 1
      BY <1>1, <2>1
    <3> QED BY <1>1, <2>1, <3>1 DEF d
  <2>2. CASE i # d
    <3>1. d + 1 \in 1 .. d + 1 /\ ~(d + 1 <= i) /\ d + 1 # i + 1 /\ (d + 1) - 1 = d
      BY <1>1, <2>2
    <3> QED BY <1>1, <2>2, <3>1 DEF d
  <2> QED BY <2>1, <2>2
<1>6. ASSUME NEW c \in 1 .. d PROVE Link(g, rm2[Kid(g, p, c)]) = lm2[Kid(g, p, c + 1)]
  <2>1. c \in 1 .. d + 1 /\ c + 1 \in 1 .. d + 1
    BY <1>1
  <2>2. CASE c < i
    <3>1. c <= i /\ c + 1 <= i /\ c # i /\ c + 1 \in 1 .. d /\ c \in 1 .. d - 1
      BY <1>1, <2>2
    <3>2. Kid(g, p, c) = Kid(f, p, c) /\ Kid(g, p, c + 1) = Kid(f, p, c + 1)
      BY <1>1, <2>1, <3>1
    <3> QED BY <1>2, <1>3, <3>1, <3>2
  <2>3. CASE c = i
    <3>1. c <= i /\ ~(c + 1 <= i) /\ c + 1 = i + 1
      BY <1>1, <2>3
    <3>2. Kid(g, p, c) = l /\ Kid(g, p, c + 1) = n
      BY <1>1, <2>1, <2>3, <3>1
    <3> QED BY <3>2
  <2>4. CASE c = i + 1
    <3>1. /\ ~(c <= i) /\ ~(c + 1 <= i) /\ c + 1 # i + 1 /\ (c + 1) - 1 = c
          /\ i \in 1 .. d - 1
      BY <1>1, <2>4
    <3>2. Kid(g, p, c) = n /\ Kid(g, p, c + 1) = Kid(f, p, c)
      BY <1>1, <2>1, <2>4, <3>1
    <3>3. Link(f, rm[l]) = lm[Kid(f, p, i + 1)]
      BY <1>1, <1>2, <3>1
    <3> QED BY <1>3, <2>4, <3>2, <3>3
  <2>5. CASE c > i + 1
    <3>1. /\ ~(c <= i) /\ ~(c + 1 <= i) /\ c # i + 1 /\ c + 1 # i + 1 /\ (c + 1) - 1 = c
          /\ c - 1 \in 1 .. d - 1 /\ c - 1 # i /\ c - 1 \in 1 .. d /\ (c - 1) + 1 = c
      BY <1>1, <2>5
    <3>2. Kid(g, p, c) = Kid(f, p, c - 1) /\ Kid(g, p, c + 1) = Kid(f, p, c)
      BY <1>1, <2>1, <3>1
    <3>3. Link(f, rm[Kid(f, p, c - 1)]) = lm[Kid(f, p, c)]
      BY <1>2, <3>1
    <3> QED BY <1>3, <3>1, <3>2, <3>3
  <2> QED BY <1>1, <2>2, <2>3, <2>4, <2>5
<1>7. (d + 1) - 1 = d
  BY <1>1
<1> QED BY <1>1, <1>4, <1>5, <1>6, <1>7 DEF Joined

(* A split leaf links to its right half, which takes over its link. *)
LEMMA LeafChainSplits ==
  ASSUME NEW f, NEW g, NEW r, NEW m, NEW h, NEW par, NEW pos, Leveled(f, r, m, h, par, pos),
         NEW n, NEW p, NEW l, NEW i, SplitOf(f, g, n, p, l, i),
         NEW lm, NEW rm, Chained(f, r, lm, rm), LeafFile(f, l)
  PROVE  \E lm2, rm2 : Chained(g, r, lm2, rm2)
<1> DEFINE lm2 == [lm EXCEPT ![n] = n]
           rm2 == [x \in Ids |-> IF x = l THEN l ELSE IF x = n \/ rm[x] = l THEN n ELSE rm[x]]
<1>1. /\ p \in Ids /\ l \in Ids /\ n \in Ids /\ p # l /\ n # p /\ n # l
      /\ ~There(f, n) /\ InnerFile(f, p) /\ ~LeafFile(f, p) /\ InnerFile(g, p) /\ ~LeafFile(g, p)
      /\ i \in 1 .. Degree(f, p) /\ Kid(f, p, i) = l /\ Degree(f, p) \in Nat
      /\ LeafFile(g, l) /\ LeafFile(g, n) /\ ~InnerFile(g, l) /\ ~InnerFile(g, n)
      /\ Link(g, l) = n /\ Link(g, n) = Link(f, l)
  BY FileIs DEF SplitOf
<1>2. \A j \in Ids \ {p, l, n} : SameNode(f, g, j)
  BY DEF SplitOf
<1>3. /\ l # r /\ n # r /\ r \in Ids /\ There(f, r)
      /\ \A j \in Ids : InnerFile(f, j) =>
           /\ j # n /\ Degree(f, j) \in Nat /\ Degree(f, j) >= 1
           /\ \A c \in 1 .. Degree(f, j) :
                /\ Kid(f, j, c) \in Ids \ {n} /\ There(f, Kid(f, j, c))
                /\ Kid(f, j, c) = l => j = p /\ c = i
  <2>1. HangOnce(f, r, n, p, l, i)
    BY KidsOnce
  <2> QED BY <2>1 DEF HangOnce
<1>4. lm \in [Ids -> Ids] /\ rm \in [Ids -> Ids] /\ Link(f, rm[r]) = 0 /\ rm[l] = l
  BY <1>1 DEF Chained
<1>5. lm2 \in [Ids -> Ids] /\ lm2[n] = n /\ \A x \in Ids \ {n} : lm2[x] = lm[x]
  BY <1>1, <1>4
<1>6. /\ rm2 \in [Ids -> Ids] /\ rm2[l] = l /\ rm2[n] = n
      /\ \A x \in Ids \ {l, n} : rm2[x] = IF rm[x] = l THEN n ELSE rm[x]
  BY <1>1, <1>4
<1> HIDE DEF lm2, rm2
<1>7. ASSUME NEW x \in Ids, LeafFile(f, x), x # l
      PROVE  LeafFile(g, x) /\ Link(g, x) = Link(f, x)
  <2>1. SameNode(f, g, x)
    BY <1>1, <1>2, <1>7, FileIs
  <2> QED BY <1>7, <2>1 DEF SameNode
<1>8. ASSUME NEW x \in Ids, There(f, x)
      PROVE  /\ x # n /\ LeafFile(g, lm2[x]) /\ LeafFile(g, rm2[x])
             /\ x # l => Link(g, rm2[x]) = Link(f, rm[x])
  <2>1. x # n /\ LeafFile(f, lm[x]) /\ LeafFile(f, rm[x]) /\ lm[x] \in Ids /\ rm[x] \in Ids
    BY <1>1, <1>4, <1>8 DEF Chained
  <2>2. LeafFile(g, lm2[x])
    BY <1>1, <1>5, <1>7, <2>1
  <2>3. LeafFile(g, rm2[x])
    BY <1>1, <1>6, <1>7, <2>1
  <2>4. x # l => Link(g, rm2[x]) = Link(f, rm[x])
    BY <1>1, <1>6, <1>7, <2>1
  <2> QED BY <2>1, <2>2, <2>3, <2>4
<1>9. ASSUME NEW x \in Ids, There(g, x) PROVE LeafFile(g, lm2[x]) /\ LeafFile(g, rm2[x])
  <2>1. CASE x = n
    BY <1>1, <1>5, <1>6, <2>1
  <2>2. CASE x # n
    <3>1. There(f, x)
      BY <1>1, <1>2, <1>9, <2>2, FileIs DEF SameNode
    <3> QED BY <1>8, <3>1
  <2> QED BY <2>1, <2>2
<1>10. ASSUME NEW x \in Ids, LeafFile(g, x) PROVE lm2[x] = x /\ rm2[x] = x
  <2>1. CASE x \in {n, l}
    BY <1>1, <1>4, <1>5, <1>6, <2>1 DEF Chained
  <2>2. CASE x \notin {n, l}
    <3>1. LeafFile(f, x)
      BY <1>1, <1>2, <1>10, <2>2 DEF SameNode
    <3>2. lm[x] = x /\ rm[x] = x
      BY <3>1 DEF Chained
    <3> QED BY <1>5, <1>6, <2>2, <3>2
  <2> QED BY <2>1, <2>2
<1>11. Joined(g, lm2, rm2, p)
  <2>1. Joined(f, lm, rm, p) /\ Degree(f, p) >= 1
    BY <1>1, <1>3 DEF Chained
  <2>2. lm2[p] = lm[p] /\ \A c \in 1 .. Degree(f, p) : lm2[Kid(f, p, c)] = lm[Kid(f, p, c)]
    BY <1>1, <1>3, <1>5
  <2>3. ASSUME NEW c \in 1 .. Degree(f, p), c # i
        PROVE  Link(g, rm2[Kid(f, p, c)]) = Link(f, rm[Kid(f, p, c)])
    <3>1. Kid(f, p, c) \in Ids /\ There(f, Kid(f, p, c)) /\ Kid(f, p, c) # l
      BY <1>1, <1>3, <2>3
    <3> QED BY <1>8, <3>1
  <2>4. Link(g, rm2[l]) = lm2[n] /\ Link(g, rm2[n]) = Link(f, rm[l])
    BY <1>1, <1>4, <1>5, <1>6
  <2>5. rm2[p] = rm2[IF i = Degree(f, p) THEN n ELSE Kid(f, p, Degree(f, p))]
    <3>1. rm[p] = rm[Kid(f, p, Degree(f, p))] /\ Degree(f, p) \in 1 .. Degree(f, p)
      BY <1>1, <2>1 DEF Joined
    <3>2. CASE i = Degree(f, p)
      BY <1>1, <1>4, <1>6, <3>1, <3>2
    <3>3. CASE i # Degree(f, p)
      <4>1. Kid(f, p, Degree(f, p)) \in Ids \ {l, n}
        BY <1>1, <1>3, <3>1, <3>3
      <4> QED BY <1>1, <1>6, <3>1, <3>3, <4>1
    <3> QED BY <3>2, <3>3
  <2> QED BY <2>1, <2>2, <2>3, <2>4, <2>5, ParentJoins
<1>12. ASSUME NEW j \in Ids, InnerFile(g, j) PROVE Joined(g, lm2, rm2, j)
  <2>1. CASE j # p
    <3>1. SameNode(f, g, j) /\ InnerFile(f, j) /\ j \notin {l, n}
      BY <1>1, <1>2, <1>12, <2>1 DEF SameNode
    <3>2. /\ Joined(f, lm, rm, j) /\ Degree(f, j) \in Nat /\ Degree(f, j) >= 1
          /\ 1 \in 1 .. Degree(f, j) /\ Degree(f, j) \in 1 .. Degree(f, j)
      BY <1>3, <3>1 DEF Chained
    <3>3. Degree(g, j) = Degree(f, j) /\ \A c : Kid(g, j, c) = Kid(f, j, c)
      BY <3>1 DEF SameNode
    <3>4. ASSUME NEW c \in 1 .. Degree(f, j)
          PROVE  /\ Kid(f, j, c) \in Ids \ {n, l}
                 /\ lm2[Kid(f, j, c)] = lm[Kid(f, j, c)]
                 /\ Link(g, rm2[Kid(f, j, c)]) = Link(f, rm[Kid(f, j, c)])
      <4>1. Kid(f, j, c) \in Ids \ {n, l} /\ There(f, Kid(f, j, c))
        BY <1>3, <2>1, <3>1
      <4> QED BY <1>5, <1>8, <4>1
    <3>5. lm2[j] = lm2[Kid(f, j, 1)]
      BY <1>5, <3>1, <3>2, <3>4 DEF Joined
    <3>6. rm2[j] = rm2[Kid(f, j, Degree(f, j))]
      BY <1>6, <3>1, <3>2, <3>4 DEF Joined
    <3>7. ASSUME NEW c \in 1 .. Degree(f, j) - 1
          PROVE  Link(g, rm2[Kid(f, j, c)]) = lm2[Kid(f, j, c + 1)]
      <4>1. c \in 1 .. Degree(f, j) /\ c + 1 \in 1 .. Degree(f, j)
        BY <3>2
      <4> QED BY <3>2, <3>4, <4>1 DEF Joined
    <3> QED BY <3>3, <3>5, <3>6, <3>7 DEF Joined
  <2> QED BY <1>11, <2>1
<1>13. Link(g, rm2[r]) = 0
  BY <1>3, <1>4, <1>8
<1>14. Chained(g, r, lm2, rm2)
  BY <1>5, <1>6, <1>9, <1>10, <1>12, <1>13 DEF Chained
<1> QED BY <1>14

(* A split inner node hands its children on in their order. *)
LEMMA InnerChainSplits ==
  ASSUME NEW f, NEW g, NEW r, NEW m, NEW h, NEW par, NEW pos, Leveled(f, r, m, h, par, pos),
         NEW n, NEW p, NEW l, NEW i, SplitOf(f, g, n, p, l, i),
         NEW lm, NEW rm, Chained(f, r, lm, rm), InnerFile(f, l)
  PROVE  \E lm2, rm2 : Chained(g, r, lm2, rm2)
<1> DEFINE k == MinKeys + 1
           lm2 == [lm EXCEPT ![n] = lm[Kid(f, l, k + 1)]]
           rm2 == [[rm EXCEPT ![n] = rm[l]] EXCEPT ![l] = rm[Kid(f, l, k)]]
<1>1. /\ p \in Ids /\ l \in Ids /\ n \in Ids /\ p # l /\ n # p /\ n # l
      /\ ~There(f, n) /\ InnerFile(f, p) /\ ~LeafFile(f, p) /\ InnerFile(g, p) /\ ~LeafFile(g, p)
      /\ i \in 1 .. Degree(f, p) /\ Kid(f, p, i) = l /\ Degree(f, p) \in Nat
      /\ InnerFile(g, l) /\ InnerFile(g, n) /\ ~LeafFile(g, l) /\ ~LeafFile(g, n)
      /\ ~LeafFile(f, l) /\ There(f, l)
  BY FileIs DEF SplitOf
<1>2. /\ k \in Nat /\ k >= 1 /\ 2 * MinKeys + 2 = k + k
  BY NodeSizes
<1>3. /\ Degree(f, l) = k + k /\ Degree(g, l) = k /\ Degree(g, n) = k
      /\ \A c \in 1 .. k : Kid(g, l, c) = Kid(f, l, c) /\ Kid(g, n, c) = Kid(f, l, k + c)
  BY <1>2 DEF SplitOf
<1>4. \A j \in Ids \ {p, l, n} : SameNode(f, g, j)
  BY DEF SplitOf
<1>5. /\ l # r /\ n # r /\ r \in Ids /\ There(f, r)
      /\ \A j \in Ids : InnerFile(f, j) =>
           /\ j # n /\ Degree(f, j) \in Nat /\ Degree(f, j) >= 1
           /\ \A c \in 1 .. Degree(f, j) :
                /\ Kid(f, j, c) \in Ids \ {n} /\ There(f, Kid(f, j, c))
                /\ Kid(f, j, c) = l => j = p /\ c = i
  <2>1. HangOnce(f, r, n, p, l, i)
    BY KidsOnce
  <2> QED BY <2>1 DEF HangOnce
<1>6. lm \in [Ids -> Ids] /\ rm \in [Ids -> Ids] /\ Link(f, rm[r]) = 0
  BY DEF Chained
<1> HIDE DEF k
<1>7. ASSUME NEW c \in 1 .. k + k
      PROVE  Kid(f, l, c) \in Ids \ {n, l} /\ There(f, Kid(f, l, c))
  BY <1>1, <1>3, <1>5
<1>8. /\ 1 \in 1 .. k + k /\ k \in 1 .. k + k /\ k + 1 \in 1 .. k + k /\ k + k \in 1 .. k + k
      /\ k \in 1 .. (k + k) - 1 /\ 1 \in 1 .. k /\ k \in 1 .. k
  BY <1>2
<1>9. /\ lm2 \in [Ids -> Ids] /\ lm2[n] = lm[Kid(f, l, k + 1)]
      /\ \A x \in Ids \ {n} : lm2[x] = lm[x]
  BY <1>1, <1>6, <1>7, <1>8
<1>10. /\ rm2 \in [Ids -> Ids] /\ rm2[n] = rm[l] /\ rm2[l] = rm[Kid(f, l, k)]
       /\ \A x \in Ids \ {n, l} : rm2[x] = rm[x]
  BY <1>1, <1>6, <1>7, <1>8
<1> HIDE DEF lm2, rm2
<1>11. /\ lm[l] = lm[Kid(f, l, 1)] /\ rm[l] = rm[Kid(f, l, k + k)]
       /\ \A c \in 1 .. (k + k) - 1 : Link(f, rm[Kid(f, l, c)]) = lm[Kid(f, l, c + 1)]
  BY <1>3, InnerFile(f, l), <1>1 DEF Chained, Joined
<1>12. ASSUME NEW x \in Ids, LeafFile(f, x)
       PROVE  LeafFile(g, x) /\ Link(g, x) = Link(f, x)
  <2>1. SameNode(f, g, x)
    BY <1>1, <1>4, <1>12, FileIs
  <2> QED BY <1>12, <2>1 DEF SameNode
<1>13. ASSUME NEW x \in Ids, There(f, x)
       PROVE  /\ x # n /\ LeafFile(f, lm[x]) /\ LeafFile(f, rm[x])
              /\ LeafFile(g, lm[x]) /\ LeafFile(g, rm[x])
              /\ Link(g, rm[x]) = Link(f, rm[x])
  <2>1. x # n /\ LeafFile(f, lm[x]) /\ LeafFile(f, rm[x]) /\ lm[x] \in Ids /\ rm[x] \in Ids
    BY <1>1, <1>6, <1>13 DEF Chained
  <2> QED BY <1>12, <2>1
<1>14. ASSUME NEW x \in Ids, There(g, x) PROVE LeafFile(g, lm2[x]) /\ LeafFile(g, rm2[x])
  <2>1. CASE x = n
    BY <1>1, <1>7, <1>8, <1>9, <1>10, <1>13, <2>1
  <2>2. CASE x = l
    BY <1>1, <1>7, <1>8, <1>9, <1>10, <1>13, <2>2
  <2>3. CASE x \notin {n, l}
    <3>1. There(f, x)
      BY <1>1, <1>4, <1>14, <2>3, FileIs DEF SameNode
    <3> QED BY <1>9, <1>10, <1>13, <2>3, <3>1
  <2> QED BY <2>1, <2>2, <2>3
<1>15. ASSUME NEW x \in Ids, LeafFile(g, x) PROVE lm2[x] = x /\ rm2[x] = x
  <2>1. x \notin {n, l, p}
    BY <1>1, <1>15
  <2>2. LeafFile(f, x)
    BY <1>4, <1>15, <2>1 DEF SameNode
  <2>3. lm[x] = x /\ rm[x] = x
    BY <2>2 DEF Chained
  <2> QED BY <1>9, <1>10, <2>1, <2>3
<1>16. Joined(g, lm2, rm2, p)
  <2>1. Joined(f, lm, rm, p) /\ Degree(f, p) >= 1
    BY <1>1, <1>5 DEF Chained
  <2>2. lm2[p] = lm[p] /\ \A c \in 1 .. Degree(f, p) : lm2[Kid(f, p, c)] = lm[Kid(f, p, c)]
    BY <1>1, <1>5, <1>9
  <2>3. ASSUME NEW c \in 1 .. Degree(f, p), c # i
        PROVE  Link(g, rm2[Kid(f, p, c)]) = Link(f, rm[Kid(f, p, c)])
    <3>1. Kid(f, p, c) \in Ids \ {n, l} /\ There(f, Kid(f, p, c))
      BY <1>1, <1>5, <2>3
    <3> QED BY <1>10, <1>13, <3>1
  <2>4. Link(g, rm2[l]) = lm2[n]
    <3>1. Kid(f, l, k) \in Ids /\ There(f, Kid(f, l, k))
      BY <1>7, <1>8
    <3>2. Link(g, rm[Kid(f, l, k)]) = Link(f, rm[Kid(f, l, k)])
      BY <1>13, <3>1
    <3> QED BY <1>8, <1>9, <1>10, <1>11, <3>2
  <2>5. Link(g, rm2[n]) = Link(f, rm[l])
    BY <1>1, <1>10, <1>13
  <2>6. rm2[p] = rm2[IF i = Degree(f, p) THEN n ELSE Kid(f, p, Degree(f, p))]
    <3>1. rm[p] = rm[Kid(f, p, Degree(f, p))] /\ Degree(f, p) \in 1 .. Degree(f, p)
      BY <1>1, <2>1 DEF Joined
    <3>2. CASE i = Degree(f, p)
      BY <1>1, <1>10, <3>1, <3>2
    <3>3. CASE i # Degree(f, p)
      <4>1. Kid(f, p, Degree(f, p)) \in Ids \ {l, n}
        BY <1>1, <1>5, <3>1, <3>3
      <4> QED BY <1>1, <1>10, <3>1, <3>3, <4>1
    <3> QED BY <3>2, <3>3
  <2> QED BY <2>1, <2>2, <2>3, <2>4, <2>5, <2>6, ParentJoins
<1>17. Joined(g, lm2, rm2, l)
  <2>1. lm2[l] = lm2[Kid(g, l, 1)]
    BY <1>1, <1>3, <1>7, <1>8, <1>9, <1>11
  <2>2. rm2[l] = rm2[Kid(g, l, k)]
    BY <1>1, <1>3, <1>7, <1>8, <1>10
  <2>3. ASSUME NEW c \in 1 .. k - 1
        PROVE  Link(g, rm2[Kid(g, l, c)]) = lm2[Kid(g, l, c + 1)]
    <3>1. /\ c \in 1 .. k /\ c + 1 \in 1 .. k /\ c \in 1 .. k + k /\ c + 1 \in 1 .. k + k
          /\ c \in 1 .. (k + k) - 1
      BY <1>2
    <3>2. Kid(g, l, c) = Kid(f, l, c) /\ Kid(g, l, c + 1) = Kid(f, l, c + 1)
      BY <1>3, <3>1
    <3>3. rm2[Kid(f, l, c)] = rm[Kid(f, l, c)] /\ lm2[Kid(f, l, c + 1)] = lm[Kid(f, l, c + 1)]
      BY <1>7, <1>9, <1>10, <3>1
    <3>4. Link(g, rm[Kid(f, l, c)]) = Link(f, rm[Kid(f, l, c)])
      BY <1>7, <1>13, <3>1
    <3> QED BY <1>11, <3>1, <3>2, <3>3, <3>4
  <2> QED BY <1>3, <2>1, <2>2, <2>3 DEF Joined
<1>18. Joined(g, lm2, rm2, n)
  <2>1. lm2[n] = lm2[Kid(g, n, 1)]
    BY <1>3, <1>7, <1>8, <1>9
  <2>2. rm2[n] = rm2[Kid(g, n, k)]
    BY <1>3, <1>7, <1>8, <1>10, <1>11
  <2>3. ASSUME NEW c \in 1 .. k - 1
        PROVE  Link(g, rm2[Kid(g, n, c)]) = lm2[Kid(g, n, c + 1)]
    <3>1. /\ c \in 1 .. k /\ c + 1 \in 1 .. k /\ k + c \in 1 .. k + k
          /\ (k + c) + 1 \in 1 .. k + k /\ k + (c + 1) = (k + c) + 1
          /\ k + c \in 1 .. (k + k) - 1
      BY <1>2
    <3>2. Kid(g, n, c) = Kid(f, l, k + c) /\ Kid(g, n, c + 1) = Kid(f, l, (k + c) + 1)
      BY <1>3, <3>1
    <3>3. /\ rm2[Kid(f, l, k + c)] = rm[Kid(f, l, k + c)]
          /\ lm2[Kid(f, l, (k + c) + 1)] = lm[Kid(f, l, (k + c) + 1)]
      BY <1>7, <1>9, <1>10, <3>1
    <3>4. Link(g, rm[Kid(f, l, k + c)]) = Link(f, rm[Kid(f, l, k + c)])
      BY <1>7, <1>13, <3>1
    <3> QED BY <1>11, <3>1, <3>2, <3>3, <3>4
  <2> QED BY <1>3, <2>1, <2>2, <2>3 DEF Joined
<1>19. ASSUME NEW j \in Ids, InnerFile(g, j) PROVE Joined(g, lm2, rm2, j)
  <2>1. CASE j \notin {p, l, n}
    <3>1. SameNode(f, g, j) /\ InnerFile(f, j)
      BY <1>4, <1>19, <2>1 DEF SameNode
    <3>2. /\ Joined(f, lm, rm, j) /\ Degree(f, j) \in Nat /\ Degree(f, j) >= 1
          /\ 1 \in 1 .. Degree(f, j) /\ Degree(f, j) \in 1 .. Degree(f, j)
      BY <1>5, <3>1 DEF Chained
    <3>3. Degree(g, j) = Degree(f, j) /\ \A c : Kid(g, j, c) = Kid(f, j, c)
      BY <3>1 DEF SameNode
    <3>4. ASSUME NEW c \in 1 .. Degree(f, j)
          PROVE  /\ Kid(f, j, c) \in Ids \ {n, l}
                 /\ lm2[Kid(f, j, c)] = lm[Kid(f, j, c)]
                 /\ rm2[Kid(f, j, c)] = rm[Kid(f, j, c)]
                 /\ Link(g, rm[Kid(f, j, c)]) = Link(f, rm[Kid(f, j, c)])
      <4>1. Kid(f, j, c) \in Ids \ {n, l} /\ There(f, Kid(f, j, c))
        BY <1>5, <2>1, <3>1
      <4> QED BY <1>9, <1>10, <1>13, <4>1
    <3>5. lm2[j] = lm2[Kid(f, j, 1)]
      BY <1>9, <2>1, <3>2, <3>4 DEF Joined
    <3>6. rm2[j] = rm2[Kid(f, j, Degree(f, j))]
      BY <1>10, <2>1, <3>2, <3>4 DEF Joined
    <3>7. ASSUME NEW c \in 1 .. Degree(f, j) - 1
          PROVE  Link(g, rm2[Kid(f, j, c)]) = lm2[Kid(f, j, c + 1)]
      <4>1. c \in 1 .. Degree(f, j) /\ c + 1 \in 1 .. Degree(f, j)
        BY <3>2
      <4> QED BY <3>2, <3>4, <4>1 DEF Joined
    <3> QED BY <3>3, <3>5, <3>6, <3>7 DEF Joined
  <2> QED BY <1>16, <1>17, <1>18, <2>1
<1>20. Link(g, rm2[r]) = 0
  BY <1>5, <1>6, <1>10, <1>13
<1>21. Chained(g, r, lm2, rm2)
  BY <1>9, <1>10, <1>14, <1>15, <1>19, <1>20 DEF Chained
<1> QED BY <1>21

(* The ends below a new root are those below the old one.                  *)
LEMMA ChainedGrows ==
  ASSUME NEW f, NEW g, NEW r, NEW n, NEW h, NEW par, NEW pos, Leveled(f, r, n, h, par, pos),
         GrowOf(f, g, n, r), NEW lm, NEW rm, Chained(f, r, lm, rm)
  PROVE  \E lm2, rm2 : Chained(g, n, lm2, rm2)
<1> DEFINE lm2 == [lm EXCEPT ![n] = lm[r]]
           rm2 == [rm EXCEPT ![n] = rm[r]]
<1>1. /\ lm \in [Ids -> Ids] /\ rm \in [Ids -> Ids] /\ Link(f, rm[r]) = 0
      /\ r \in Ids /\ There(f, r) /\ n \in Ids /\ ~There(f, n) /\ r # n
      /\ InnerFile(g, n) /\ Degree(g, n) = 1 /\ Kid(g, n, 1) = r
  BY DEF Chained, Leveled, GrowOf
<1>2. \A j \in Ids \ {n} : SameNode(f, g, j)
  BY DEF GrowOf
<1>3. /\ lm2 \in [Ids -> Ids] /\ lm2[n] = lm[r] /\ \A x \in Ids \ {n} : lm2[x] = lm[x]
      /\ rm2 \in [Ids -> Ids] /\ rm2[n] = rm[r] /\ \A x \in Ids \ {n} : rm2[x] = rm[x]
  BY <1>1
<1> HIDE DEF lm2, rm2
<1>4. ASSUME NEW x \in Ids, There(f, x)
      PROVE  /\ x # n /\ LeafFile(g, lm[x]) /\ LeafFile(g, rm[x])
             /\ Link(g, rm[x]) = Link(f, rm[x])
  <2>1. x # n /\ LeafFile(f, lm[x]) /\ LeafFile(f, rm[x]) /\ lm[x] \in Ids /\ rm[x] \in Ids
    BY <1>1, <1>4 DEF Chained
  <2>2. SameNode(f, g, lm[x]) /\ SameNode(f, g, rm[x])
    BY <1>1, <1>2, <2>1, FileIs
  <2> QED BY <2>1, <2>2 DEF SameNode
<1>5. ASSUME NEW x \in Ids, There(g, x) PROVE LeafFile(g, lm2[x]) /\ LeafFile(g, rm2[x])
  <2>1. CASE x = n
    BY <1>1, <1>3, <1>4, <2>1
  <2>2. CASE x # n
    <3>1. There(f, x)
      BY <1>2, <1>5, <2>2, FileIs DEF SameNode
    <3> QED BY <1>3, <1>4, <2>2, <3>1
  <2> QED BY <2>1, <2>2
<1>6. ASSUME NEW x \in Ids, LeafFile(g, x) PROVE lm2[x] = x /\ rm2[x] = x
  <2>1. x # n
    BY <1>1, <1>6, FileIs
  <2>2. LeafFile(f, x)
    BY <1>2, <1>6, <2>1 DEF SameNode
  <2>3. lm[x] = x /\ rm[x] = x
    BY <2>2 DEF Chained
  <2> QED BY <1>3, <2>1, <2>3
<1>7. ASSUME NEW j \in Ids, InnerFile(g, j) PROVE Joined(g, lm2, rm2, j)
  <2>1. CASE j = n
    BY <1>1, <1>3, <2>1 DEF Joined
  <2>2. CASE j # n
    <3>1. SameNode(f, g, j) /\ InnerFile(f, j)
      BY <1>2, <1>7, <2>2 DEF SameNode
    <3>2. /\ Joined(f, lm, rm, j) /\ Degree(f, j) \in Nat /\ Degree(f, j) >= 1
          /\ 1 \in 1 .. Degree(f, j) /\ Degree(f, j) \in 1 .. Degree(f, j)
      BY <3>1 DEF Chained, Leveled
    <3>3. Degree(g, j) = Degree(f, j) /\ \A c : Kid(g, j, c) = Kid(f, j, c)
      BY <3>1 DEF SameNode
    <3>4. ASSUME NEW c \in 1 .. Degree(f, j)
          PROVE  /\ lm2[Kid(f, j, c)] = lm[Kid(f, j, c)]
                 /\ rm2[Kid(f, j, c)] = rm[Kid(f, j, c)]
                 /\ Link(g, rm[Kid(f, j, c)]) = Link(f, rm[Kid(f, j, c)])
      <4>1. ChildFits(f, r, h, par, pos, j, c)
        BY <3>1 DEF Leveled
      <4>2. Kid(f, j, c) \in Ids \ {n} /\ There(f, Kid(f, j, c))
        BY <1>1, <4>1 DEF ChildFits
      <4> QED BY <1>3, <1>4, <4>2
    <3>5. lm2[j] = lm2[Kid(f, j, 1)] /\ rm2[j] = rm2[Kid(f, j, Degree(f, j))]
      BY <1>3, <2>2, <3>2, <3>4 DEF Joined
    <3>6. ASSUME NEW c \in 1 .. Degree(f, j) - 1
          PROVE  Link(g, rm2[Kid(f, j, c)]) = lm2[Kid(f, j, c + 1)]
      <4>1. c \in 1 .. Degree(f, j) /\ c + 1 \in 1 .. Degree(f, j)
        BY <3>2
      <4> QED BY <3>2, <3>4, <4>1 DEF Joined
    <3> QED BY <3>3, <3>5, <3>6 DEF Joined
  <2> QED BY <2>1, <2>2
<1>8. Link(g, rm2[n]) = 0
  BY <1>1, <1>3, <1>4
<1>9. Chained(g, n, lm2, rm2)
  BY <1>3, <1>5, <1>6, <1>7, <1>8 DEF Chained
<1> QED BY <1>9

(* The chain does not depend on what the leaves hold.                      *)
LEMMA ChainedSame ==
  ASSUME NEW f, NEW g, NEW r, NEW lm, NEW rm, Chained(f, r, lm, rm), r \in Ids, There(f, r),
         SameTree(f, g),
         \A i \in Ids : InnerFile(f, i) => Degree(f, i) \in Nat /\
           \A c \in 1 .. Degree(f, i) : Kid(f, i, c) \in Ids /\ There(f, Kid(f, i, c))
  PROVE  Chained(g, r, lm, rm)
<1>1. lm \in [Ids -> Ids] /\ rm \in [Ids -> Ids] /\ Link(f, rm[r]) = 0
  BY DEF Chained
<1>2. ASSUME NEW x \in Ids, There(f, x)
      PROVE  LeafFile(g, lm[x]) /\ LeafFile(g, rm[x]) /\ Link(g, rm[x]) = Link(f, rm[x])
  BY <1>1, <1>2 DEF Chained, SameTree
<1>3. \A x \in Ids : There(g, x) <=> There(f, x)
  BY FileIs DEF SameTree
<1>4. ASSUME NEW j \in Ids, InnerFile(g, j) PROVE Joined(g, lm, rm, j)
  <2>1. InnerFile(f, j) /\ SameNode(f, g, j)
    BY <1>4 DEF SameTree
  <2>2. Joined(f, lm, rm, j) /\ Degree(f, j) \in Nat
    BY <2>1 DEF Chained
  <2>3. Degree(g, j) = Degree(f, j) /\ \A c : Kid(g, j, c) = Kid(f, j, c)
    BY <2>1 DEF SameNode
  <2>4. ASSUME NEW c \in 1 .. Degree(f, j) - 1
        PROVE  Link(g, rm[Kid(f, j, c)]) = lm[Kid(f, j, c + 1)]
    <3>1. c \in 1 .. Degree(f, j)
      BY <2>2
    <3>2. Link(g, rm[Kid(f, j, c)]) = Link(f, rm[Kid(f, j, c)])
      BY <1>2, <2>1, <3>1
    <3> QED BY <2>2, <3>2 DEF Joined
  <2> QED BY <2>2, <2>3, <2>4 DEF Joined
<1>5. \A x \in Ids : LeafFile(g, x) => lm[x] = x /\ rm[x] = x
  BY DEF Chained, SameTree
<1> QED BY <1>1, <1>2, <1>3, <1>4, <1>5 DEF Chained

(* The one leaf of the fresh tree is its whole chain.                      *)
LEMMA ChainedFresh ==
  ASSUME NEW f, FreshOf(f)
  PROVE  \E lm, rm : Chained(f, 0, lm, rm)
<1> DEFINE z == [i \in Ids |-> 0]
<1>1. z \in [Ids -> Ids] /\ \A i \in Ids : z[i] = 0
  BY DEF FreshOf
<1> HIDE DEF z
<1>2. \A j \in Ids : ~InnerFile(f, j) /\ (There(f, j) => j = 0) /\ (LeafFile(f, j) => j = 0)
  BY FileIs DEF FreshOf
<1>3. Chained(f, 0, z, z)
  BY <1>1, <1>2 DEF Chained, FreshOf
<1> QED BY <1>3

----------------------------------------------------------------------------
(* What a step makes of the tree: the same one, a fresh one, one with a    *)
(* node above the root, or one with a split node.                          *)
KeepsTree  == SameTree(Now, Now') /\ root' = root /\ next' = next /\ (Unopened => Unopened')
FreshTree  == FreshOf(Now') /\ root' = 0 /\ next' = 1 /\ ~Unopened'
GrownTree  == /\ GrowOf(Now, Now', next, root) /\ Load(Now, root) >= MinKeys
              /\ root' = next /\ next' = next + 1 /\ ~Unopened
SplitTree(p, l, i) ==
  /\ SplitOf(Now, Now', next, p, l, i)
  /\ root' = root /\ next' = next + 1 /\ ~Unopened

(* A step that leaves the files and the root alone keeps the tree.         *)
LEMMA SameFiles ==
  ASSUME NEW f, NEW g, \A i \in Ids : g[i] = f[i]
  PROVE  SameTree(f, g)
<1>1. \A i \in Ids : SameNode(f, g, i)
  BY SameContent
<1> QED BY <1>1 DEF SameTree, SameNode

(* A write that was pending changes nothing of the tree.                   *)
LEMMA WriteIs ==
  ASSUME Inv, Inv', WriteFile
  PROVE  KeepsTree
<1>1. SameTree(Now, Now')
  BY WriteKeepsNow, SameFiles DEF Inv
<1>2. UNCHANGED <<root, next, call>> /\ ~Ready
  BY DEF WriteFile
<1>3. ~Unopened
  BY <1>2 DEF Unopened, Inv, CallOK
<1> QED BY <1>1, <1>2, <1>3 DEF KeepsTree

(* Opening keeps the tree, or makes a fresh one.                           *)
LEMMA OpenIs ==
  ASSUME Inv, Shape, OpenExisting \/ OpenFresh \/ OpenInferring
  PROVE  (OpenFresh => FreshTree) /\ (~OpenFresh => KeepsTree)
<1>1. /\ pend = <<>> /\ Now = file /\ UNCHANGED <<file, meta>> /\ call' = None /\ ~Unopened'
      /\ Len(<<>>) = 0
  BY CallMade DEF Inv, CallOK, Ready, Now, OpenExisting, OpenFresh, OpenInferring, Unopened
<1>2. ASSUME OpenExisting PROVE KeepsTree
  <2>1. meta # NoFile /\ root' = meta.root /\ next' = meta.next /\ pend' = <<>>
    BY <1>1, <1>2 DEF OpenExisting
  <2>2. root' = root /\ next' = next /\ ~Unopened
    BY <1>1, <2>1 DEF Shape, Told, Unopened
  <2>3. Now' = Now
    BY <1>1, <2>1 DEF Now, Ready
  <2>4. SameTree(Now, Now')
    BY <2>3, SameFiles
  <2> QED BY <2>2, <2>4 DEF KeepsTree
<1>3. ASSUME OpenFresh PROVE FreshTree
  <2>1. 0 \in Ids /\ Now'[0] = EmptyLeaf /\ \A i \in Ids \ {0} : Now'[i] = NoFile
    BY <1>3, FreshEffect
  <2>2. EmptyLeaf # NoFile /\ EmptyLeaf.leaf /\ EmptyLeaf.link = 0
    BY FreshNodes, NoFileIsNoContent DEF EmptyLeaf, LeafNode
  <2>3. FreshOf(Now')
    BY <2>1, <2>2 DEF FreshOf, LeafFile, Link, There
  <2>4. root' = 0 /\ next' = 1
    BY <1>3 DEF OpenFresh
  <2> QED BY <1>1, <2>3, <2>4 DEF FreshTree
<1>4. ASSUME OpenInferring PROVE KeepsTree
  <2>1. /\ file[0] # NoFile /\ root' = InferRoot(file) /\ next' = InferNext(file) /\ 0 \in Ids
    BY <1>4, Bounds DEF OpenInferring, Ids
  <2>2. ~Unopened /\ Tree(file, root, next)
    BY <1>1, <2>1 DEF Shape, Unopened
  <2>3. root' = root /\ next' = next
    BY <2>1, <2>2, TreeInfers
  <2>4. SameTree(Now, Now')
    BY <1>4, InferEffect, SameFiles
  <2> QED BY <2>2, <2>3, <2>4 DEF KeepsTree
<1> QED BY <1>2, <1>3, <1>4

(* The last step of a call changes what one leaf holds.                    *)
LEMMA LeafIs ==
  ASSUME Inv, InsertIntoLeaf \/ RemoveFromLeaf
  PROVE  KeepsTree
<1> DEFINE a == call.at
<1>1. /\ Now = file /\ Now' = file' /\ UNCHANGED <<meta, root, next, pend>> /\ call' = None
      /\ a \in Ids /\ file[a] # NoFile /\ file[a] \in Node /\ file[a].leaf
      /\ \A i \in Ids \ {a} : file'[i] = file[i]
      /\ file'[a] \in Node
      /\ \/ file'[a] = WithEntry(file[a], call.key, call.val)
         \/ file'[a] = WithoutEntry(file[a], call.key)
         \/ file' = file
  BY LeafEffect
<1>2. ~Unopened
  BY <1>1 DEF Unopened
<1>3. file'[a] # NoFile /\ file'[a].leaf /\ file'[a].link = file[a].link
  BY <1>1, NoFileIsNoContent DEF WithEntry, WithoutEntry, LeafNode
<1>4. ASSUME NEW i \in Ids
      PROVE  /\ LeafFile(file', i) <=> LeafFile(file, i)
             /\ InnerFile(file', i) <=> InnerFile(file, i)
             /\ LeafFile(file, i) => Link(file', i) = Link(file, i)
             /\ InnerFile(file, i) => SameNode(file, file', i)
  <2>1. CASE i = a
    BY <1>1, <1>3, <2>1 DEF LeafFile, InnerFile, Link
  <2>2. CASE i # a
    <3>1. SameNode(file, file', i)
      BY <1>1, <2>2, SameContent
    <3> QED BY <3>1 DEF SameNode
  <2> QED BY <2>1, <2>2
<1>5. SameTree(file, file')
  BY <1>4 DEF SameTree
<1> QED BY <1>1, <1>2, <1>5 DEF KeepsTree

(* GrowRoot puts a new node above the root.                                *)
LEMMA GrowIs ==
  ASSUME Inv, NEW k \in Key, NEW v \in Value, GrowRoot(k, v)
  PROVE  GrownTree
<1>1. /\ Now = file /\ file[root] # NoFile /\ next \in Ids /\ root \in Ids /\ file[next] = NoFile
      /\ Now'[next] = NewRoot(root) /\ \A i \in Ids \ {next} : Now'[i] = file[i]
  BY GrowEffect
<1>2. root' = next /\ next' = next + 1 /\ ~Unopened /\ Full(file[root])
  BY <1>1 DEF GrowRoot, Unopened
<1>3. /\ NewRoot(root) # NoFile /\ ~NewRoot(root).leaf /\ Len(NewRoot(root).keys) = 0
      /\ Len(NewRoot(root).kids) = 1 /\ NewRoot(root).kids[1] = root
  <2>1. Len(<<root>>) = 1 /\ <<root>>[1] = root
    OBVIOUS
  <2> QED BY <1>1, <2>1, FreshNodes, NoFileIsNoContent
<1>4. Load(file, root) >= MinKeys
  BY <1>2, NodeSizes DEF Load, Full
<1>5. \A i \in Ids \ {next} : SameNode(Now, Now', i)
  BY <1>1, SameContent
<1>6. GrowOf(Now, Now', next, root)
  BY <1>1, <1>3, <1>5 DEF GrowOf, There, InnerFile, Degree, Kid, Load
<1> QED BY <1>1, <1>2, <1>4, <1>6 DEF GrownTree

(* SplitChild splits one child and keeps the root.                         *)
LEMMA SplitIsTree ==
  ASSUME Inv, SplitChild
  PROVE  \E p, l : SplitTree(p, l, call.idx)
<1>1. PICK p \in Ids, l \in Ids :
        p = call.at /\ Now = file /\ SplitOf(file, Now', next, p, l, call.idx)
  BY SplitIs
<1>2. root' = root /\ next' = next + 1
  BY DEF SplitChild
<1>3. ~Unopened
  BY <1>1, FileIs DEF SplitOf, Unopened, InnerFile
<1>4. SplitTree(p, l, call.idx)
  BY <1>1, <1>2, <1>3 DEF SplitTree
<1> QED BY <1>4

(* Every step keeps the tree, or is one of the three that change it.       *)
LEMMA TreeSteps ==
  ASSUME Inv, Inv', Shape, [Next]_vars
  PROVE  KeepsTree \/ FreshTree \/ GrownTree \/ \E p, l, i : SplitTree(p, l, i)
<1>1. CASE WriteFile
  BY <1>1, WriteIs
<1>2. CASE SplitChild
  BY <1>2, SplitIsTree
<1>3. CASE InsertIntoLeaf \/ RemoveFromLeaf
  BY <1>3, LeafIs
<1>4. CASE OpenExisting \/ OpenFresh \/ OpenInferring
  BY <1>4, OpenIs
<1>5. ASSUME NEW k \in Key, NEW v \in Value, GrowRoot(k, v) PROVE GrownTree
  BY <1>5, GrowIs
<1>6. CASE \/ Close \/ PickHalf \/ DescendInsert \/ DescendRemove \/ CallThrows
           \/ UNCHANGED vars \/ MetadataAbsent
           \/ \E k \in Key : BeginRemove(k) \/ \E v \in Value : BeginInsert(k, v)
  <2>1. UNCHANGED <<file, root, next, pend>>
    BY <1>6 DEF Close, PickHalf, DescendInsert, DescendRemove, CallThrows, BeginRemove,
       BeginInsert, MetadataAbsent, vars
  <2>2. Unopened => Unopened'
    BY <1>6, CallMade DEF Unopened, Close, Idle, PickHalf, DescendInsert, DescendRemove,
       CallThrows, MissesFile, BeginRemove, BeginInsert, MayInsert, MetadataAbsent, vars
  <2>3. Now' = Now
    BY <2>1 DEF Now, Ready
  <2>4. SameTree(Now, Now')
    BY <2>3, SameFiles
  <2> QED BY <2>1, <2>2, <2>4 DEF KeepsTree
<1> QED
  BY <1>1, <1>2, <1>3, <1>4, <1>5, <1>6 DEF Next, Running, Calls

(* Without a kill the tree has levels, and its leaves a chain. *)
Laid ==
  \/ Unopened
  \/ \E h, par, pos, lm, rm :
       Leveled(Now, root, next, h, par, pos) /\ Chained(Now, root, lm, rm)

(* Every step leaves a tree with levels and a chain.                       *)
LEMMA LaidStep ==
  ASSUME Inv, Inv', Shape, Laid, [Next]_vars
  PROVE  Laid'
<1>1. CASE FreshTree
  <2>1. FreshOf(Now') /\ root' = 0 /\ next' = 1
    BY <1>1 DEF FreshTree
  <2>2. PICK h, par, pos : Leveled(Now', root', next', h, par, pos)
    BY <2>1, LeveledFresh
  <2>3. PICK lm, rm : Chained(Now', root', lm, rm)
    BY <2>1, ChainedFresh
  <2> QED BY <2>2, <2>3 DEF Laid
<1>2. CASE Unopened /\ ~FreshTree
  <2>1. Unopened'
    BY <1>2, TreeSteps DEF KeepsTree, GrownTree, SplitTree
  <2> QED BY <2>1 DEF Laid
<1>3. CASE ~Unopened /\ ~FreshTree
  <2>1. PICK h, par, pos, lm, rm :
          Leveled(Now, root, next, h, par, pos) /\ Chained(Now, root, lm, rm)
    BY <1>3 DEF Laid
  <2>2. next \in Nat
    BY DEF Inv, TypeOK
  <2>3. CASE KeepsTree
    <3>1. SameTree(Now, Now') /\ root' = root /\ next' = next
      BY <2>3 DEF KeepsTree
    <3>2. Leveled(Now', root', next', h, par, pos)
      BY <2>1, <3>1, LeveledSame
    <3>3. /\ root \in Ids /\ There(Now, root)
          /\ \A i \in Ids : InnerFile(Now, i) => Degree(Now, i) \in Nat /\
               \A c \in 1 .. Degree(Now, i) : Kid(Now, i, c) \in Ids /\ There(Now, Kid(Now, i, c))
      BY <2>1 DEF Leveled, ChildFits
    <3>4. Chained(Now', root', lm, rm)
      BY <2>1, <3>1, <3>3, ChainedSame
    <3> QED BY <3>2, <3>4 DEF Laid
  <2>4. CASE GrownTree
    <3>1. /\ GrowOf(Now, Now', next, root) /\ Load(Now, root) >= MinKeys
          /\ root' = next /\ next' = next + 1
      BY <2>4 DEF GrownTree
    <3>2. PICK h2, par2, pos2 : Leveled(Now', root', next', h2, par2, pos2)
      BY <2>1, <2>2, <3>1, LeveledGrows
    <3>3. PICK lm2, rm2 : Chained(Now', root', lm2, rm2)
      BY <2>1, <3>1, ChainedGrows
    <3> QED BY <3>2, <3>3 DEF Laid
  <2>5. ASSUME NEW p, NEW l, NEW i, SplitTree(p, l, i) PROVE Laid'
    <3>1. SplitOf(Now, Now', next, p, l, i) /\ root' = root /\ next' = next + 1
      BY <2>5 DEF SplitTree
    <3>2. \E h2, par2, pos2 : Leveled(Now', root', next', h2, par2, pos2)
      <4>1. Leveled(Now', root, next + 1, SplitLevel(h, next, l), SplitPar(par, pos, next, p, l),
                    SplitPos(par, pos, next, p, l, i))
        BY <2>1, <2>2, <3>1, LeveledSplits
      <4> QED BY <3>1, <4>1
    <3>3. LeafFile(Now, l) \/ InnerFile(Now, l)
      BY <3>1, FileIs DEF SplitOf
    <3>4. PICK lm2, rm2 : Chained(Now', root', lm2, rm2)
      BY <2>1, <3>1, <3>3, LeafChainSplits, InnerChainSplits
    <3> QED BY <3>2, <3>4 DEF Laid
  <2> QED BY <1>3, <2>3, <2>4, <2>5, TreeSteps
<1> QED BY <1>1, <1>2, <1>3

(* As long as the program is not killed, the tree is laid out so.          *)
LEMMA LaidAlways == Spec => [](Inv /\ Shape /\ Laid)
<1>1. Init => Laid
  BY DEF Init, Laid, Unopened
<1>2. Inv /\ Inv' /\ Shape /\ Laid /\ [Next]_vars => Laid'
  BY LaidStep
<1> QED BY <1>1, <1>2, ShapeAlways, PTL DEF Spec

----------------------------------------------------------------------------
(* The edges below a node of a tree with levels and a chain end at its     *)
(* first and at its last leaf, as many inner nodes below as its level.     *)
LEMMA EdgeIs ==
  ASSUME NEW f, NEW r, NEW n, NEW h, NEW par, NEW pos, Leveled(f, r, n, h, par, pos),
         n <= MaxNodeId + 1, n \in Nat, NEW lm, NEW rm, Chained(f, r, lm, rm),
         NEW right \in BOOLEAN, NEW i \in Ids, There(f, i),
         \A j \in Ids : InnerFile(f, j) =>
           EndKid(f[j], right) = IF right THEN Kid(f, j, Degree(f, j)) ELSE Kid(f, j, 1)
  PROVE  /\ Edge(f, i, right).leaf = IF right THEN rm[i] ELSE lm[i]
         /\ Edge(f, i, right).height = h[i]
<1>1. PICK D :
        /\ \A j : Edge(f, j, right) = D[MaxNodeId][j]
        /\ \A e \in 0 .. MaxNodeId, j \in Ids :
             D[e][j] = IF Stops(f, j) \/ e = 0
                       THEN [leaf |-> j, height |-> MaxNodeId - e]
                       ELSE D[e - 1][EndKid(f[j], right)]
  BY EdgeDescends
<1> DEFINE end(j) == IF right THEN rm[j] ELSE lm[j]
           Good(e) == \A j \in Ids : There(f, j) /\ h[j] <= e =>
                        D[e][j].leaf = end(j) /\ D[e][j].height = (MaxNodeId - e) + h[j]
           Bad == {e \in 0 .. MaxNodeId : ~Good(e)}
<1>2. /\ h \in [Ids -> Nat] /\ MaxNodeId \in Nat
      /\ \A j \in Ids : There(f, j) => h[j] < n
  BY Bounds DEF Leveled
<1>3. \A j \in Ids : LeafFile(f, j) => h[j] = 0 /\ end(j) = j
  BY DEF Leveled, Chained
<1>4. ASSUME NEW j \in Ids, InnerFile(f, j)
      PROVE  LET x == EndKid(f[j], right)
             IN  x \in Ids /\ There(f, x) /\ h[x] + 1 = h[j] /\ end(x) = end(j)
  <2>1. /\ Degree(f, j) \in Nat /\ Degree(f, j) >= 1
        /\ \A c \in 1 .. Degree(f, j) : ChildFits(f, r, h, par, pos, j, c)
    BY <1>4 DEF Leveled
  <2>2. 1 \in 1 .. Degree(f, j) /\ Degree(f, j) \in 1 .. Degree(f, j)
    BY <2>1
  <2>3. Joined(f, lm, rm, j)
    BY <1>4 DEF Chained
  <2> QED BY <1>4, <2>1, <2>2, <2>3 DEF ChildFits, Joined
<1>5. \A j \in Ids : Stops(f, j) <=> ~InnerFile(f, j)
  BY DEF Stops, InnerFile
<1> HIDE DEF end
<1>6. Bad = {}
  <2> SUFFICES ASSUME Bad # {} PROVE FALSE
    OBVIOUS
  <2>1. PICK e \in Bad : \A d \in Bad : e <= d
    <3>1. Bad \in SUBSET Nat
      OBVIOUS
    <3> HIDE DEF Bad
    <3> QED BY <3>1, MinExists
  <2>2. e \in 0 .. MaxNodeId /\ ~Good(e)
    OBVIOUS
  <2>3. PICK j \in Ids : /\ There(f, j) /\ h[j] <= e
                         /\ ~(D[e][j].leaf = end(j) /\ D[e][j].height = (MaxNodeId - e) + h[j])
    BY <2>2
  <2>4. ~LeafFile(f, j)
    <3> SUFFICES ASSUME LeafFile(f, j) PROVE FALSE
      OBVIOUS
    <3>1. h[j] = 0 /\ end(j) = j /\ Stops(f, j)
      BY <1>3, <1>5, FileIs
    <3>2. D[e][j] = [leaf |-> j, height |-> MaxNodeId - e]
      BY <1>1, <2>2, <3>1
    <3>3. (MaxNodeId - e) + 0 = MaxNodeId - e
      BY <1>2, <2>2
    <3> QED BY <2>3, <3>1, <3>2, <3>3
  <2>5. InnerFile(f, j) /\ ~Stops(f, j)
    BY <1>5, <2>3, <2>4, FileIs
  <2> DEFINE x == EndKid(f[j], right)
  <2>6. x \in Ids /\ There(f, x) /\ h[x] + 1 = h[j] /\ end(x) = end(j)
    BY <1>4, <2>5
  <2>7. /\ h[x] \in Nat /\ h[j] \in Nat /\ e # 0 /\ e - 1 \in 0 .. MaxNodeId /\ h[x] <= e - 1
        /\ ~(e <= e - 1)
        /\ (MaxNodeId - (e - 1)) + h[x] = (MaxNodeId - e) + h[j]
    <3> HIDE DEF x
    <3>1. h[x] \in Nat /\ h[j] \in Nat
      BY <1>2, <2>6
    <3> QED BY <1>2, <2>2, <2>3, <2>6, <3>1
  <2>8. Good(e - 1)
    <3>1. e - 1 \notin Bad
      <4> HIDE DEF Bad
      <4> QED BY <2>1, <2>7
    <3> QED BY <2>7, <3>1
  <2>9. D[e - 1][x].leaf = end(x) /\ D[e - 1][x].height = (MaxNodeId - (e - 1)) + h[x]
    <3> HIDE DEF x
    <3> QED BY <2>6, <2>7, <2>8
  <2>10. D[e][j] = D[e - 1][x]
    BY <1>1, <2>2, <2>5, <2>7
  <2> HIDE DEF x
  <2> QED BY <2>3, <2>6, <2>7, <2>9, <2>10
<1>7. h[i] <= MaxNodeId /\ h[i] \in Nat
  BY <1>2
<1>8. Good(MaxNodeId)
  <2>1. MaxNodeId \in 0 .. MaxNodeId
    BY <1>2
  <2> QED BY <1>6, <2>1
<1>9. D[MaxNodeId][i].leaf = end(i) /\ D[MaxNodeId][i].height = (MaxNodeId - MaxNodeId) + h[i]
  BY <1>7, <1>8
<1>10. (MaxNodeId - MaxNodeId) + h[i] = h[i]
  BY <1>2, <1>7
<1> QED BY <1>1, <1>9, <1>10 DEF end

(* The children at the ends of an inner node. *)
LEMMA EndKids ==
  ASSUME Inv, NEW j \in Ids, InnerFile(Now, j), NEW right \in BOOLEAN
  PROVE  /\ EndKid(Now[j], right) = IF right THEN Kid(Now, j, Degree(Now, j)) ELSE Kid(Now, j, 1)
         /\ Len(Now[j].kids) = Len(Now[j].keys) + 1
<1>1. Now[j] \in Node /\ ~Now[j].leaf
  BY NowType DEF InnerFile
<1>2. Len(Now[j].kids) = Len(Now[j].keys) + 1
  BY <1>1, InnerParts
<1>3. Last(Now[j].kids) = Kid(Now, j, Degree(Now, j)) /\ Head(Now[j].kids) = Kid(Now, j, 1)
  BY DEF Last, Kid, Degree
<1> QED BY <1>2, <1>3 DEF EndKid

(* What the edges of the opened tree are. *)
LEMMA EdgesOpened ==
  ASSUME Inv, Shape, Opened, NEW h, NEW par, NEW pos, Leveled(Now, root, next, h, par, pos),
         NEW lm, NEW rm, Chained(Now, root, lm, rm), NEW i \in Ids, There(Now, i)
  PROVE  Leftmost(Now, i) = lm[i] /\ Rightmost(Now, i) = rm[i] /\ Height(Now, i) = h[i]
<1>1. next \in Nat /\ next <= MaxNodeId + 1
  BY DEF Shape, Unopened, Opened, Tree
<1>2. ASSUME NEW right \in BOOLEAN
      PROVE  /\ Edge(Now, i, right).leaf = IF right THEN rm[i] ELSE lm[i]
             /\ Edge(Now, i, right).height = h[i]
  BY <1>1, EndKids, EdgeIs
<1> QED BY <1>2 DEF Leftmost, Rightmost, Height

(* All leaves are on one level, and every inner node but the root is at    *)
(* least half full, in whatever order keys are inserted and removed: a     *)
(* split hands each half MinKeys separators, and only the root grows.      *)
THEOREM TreeBalanced == Spec => []Balanced
<1>1. Inv /\ Shape /\ Laid => Balanced
  <2> SUFFICES ASSUME Inv, Shape, Laid, Opened, NEW i \in Files(Now), ~Now[i].leaf
               PROVE  /\ Len(Now[i].kids) = Len(Now[i].keys) + 1
                      /\ i # root => Len(Now[i].keys) >= MinKeys
                      /\ \A c \in 1 .. Len(Now[i].kids) :
                            Height(Now, Now[i].kids[c]) = Height(Now, i) - 1
    BY DEF Balanced
  <2>1. PICK h, par, pos, lm, rm :
          Leveled(Now, root, next, h, par, pos) /\ Chained(Now, root, lm, rm)
    BY DEF Laid, Opened, Unopened
  <2>2. i \in Ids /\ There(Now, i) /\ InnerFile(Now, i)
    BY DEF Files, There, InnerFile
  <2>3. Len(Now[i].kids) = Len(Now[i].keys) + 1
    BY <2>2, EndKids
  <2>4. i # root => Len(Now[i].keys) >= MinKeys
    BY <2>1, <2>2 DEF Leveled, Below, Load
  <2>5. ASSUME NEW c \in 1 .. Len(Now[i].kids)
        PROVE  Height(Now, Now[i].kids[c]) = Height(Now, i) - 1
    <3> DEFINE x == Now[i].kids[c]
    <3>1. ChildFits(Now, root, h, par, pos, i, c)
      BY <2>1, <2>2 DEF Leveled, Degree
    <3>2. x \in Ids /\ There(Now, x) /\ h[x] + 1 = h[i]
      BY <3>1 DEF ChildFits, Kid
    <3> HIDE DEF x
    <3>3. Height(Now, x) = h[x] /\ Height(Now, i) = h[i] /\ h[x] \in Nat
      BY <2>1, <2>2, <3>2, EdgesOpened DEF Leveled
    <3>4. Height(Now, x) = Height(Now, i) - 1
      BY <3>2, <3>3
    <3> QED BY <3>4 DEF x
  <2> QED BY <2>3, <2>4, <2>5
<1> QED BY <1>1, LaidAlways, PTL

(* From the leftmost leaf on, leaf_next leads through all leaves in the    *)
(* order of the inner nodes above them, and out of the last one with 0: a  *)
(* split puts the right half between the left half and what came after it. *)
THEOREM ChainInOrder == Spec => []LeafChainInOrder
<1>1. Inv /\ Shape /\ Laid => LeafChainInOrder
  <2> SUFFICES ASSUME Inv, Shape, Laid, Opened
               PROVE  /\ Now[Rightmost(Now, root)].link = 0
                      /\ \A i \in Files(Now) : \A c \in 1 .. Len(Now[i].kids) - 1 :
                            ~Now[i].leaf =>
                              Now[Rightmost(Now, Now[i].kids[c])].link
                                = Leftmost(Now, Now[i].kids[c + 1])
    BY DEF LeafChainInOrder
  <2>1. PICK h, par, pos, lm, rm :
          Leveled(Now, root, next, h, par, pos) /\ Chained(Now, root, lm, rm)
    BY DEF Laid, Opened, Unopened
  <2>2. Now[Rightmost(Now, root)].link = 0
    <3>1. root \in Ids /\ There(Now, root)
      BY <2>1 DEF Leveled
    <3>2. Rightmost(Now, root) = rm[root]
      BY <2>1, <3>1, EdgesOpened
    <3> QED BY <2>1, <3>2 DEF Chained, Link
  <2>3. ASSUME NEW i \in Files(Now), NEW c \in 1 .. Len(Now[i].kids) - 1, ~Now[i].leaf
        PROVE  Now[Rightmost(Now, Now[i].kids[c])].link = Leftmost(Now, Now[i].kids[c + 1])
    <3> DEFINE x == Now[i].kids[c]
               y == Now[i].kids[c + 1]
    <3>1. i \in Ids /\ There(Now, i) /\ InnerFile(Now, i)
      BY <2>3 DEF Files, There, InnerFile
    <3>2. Degree(Now, i) \in Nat /\ c \in 1 .. Degree(Now, i) - 1
      BY <2>1, <3>1 DEF Leveled, Degree
    <3>3. c \in 1 .. Degree(Now, i) /\ c + 1 \in 1 .. Degree(Now, i)
      BY <3>2
    <3>4. /\ ChildFits(Now, root, h, par, pos, i, c)
          /\ ChildFits(Now, root, h, par, pos, i, c + 1)
      BY <2>1, <3>1, <3>3 DEF Leveled
    <3>5. x \in Ids /\ There(Now, x) /\ y \in Ids /\ There(Now, y)
      BY <3>4 DEF ChildFits, Kid
    <3>6. Joined(Now, lm, rm, i)
      BY <2>1, <3>1 DEF Chained
    <3>7. Link(Now, rm[x]) = lm[y]
      BY <3>2, <3>6 DEF Joined, Kid
    <3> HIDE DEF x, y
    <3>8. Rightmost(Now, x) = rm[x] /\ Leftmost(Now, y) = lm[y]
      BY <2>1, <3>5, EdgesOpened
    <3>9. Now[Rightmost(Now, x)].link = Leftmost(Now, y)
      BY <3>7, <3>8 DEF Link
    <3> QED BY <3>9 DEF x, y
  <2> QED BY <2>2, <2>3
<1> QED BY <1>1, LaidAlways, PTL
===============================================================================
