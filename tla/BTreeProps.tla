----------------------------- MODULE BTreeProps -----------------------------
(***************************************************************************)
(* What the B+ tree has to guarantee.                                      *)
(***************************************************************************)
EXTENDS BTree

(***************************************************************************)
(* The map a directory stands for: what search answers for every key, once *)
(* the pending writes are made.  While the program is not running it is    *)
(* what the constructor would open.                                        *)
(***************************************************************************)
CurrentRoot ==
  IF call # Closed THEN root
  ELSE IF meta # NoFile THEN meta.root
  ELSE InferRoot(file)

Entries == UNION {Search(Now, CurrentRoot, k) : k \in Key}

Lost ==
  IF Now[CurrentRoot] = NoFile THEN {}
  ELSE {k \in Key : ~Reaches(Now, CurrentRoot, k)}

Request ==
  IF call.op = "insert" THEN [op |-> "insert", key |-> call.key, val |-> call.val]
  ELSE IF call.op = "remove" THEN [op |-> "remove", key |-> call.key]
  ELSE [op |-> "none"]

Index == INSTANCE IndexCalls WITH entries <- Entries, lost <- Lost, request <- Request

(* The tree is a map: an insert that returns has added its entry, a remove *)
(* has taken its entry away, and no other step - a split, the growth of    *)
(* the root, reopening, inferring the metadata - changes what a search     *)
(* answers.  So it is while splits stay at the right edge (EdgeSpec).      *)
ImplementsIndex == Index!IndexSpec

(* Under crashes entries may be lost, never altered, resurrected or made   *)
(* up, and calls that return still take effect: the order of the writes in *)
(* split_child and in insert.                                              *)
ImplementsLossyIndex == Index!LossyIndexSpec

(* What was found stays found until it is removed.  Keys that arrive in    *)
(* any other order than ascending lose entries: see WithChild.             *)
FoundUntilRemoved ==
  [][\A e \in Entries : e \in Entries' \/ (call.op = "remove" /\ e[1] = call.key)]_vars
----------------------------------------------------------------------------
(* The leaf at the end of the leftmost or rightmost path below node i, and *)
(* the number of inner nodes on the way.                                   *)
EndKid(n, right) == IF right THEN Last(n.kids) ELSE Head(n.kids)

Edge(f, r, right) ==
  LET down[fuel \in 0 .. MaxNodeId] ==
        [i \in Ids |->
           IF Stops(f, i) \/ fuel = 0
           THEN [leaf |-> i, height |-> MaxNodeId - fuel]
           ELSE down[fuel - 1][EndKid(f[i], right)]]
  IN  down[MaxNodeId][r]

Leftmost(f, i)  == Edge(f, i, FALSE).leaf
Rightmost(f, i) == Edge(f, i, TRUE).leaf
Height(f, i)    == Edge(f, i, FALSE).height

Opened == call # Closed /\ Now[root] # NoFile

(* The key/value pairs in the leaves, found by a search or not.            *)
Stored ==
  LET f == Now
  IN  UNION {{<<f[i].keys[j], f[i].kids[j]>> : j \in 1 .. Len(f[i].keys)} :
               i \in {i \in Files(f) : f[i].leaf}}

(* In whatever order the keys arrive, no leaf loses a key, or the value    *)
(* that belongs to it: pairs come with an insert of theirs, go with a      *)
(* remove of their key, and splits hand all of them on.                    *)
LeavesKeepPairs ==
  [][/\ \A e \in Stored \ Stored' : call.op = "remove" /\ e[1] = call.key
     /\ \A e \in Stored' \ Stored : call.op = "insert" /\ e = <<call.key, call.val>>]_vars

(* Following leaf_next from the leftmost leaf visits every leaf once, in   *)
(* the order of the inner nodes, and ends with 0.                          *)
LeafChainInOrder ==
  Opened =>
    LET f == Now
    IN  /\ f[Rightmost(f, root)].link = 0
        /\ \A i \in Files(f) : \A c \in 1 .. Len(f[i].kids) - 1 :
              ~f[i].leaf =>
                f[Rightmost(f, f[i].kids[c])].link = Leftmost(f, f[i].kids[c + 1])

(* Lookups are O(log n): all leaves are on one level, and every inner node *)
(* other than the root has at least BTREE_MIN_KEYS separators.             *)
Balanced ==
  Opened =>
    LET f == Now
    IN  \A i \in Files(f) : ~f[i].leaf =>
          /\ Len(f[i].kids) = Len(f[i].keys) + 1
          /\ i # root => Len(f[i].keys) >= MinKeys
          /\ \A c \in 1 .. Len(f[i].kids) :
                Height(f, f[i].kids[c]) = Height(f, i) - 1

(* A directory whose metadata file is missing is opened with the right     *)
(* root and the right next id: what the constructor infers from the node   *)
(* files is what the metadata file said.                                   *)
InferenceAgrees ==
  Idle => InferRoot(file) = root /\ InferNext(file) = next

(* No write ever puts more than BTREE_MAX_KEYS keys into the arrays.       *)
NoOverflow ==
  \A i \in Ids : Now[i] # NoFile => Len(Now[i].keys) <= MaxKeys

(* The first write of a node file is its only creation: an id that was     *)
(* handed out is never handed out again, not even after a crash.           *)
NoFileReplaced ==
  [][next' = next + 1 => Now[next] = NoFile]_vars

(* A crash costs entries only between the write of a parent and the write  *)
(* of the right half it already names (split_child writes the parent       *)
(* first), and never while the root grows or a fresh tree is set up.       *)
CrashLosesOnlyInSplit ==
  [][Crash /\ (Entries' # Entries \/ Lost' # Lost) =>
       /\ call.op = "insert"
       /\ call.step # "splitRoot"
       /\ Len(pend) \in {1, 2}]_vars

(* Every call returns or dies with its process, on whatever directory the  *)
(* crashes before it have left: no walk goes round in circles.             *)
CallsReturn == call.op \in {"insert", "remove"} ~> call \in {None, Closed}
=============================================================================
