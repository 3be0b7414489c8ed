------------------------------- MODULE BTree -------------------------------
(***************************************************************************)
(* The B+ tree of src/b_tree.cpp, one file per node.  A call of the        *)
(* single-threaded program is a sequence of steps.  Where the code writes  *)
(* several files in a row (the constructor, growing the root, splitting a  *)
(* child) the step computes them all and "pend" holds the writes that have *)
(* not reached the directory yet; WriteFile makes them one at a time, in   *)
(* the order of the code.  A crash may fall between any two of them.       *)
(*                                                                         *)
(* A node is a record: "keys" is keys[0..count), "kids" the children that  *)
(* are in use (values in a leaf, node ids in an inner node), "link" the    *)
(* next-leaf id that the code keeps in children[BTREE_MAX_KEYS].  Array    *)
(* entries past "count" are never read and are left out.                   *)
(***************************************************************************)
EXTENDS Integers, SequencesExt

CONSTANTS
  Key,        \* uint64_t keys
  Value,      \* uint64_t values: packed row locators
  MinKeys,    \* BTREE_MIN_KEYS (127 in the code)
  MaxKeys,    \* BTREE_MAX_KEYS (255 in the code)
  MaxNodeId,  \* model bound: node ids are 0..MaxNodeId
  Headroom,   \* model bound: ids an insert must find unallocated to start
  NoFile      \* the node file, or the metadata file, does not exist

ASSUME KeysAreNumbers == Key \subseteq Nat /\ Value \subseteq Nat
ASSUME NodeSizes == MinKeys \in Nat \ {0} /\ MaxKeys = 2 * MinKeys + 1
ASSUME Bounds == MaxNodeId \in Nat /\ Headroom \in Nat

VARIABLES
  file,   \* file[i] is the content of node_<i>.data, or NoFile
  meta,   \* metadata.data: the persisted root and next ids, or NoFile
  root,   \* root_node_id of the open object
  next,   \* next_node_id of the open object
  call,   \* the call in progress
  pend    \* the file writes the running call still has to make

vars == <<file, meta, root, next, call, pend>>

Ids == 0 .. MaxNodeId

MetaFile == -1   \* stands for metadata.data where a node id names a node file

Leaf  == {n \in [leaf : {TRUE}, keys : Seq(Key), kids : Seq(Value), link : Ids] :
            Len(n.kids) = Len(n.keys)}
Inner == {n \in [leaf : {FALSE}, keys : Seq(Key), kids : Seq(Ids), link : Ids] :
            Len(n.kids) = Len(n.keys) + 1}
Node == Leaf \cup Inner
Meta == [root : Ids, next : Nat]
Write == [to : {MetaFile}, data : Meta] \cup [to : Ids, data : Node]

ASSUME NoFileIsNoContent == NoFile \notin Node \cup Meta

None   == [op |-> "none"]
Closed == [op |-> "closed"]
Inserting(step, k, v, at, idx) ==
  [op |-> "insert", step |-> step, key |-> k, val |-> v, at |-> at, idx |-> idx]
Removing(k, at) == [op |-> "remove", key |-> k, at |-> at]

Ready == pend = <<>>
Idle  == Ready /\ call = None
----------------------------------------------------------------------------
LeafNode(ks, vs, l)   == [leaf |-> TRUE, keys |-> ks, kids |-> vs, link |-> l]
InnerNode(ks, ids)    == [leaf |-> FALSE, keys |-> ks, kids |-> ids, link |-> 0]

EmptyLeaf  == LeafNode(<<>>, <<>>, 0)
NewRoot(r) == InnerNode(<<>>, <<r>>)

Full(n) == Len(n.keys) = MaxKeys

(* internal_child_index, as a 1-based position in kids: past every         *)
(* separator up to the first one greater than k.                           *)
ChildIndex(n, k) ==
  CHOOSE i \in 1 .. Len(n.keys) + 1 :
    /\ \A j \in 1 .. i - 1 : n.keys[j] <= k
    /\ i <= Len(n.keys) => k < n.keys[i]

(* The position of the first key not below k, in search and in remove. *)
LeafIndex(n, k) ==
  CHOOSE i \in 1 .. Len(n.keys) + 1 :
    /\ \A j \in 1 .. i - 1 : n.keys[j] < k
    /\ i <= Len(n.keys) => k <= n.keys[i]

(* Where insert_non_full stops shifting, from the right, in a leaf. *)
InsertIndex(n, k) ==
  CHOOSE i \in 1 .. Len(n.keys) + 1 :
    /\ \A j \in i .. Len(n.keys) : n.keys[j] > k
    /\ i > 1 => n.keys[i - 1] <= k

HasKey(n, k) ==
  LET i == LeafIndex(n, k) IN i <= Len(n.keys) /\ n.keys[i] = k

WithEntry(n, k, v) ==
  LET i == InsertIndex(n, k)
  IN  LeafNode(InsertAt(n.keys, i, k), InsertAt(n.kids, i, v), n.link)

WithoutEntry(n, k) ==
  LET i == LeafIndex(n, k)
  IN  LeafNode(RemoveAt(n.keys, i), RemoveAt(n.kids, i), n.link)

(* split_child: the two halves of a full child n whose right half gets the *)
(* id r, the separator, and the parent p that had n as its i-th child.  A  *)
(* leaf keeps its separator in the right half; an inner node gives it up.  *)
LeftHalf_NoLink(n, r) ==
  IF n.leaf
  THEN LeafNode(SubSeq(n.keys, 1, MinKeys), SubSeq(n.kids, 1, MinKeys), n.link)
  ELSE InnerNode(SubSeq(n.keys, 1, MinKeys), SubSeq(n.kids, 1, MinKeys + 1))

LeftHalf(n, r) ==
  IF n.leaf
  THEN LeafNode(SubSeq(n.keys, 1, MinKeys), SubSeq(n.kids, 1, MinKeys), r)
  ELSE InnerNode(SubSeq(n.keys, 1, MinKeys), SubSeq(n.kids, 1, MinKeys + 1))

RightLeaf(n, first) ==
  LeafNode(SubSeq(n.keys, MinKeys + 1, MaxKeys),
           SubSeq(n.kids, first, first + MinKeys), n.link)

RightInner(n, first) ==
  InnerNode(SubSeq(n.keys, first, MaxKeys), SubSeq(n.kids, MinKeys + 2, MaxKeys + 1))

RightHalf_KeepsSeparator(n) ==
  IF n.leaf THEN RightLeaf(n, MinKeys + 1) ELSE RightInner(n, MinKeys + 1)
RightHalf_ValuesOffByOne(n) ==
  IF n.leaf THEN RightLeaf(n, MinKeys) ELSE RightInner(n, MinKeys + 2)
RightHalf(n) ==
  IF n.leaf THEN RightLeaf(n, MinKeys + 1) ELSE RightInner(n, MinKeys + 2)

Separator(n) == n.keys[MinKeys + 1]

(* The separator is written over keys[i] before the keys from i on are     *)
(* shifted: unless the child was the last one, the old separator i is gone *)
(* and sep stands there twice.                                             *)
WithChild(p, i, sep, r) ==
  LET written(j) == IF j = i THEN sep ELSE p.keys[j]
  IN  InnerNode([j \in 1 .. Len(p.keys) + 1 |->
                   IF j <= i THEN written(j) ELSE written(j - 1)],
                InsertAt(p.kids, i + 1, r))
----------------------------------------------------------------------------
(* The pending writes applied to the directory: what it will contain once  *)
(* the running call has made them all.                                     *)
Now ==
  IF Ready THEN file
  ELSE [i \in Ids |->
          IF \E j \in 1 .. Len(pend) : pend[j].to = i
          THEN pend[CHOOSE j \in 1 .. Len(pend) : pend[j].to = i].data
          ELSE file[i]]

Stops(f, i) == f[i] = NoFile \/ f[i].leaf

(* The node at depth d of the path of k from node r on: at a leaf, or at a *)
(* missing file, the path stays.                                           *)
NodeAt(f, r, k, d) ==
  LET down[fuel \in 0 .. MaxNodeId + 1] ==
        [i \in Ids |->
           IF Stops(f, i) \/ fuel = 0 THEN i
           ELSE down[fuel - 1][f[i].kids[ChildIndex(f[i], k)]]]
  IN  down[d][r]

(* search: from node r down to a leaf, at most one step per node id. *)
LeafFor(f, r, k) == NodeAt(f, r, k, MaxNodeId + 1)

Reaches(f, r, k) ==
  LET i == LeafFor(f, r, k) IN f[i] # NoFile /\ f[i].leaf

(* What search answers, as the set of entries it finds for k. *)
Search(f, r, k) ==
  LET found == {i \in {LeafFor(f, r, k)} : f[i] # NoFile /\ f[i].leaf /\ HasKey(f[i], k)}
  IN  {<<k, f[i].kids[LeafIndex(f[i], k)]>> : i \in found}

(* contains(k) of the open tree: any exception means "no". *)
Contained(k) == Search(file, root, k) # {}
----------------------------------------------------------------------------
(* infer_root_node_id: the least id that no node refers to. *)
Files(f) == {i \in Ids : f[i] # NoFile}

RefersTo(n) == IF n.leaf THEN {n.link} \ {0} ELSE ToSet(n.kids)

Unreferenced(f) == {i \in Files(f) : \A j \in Files(f) : i \notin RefersTo(f[j])}

InferRoot(f) == IF Unreferenced(f) = {} THEN 0 ELSE Min(Unreferenced(f))

(* infer_next_node_id: one more than the largest id in use. *)
InferNext_MaxOnly(f) == IF Files(f) = {} THEN 1 ELSE Max(Files(f))
InferNext(f) == IF Files(f) = {} THEN 1 ELSE Max(Files(f)) + 1
----------------------------------------------------------------------------
Init ==
  /\ file = [i \in Ids |-> NoFile]
  /\ meta = NoFile
  /\ root = 0
  /\ next = 1
  /\ call = Closed
  /\ pend = <<>>

MetaWrite(r, n) == [to |-> MetaFile, data |-> [root |-> r, next |-> n]]
NodeWrite(i, n) == [to |-> i, data |-> n]

(* write_node and write_metadata: the next file of the running call. *)
WriteFile ==
  /\ ~Ready
  /\ LET w == Head(pend)
     IN  IF w.to = MetaFile
         THEN meta' = w.data /\ UNCHANGED file
         ELSE file' = [file EXCEPT ![w.to] = w.data] /\ UNCHANGED meta
  /\ pend' = Tail(pend)
  /\ UNCHANGED <<root, next, call>>

(* The constructor on a directory with metadata: read_metadata. *)
OpenExisting ==
  /\ call = Closed
  /\ meta # NoFile
  /\ root' = meta.root
  /\ next' = meta.next
  /\ call' = None
  /\ UNCHANGED <<file, meta, pend>>

(* The constructor on a directory without a root node: a fresh tree.       *)
(* skip_inference is passed only for a new, empty directory, where it      *)
(* makes no difference.                                                    *)
OpenFresh ==
  /\ call = Closed
  /\ meta = NoFile
  /\ file[0] = NoFile
  /\ root' = 0
  /\ next' = 1
  /\ pend' = <<NodeWrite(0, EmptyLeaf), MetaWrite(0, 1)>>
  /\ call' = None
  /\ UNCHANGED <<file, meta>>

(* The constructor on node files without metadata. *)
OpenInferring ==
  /\ call = Closed
  /\ meta = NoFile
  /\ file[0] # NoFile
  /\ root' = InferRoot(file)
  /\ next' = InferNext(file)
  /\ pend' = <<MetaWrite(InferRoot(file), InferNext(file))>>
  /\ call' = None
  /\ UNCHANGED <<file, meta>>

(* The object is destroyed at the end of the program. *)
Close ==
  /\ Idle
  /\ call' = Closed
  /\ UNCHANGED <<file, meta, root, next, pend>>
----------------------------------------------------------------------------
(* insert(k, v), which MemoryLayer calls after contains(k) was false. *)
MayInsert(k) ==
  /\ Idle
  /\ ~Contained(k)
  /\ file[root] # NoFile
  /\ next + Headroom <= MaxNodeId

BeginInsert(k, v) ==
  /\ MayInsert(k)
  /\ ~Full(file[root])
  /\ call' = Inserting("descend", k, v, root, 0)
  /\ UNCHANGED <<file, meta, root, next, pend>>

(* The files written when the root is full: its id is allocated, the new   *)
(* root written, and only then made the root in the metadata.              *)
GrowWrites_MetadataFirst ==
  <<MetaWrite(root, next + 1), MetaWrite(next, next + 1),
    NodeWrite(next, NewRoot(root))>>
GrowWrites ==
  <<MetaWrite(root, next + 1), NodeWrite(next, NewRoot(root)),
    MetaWrite(next, next + 1)>>

(* The root is full: a new root above it, whose only child is then split. *)
GrowRoot(k, v) ==
  /\ MayInsert(k)
  /\ Full(file[root])
  /\ pend' = GrowWrites
  /\ root' = next
  /\ next' = next + 1
  /\ call' = Inserting("splitRoot", k, v, next, 1)
  /\ UNCHANGED <<file, meta>>

(* The files split_child writes: the id of the right half is allocated,    *)
(* then the parent p, its i-th child l and the right half are written.     *)
SplitWrites_LeftFirst(p, i, l) ==
  <<MetaWrite(root, next + 1),
    NodeWrite(l, LeftHalf(file[l], next)),
    NodeWrite(p, WithChild(file[p], i, Separator(file[l]), next)),
    NodeWrite(next, RightHalf(file[l]))>>
SplitWrites_IdLast(p, i, l) ==
  <<NodeWrite(p, WithChild(file[p], i, Separator(file[l]), next)),
    NodeWrite(l, LeftHalf(file[l], next)),
    NodeWrite(next, RightHalf(file[l])),
    MetaWrite(root, next + 1)>>
SplitWrites(p, i, l) ==
  <<MetaWrite(root, next + 1),
    NodeWrite(p, WithChild(file[p], i, Separator(file[l]), next)),
    NodeWrite(l, LeftHalf(file[l], next)),
    NodeWrite(next, RightHalf(file[l]))>>

(* The running insert goes on: in step "step", at node "at". *)
Continue(step, at, idx) == Inserting(step, call.key, call.val, at, idx)

(* split_child(call.at, call.idx). *)
SplitChild ==
  /\ Ready
  /\ call.op = "insert"
  /\ call.step \in {"split", "splitRoot"}
  /\ next <= MaxNodeId
  /\ pend' = SplitWrites(call.at, call.idx, file[call.at].kids[call.idx])
  /\ call' = Continue(IF call.step = "splitRoot" THEN "descend" ELSE "pick",
                      call.at, call.idx)
  /\ next' = next + 1
  /\ UNCHANGED <<file, meta, root>>

(* Back in insert_non_full after the split: which half takes the key. *)
PickHalf_StaysLeft ==
  /\ Ready
  /\ call.op = "insert"
  /\ call.step = "pick"
  /\ call' = Continue("descend", file[call.at].kids[call.idx], 0)
  /\ UNCHANGED <<file, meta, root, next, pend>>
PickHalf ==
  /\ Ready
  /\ call.op = "insert"
  /\ call.step = "pick"
  /\ LET n == file[call.at]
         i == IF call.idx <= Len(n.keys) /\ call.key >= n.keys[call.idx]
              THEN call.idx + 1 ELSE call.idx
     IN  call' = Continue("descend", n.kids[i], 0)
  /\ UNCHANGED <<file, meta, root, next, pend>>

(* insert_non_full at an inner node: a full child is split first. *)
DescendInsert_NeverSplits ==
  /\ Ready
  /\ call.op = "insert"
  /\ call.step = "descend"
  /\ file[call.at] # NoFile
  /\ ~file[call.at].leaf
  /\ LET c == file[call.at].kids[ChildIndex(file[call.at], call.key)]
     IN  file[c] # NoFile /\ call' = Continue("descend", c, 0)
  /\ UNCHANGED <<file, meta, root, next, pend>>
DescendInsert ==
  /\ Ready
  /\ call.op = "insert"
  /\ call.step = "descend"
  /\ file[call.at] # NoFile
  /\ ~file[call.at].leaf
  /\ LET n == file[call.at]
         i == ChildIndex(n, call.key)
         c == n.kids[i]
     IN  /\ file[c] # NoFile
         /\ call' = IF Full(file[c])
                    THEN Continue("split", call.at, i)
                    ELSE Continue("descend", c, 0)
  /\ UNCHANGED <<file, meta, root, next, pend>>

(* insert_non_full at a leaf: one file write, and the call returns. *)
InsertIntoLeaf ==
  /\ Ready
  /\ call.op = "insert"
  /\ call.step = "descend"
  /\ file[call.at] # NoFile
  /\ file[call.at].leaf
  /\ file' = [file EXCEPT ![call.at] = WithEntry(@, call.key, call.val)]
  /\ call' = None
  /\ UNCHANGED <<meta, root, next, pend>>
----------------------------------------------------------------------------
(* remove(k). *)
BeginRemove(k) ==
  /\ Idle
  /\ call' = Removing(k, root)
  /\ UNCHANGED <<file, meta, root, next, pend>>

(* remove_from_node at an inner node. *)
DescendRemove_SameNode ==
  /\ Ready
  /\ call.op = "remove"
  /\ file[call.at] # NoFile
  /\ ~file[call.at].leaf
  /\ UNCHANGED vars
DescendRemove ==
  /\ Ready
  /\ call.op = "remove"
  /\ file[call.at] # NoFile
  /\ ~file[call.at].leaf
  /\ LET n == file[call.at]
     IN  call' = Removing(call.key, n.kids[ChildIndex(n, call.key)])
  /\ UNCHANGED <<file, meta, root, next, pend>>

(* remove_from_node at a leaf: no node is ever merged or freed. *)
RemoveFromLeaf ==
  /\ Ready
  /\ call.op = "remove"
  /\ file[call.at] # NoFile
  /\ file[call.at].leaf
  /\ file' = IF HasKey(file[call.at], call.key)
             THEN [file EXCEPT ![call.at] = WithoutEntry(@, call.key)]
             ELSE file
  /\ call' = None
  /\ UNCHANGED <<meta, root, next, pend>>

(* read_node throws: the node file of the next step does not exist. *)
MissesFile ==
  \/ call.op \in {"insert", "remove"} /\ file[call.at] = NoFile
  \/ /\ call.op = "insert" /\ call.step = "descend"
     /\ file[call.at] # NoFile /\ ~file[call.at].leaf
     /\ file[file[call.at].kids[ChildIndex(file[call.at], call.key)]] = NoFile

CallThrows ==
  /\ Ready
  /\ MissesFile
  /\ call' = None
  /\ UNCHANGED <<file, meta, root, next, pend>>
----------------------------------------------------------------------------
(* The metadata file is gone when the program starts, as in a directory    *)
(* written before the file existed, which the constructor provides for.    *)
MetadataAbsent ==
  /\ call = Closed
  /\ meta # NoFile
  /\ meta' = NoFile
  /\ UNCHANGED <<file, root, next, call, pend>>

(* The process stops: the writes it has not made are never made. *)
Crash ==
  /\ call # Closed
  /\ call' = Closed
  /\ pend' = <<>>
  /\ UNCHANGED <<file, meta, root, next>>
----------------------------------------------------------------------------
Running ==
  \/ WriteFile
  \/ SplitChild \/ PickHalf \/ DescendInsert \/ InsertIntoLeaf
  \/ DescendRemove \/ RemoveFromLeaf
  \/ CallThrows

Calls ==
  \/ OpenExisting \/ OpenFresh \/ OpenInferring \/ Close
  \/ \E k \in Key :
       \/ BeginRemove(k)
       \/ \E v \in Value : BeginInsert(k, v) \/ GrowRoot(k, v)

Next == Running \/ Calls \/ MetadataAbsent

(* A single thread that runs every call to its end. *)
Spec == Init /\ [][Next]_vars

(* The same program, killed at any point; its metadata file survives. *)
CrashSpec == Init /\ [][Running \/ Calls \/ Crash]_vars

(* The thread does not stop of itself inside a call. *)
FairSpec == CrashSpec /\ WF_vars(Running)

(***************************************************************************)
(* The workloads that WithChild serves well: an insert starts only where   *)
(* every full child on its path is the last child of its parent.  Keys     *)
(* inserted in ascending order are such a workload, and so is every tree   *)
(* that has seen fewer than MaxKeys + MinKeys + 2 inserts (384) and no     *)
(* kill inside a split: when only the parent of a split is written, its    *)
(* last but one child is still full and splits again.                      *)
(***************************************************************************)
SplitsAtEdge(k) ==
  \A d \in 0 .. MaxNodeId :
    LET n == file[NodeAt(file, root, k, d)]
        i == ChildIndex(n, k)
    IN  /\ n # NoFile
        /\ ~n.leaf
        /\ file[n.kids[i]] # NoFile
        /\ Full(file[n.kids[i]])
        => i = Len(n.kids)

AtEdge == call = None /\ call'.op = "insert" => SplitsAtEdge(call'.key)

EdgeSpec      == Init /\ [][Next /\ AtEdge]_vars
EdgeCrashSpec == Init /\ [][(Running \/ Calls \/ Crash) /\ AtEdge]_vars
----------------------------------------------------------------------------
CallType ==
  {None, Closed}
    \cup [op : {"insert"}, step : {"descend", "split", "splitRoot", "pick"},
          key : Key, val : Value, at : Ids, idx : Nat]
    \cup [op : {"remove"}, key : Key, at : Ids]

(* Every variable has its type, and every node its shape: a leaf holds one *)
(* value for each key, an inner node one child more than it has keys.      *)
TypeOK ==
  /\ file \in [Ids -> Node \cup {NoFile}]
  /\ meta \in Meta \cup {NoFile}
  /\ root \in Ids
  /\ next \in Nat
  /\ call \in CallType
  /\ pend \in Seq(Write)
=============================================================================
