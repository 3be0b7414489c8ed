------------------------------ MODULE IndexMap ------------------------------
(***************************************************************************)
(* What a primary-key index promises to MemoryLayer: a finite map from     *)
(* 64-bit keys to packed row locators.  MemoryLayer looks a key up, adds   *)
(* an entry for a key it did not find, and removes the entry of a key.     *)
(* IndexCalls.tla makes a specification of these operations, which         *)
(* BTree.tla, node files and all, is shown to implement; TableStore.tla is *)
(* built on them.                                                          *)
(*                                                                         *)
(* A process that stops inside a node split can leave a parent that names  *)
(* a node file nobody wrote.  The keys routed to that file are "lost":     *)
(* contains() answers false for them, insert() and remove() throw.         *)
(***************************************************************************)
CONSTANTS Key,      \* the keys
          Value     \* the packed row locators

VARIABLES entries,  \* the map: pairs <<key, locator>>, at most one for a key
          lost      \* the keys whose path ends in a missing node file

indexVars == <<entries, lost>>

(* contains(k): every exception of the search counts as "not there". *)
Holds(k) == \E e \in entries : e[1] = k

IndexTypeOK ==
  /\ entries \subseteq Key \X Value
  /\ \A d, e \in entries : d[1] = e[1] => d = e
  /\ lost \subseteq {k \in Key : ~Holds(k)}

(* An index just created: an empty root leaf. *)
IndexInit == entries = {} /\ lost = {}

(* insert(k, v), called only after contains(k) was false. *)
Put(k, v) ==
  /\ ~Holds(k)
  /\ k \notin lost
  /\ entries' = entries \cup {<<k, v>>}
  /\ UNCHANGED lost

(* remove(k): drops the entry if there is one. *)
Delete(k) ==
  /\ k \notin lost
  /\ entries' = {e \in entries : e[1] # k}
  /\ UNCHANGED lost

(* The process stops and the keys in L can no longer be reached. *)
Lose(L) ==
  /\ entries' = {e \in entries : e[1] \notin L}
  /\ lost' = lost \cup L
=============================================================================
