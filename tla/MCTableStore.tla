---------------------------- MODULE MCTableStore ----------------------------
(***************************************************************************)
(* Small tables for TLC.                                                   *)
(***************************************************************************)
EXTENDS TableStore

Cast  == [k \in Pk |-> k]        \* static_cast<uint64_t>
Hash2 == [k \in Pk |-> k % 2]    \* hash_string_key, with a collision

Where(c, t, s) == [col |-> c, equal |-> Cardinality(s) = 1, type |-> t, test |-> s]

(* No clause, pk = k, pk >= k, val = v, a literal of the wrong type, and a *)
(* column the table does not have.                                         *)
Clauses ==
  {NullPredicate}
    \cup {Where("pk", PkType, {k}) : k \in Pk}
    \cup {Where("pk", PkType, {j \in Pk : j >= 2})}
    \cup {Where("val", ValType, {v}) : v \in Payload}
    \cup {Where("val", "FLOAT", {v}) : v \in Payload}
    \cup {Where("other", PkType, {k}) : k \in Pk}
=============================================================================
