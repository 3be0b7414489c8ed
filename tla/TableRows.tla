----------------------------- MODULE TableRows -----------------------------
(***************************************************************************)
(* Rows and WHERE clauses, as far as MemoryLayer tells them apart: a row   *)
(* is its primary key, the first column, and the value of one more column. *)
(***************************************************************************)
EXTENDS Integers

CONSTANTS
  Pk,         \* values of the primary-key column
  Payload,    \* values of the other column
  PkType,     \* DataType of the primary-key column
  ValType,    \* DataType of the other column
  TooLong,    \* those of them that are strings of more than 16 characters
  Predicates  \* the WHERE clauses that are tried

(* DataType and VariablePredicate list the same types in different orders. *)
DataTypeIndex  == [UNDEFINED |-> 0, VARCHAR_16 |-> 1, INT |-> 2, BOOL |-> 3, FLOAT |-> 4]
PredicateIndex == [INT |-> 0, VARCHAR_16 |-> 1, BOOL |-> 2, FLOAT |-> 3, NULL |-> 4]

ColumnType == {"VARCHAR_16", "INT", "BOOL", "FLOAT"}

(* The Predicate<T> of a WHERE clause: the column, one of the table's or   *)
(* another, whether the operator is EQUAL, the T of the literal, and the   *)
(* column values the comparison holds for.  Without a clause it is         *)
(* NullPredicate, which holds for every row.                               *)
Comparison ==
  [col : {"pk", "val", "other"}, equal : BOOLEAN, type : ColumnType,
   test : SUBSET (Pk \cup Payload)]
NullPredicate == [col |-> "none", equal |-> FALSE, type |-> "NULL", test |-> {}]

ASSUME TypesAreColumnTypes == PkType \in ColumnType /\ ValType \in ColumnType
ASSUME PredicatesAreTyped == Predicates \subseteq Comparison \cup {NullPredicate}

Row == [pk : Pk, val : Payload]

(* write_to_bytes throws "String is too long" for one of the values.       *)
Encodable(row) == row.pk \notin TooLong /\ row.val \notin TooLong

Matches(p, row) ==
  CASE p.col = "pk"    -> row.pk \in p.test
    [] p.col = "val"   -> row.val \in p.test
    [] p.col = "other" -> FALSE
    [] p.col = "none"  -> TRUE

(* Neither the ReferenceError "Column ... does not exist" nor TypeError    *)
(* "Predicate type does not match column type" is thrown.                  *)
WellTyped(p) ==
  CASE p.col = "pk"    -> p.type = PkType
    [] p.col = "val"   -> p.type = ValType
    [] p.col = "other" -> FALSE
    [] p.col = "none"  -> TRUE
=============================================================================
