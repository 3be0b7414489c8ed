------------------------------ MODULE TableMap ------------------------------
(***************************************************************************)
(* What the engine promises of its tables: a map from names to columns and *)
(* contents.  CREATE adds a name with nothing in it, DROP takes a name     *)
(* away, an INSERT adds to the pages of one table and then enters it in    *)
(* the index, starting and ending the program changes nothing, and a crash *)
(* costs one table at most.  An INSERT may end between its two changes.    *)
(***************************************************************************)
CONSTANTS Name,      \* table names
          Columns,   \* the column lists CREATE can be given
          PageIds    \* page numbers

VARIABLE db          \* the tables, by name

Contents == [cols : Columns, pages : SUBSET PageIds, indexed : BOOLEAN]

With(n, t)   == [m \in DOMAIN db \cup {n} |-> IF m = n THEN t ELSE db[m]]
Without(n)   == [m \in DOMAIN db \ {n} |-> db[m]]

(* run_create: a new table has its columns, no page and an empty index. *)
Create(n, c) ==
  /\ n \notin DOMAIN db
  /\ db' = With(n, [cols |-> c, pages |-> {}, indexed |-> FALSE])

(* run_insert: a row goes to one of the pages, or a page is made for it. *)
AddPage(n, i) ==
  /\ n \in DOMAIN db
  /\ db' = With(n, [db[n] EXCEPT !.pages = @ \cup {i}])

(* ... and its key to the index, never before the row has its page. *)
Enter(n) ==
  /\ n \in DOMAIN db
  /\ db[n].pages # {}
  /\ db' = With(n, [db[n] EXCEPT !.indexed = TRUE])

(* run_drop, or a crash that costs the table. *)
Drop(n) ==
  /\ n \in DOMAIN db
  /\ db' = Without(n)

MapNext ==
  \E n \in Name :
    \/ \E c \in Columns : Create(n, c)
    \/ \E i \in PageIds : AddPage(n, i)
    \/ Enter(n)
    \/ Drop(n)

MapSpec == db = [n \in {} |-> 0] /\ [][MapNext]_db
=============================================================================
