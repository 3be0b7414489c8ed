------------------------------- MODULE RowSet -------------------------------
(***************************************************************************)
(* What a table promises to the user of SQL statements: a set of rows with *)
(* distinct primary keys.  INSERT refuses a key that is present and no     *)
(* other, DELETE removes the rows its clause holds for and says how many,  *)
(* SELECT returns them.  TableStore.tla is shown to implement this module. *)
(***************************************************************************)
EXTENDS TableRows, FiniteSets

VARIABLES rows,   \* the rows of the table
          reply   \* what the last statement answered

rowSetVars == <<rows, reply>>

NoReply             == [op |-> "none"]
InsertFailed(r)     == [op |-> "insertFailed", row |-> r]
InsertReply(r, ok)  == [op |-> "insert", row |-> r, ok |-> ok]
DeleteReply(p, n)   == [op |-> "delete", pred |-> p, count |-> n]
SelectReply(p, s)   == [op |-> "select", pred |-> p, rows |-> s]
ErrorReply(p)       == [op |-> "error", pred |-> p]

Selected(p) == {r \in rows : Matches(p, r)}
Present(k)  == \E r \in rows : r.pk = k

RowSetInit == rows = {} /\ reply = NoReply

InsertNew(r) ==
  /\ ~Present(r.pk)
  /\ Encodable(r)
  /\ rows' = rows \cup {r}
  /\ reply' = InsertReply(r, TRUE)

InsertRefused(r) ==
  /\ Present(r.pk)
  /\ reply' = InsertReply(r, FALSE)
  /\ UNCHANGED rows

InsertTooLong(r) ==
  /\ ~Present(r.pk)
  /\ ~Encodable(r)
  /\ reply' = InsertFailed(r)
  /\ UNCHANGED rows

DeleteRows(p) ==
  /\ WellTyped(p)
  /\ rows' = rows \ Selected(p)
  /\ reply' = DeleteReply(p, Cardinality(Selected(p)))

SelectRows(p) ==
  /\ WellTyped(p)
  /\ reply' = SelectReply(p, Selected(p))
  /\ UNCHANGED rows

RejectPredicate(p) ==
  /\ ~WellTyped(p)
  /\ reply' = ErrorReply(p)
  /\ UNCHANGED rows

RowSetNext ==
  \/ \E r \in Row : InsertNew(r) \/ InsertRefused(r) \/ InsertTooLong(r)
  \/ \E p \in Predicates : DeleteRows(p) \/ SelectRows(p) \/ RejectPredicate(p)

RowSetSpec == RowSetInit /\ [][RowSetNext]_rowSetVars
=============================================================================
