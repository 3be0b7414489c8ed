----------------------------- MODULE Statements -----------------------------
(***************************************************************************)
(* What the engine makes of a line: query_processor.cpp, and run_select,   *)
(* run_create, run_insert, run_delete and run_drop of engine.cpp.  The     *)
(* words of the line are read one by one, by the rule of the position at.  *)
(***************************************************************************)
EXTENDS Sql

CONSTANTS
  Words,     \* words of a line, each a sequence of symbols
  Garbage    \* what is read past the end of a vector

VARIABLES
  read,      \* the words so far
  at,        \* the position in the statement
  got,       \* what the parser has collected
  outcome    \* what has become of the line

vars == <<read, at, got, outcome>>

Nothing == [is |-> "", table |-> <<>>, all |-> FALSE, names |-> <<>>, columns |-> <<>>,
            current |-> <<>>, order |-> <<>>, values |-> <<>>, where |-> <<>>]

Is(what) == [is |-> what]
Reading  == Is("reading")
Errors   == {"ParseError", "TokenizeError", "Throws", "SyntaxError", "ReferenceError",
             "LogicError", "TypeError"}

Init ==
  /\ read = <<>>
  /\ at = "first"
  /\ got = Nothing
  /\ outcome = Reading

Lex == [w \in Words |->
          IF Unterminated \in Range(Split(w)) THEN Plain("ParseError") ELSE ToToken(w)]

(* Names and Values are those the words spell. *)
ASSUME Vocabulary ==
  \A w \in Words :
    /\ Lex[w].type = "IDENTIFIER" => Lex[w].data \in Names
    /\ Lex[w].type \in Literals => Lex[w] \in Values

(* Each is an operator, a string, closed or not, or a run of other symbols. *)
ASSUME Spelling ==
  \A w \in Words :
    /\ w \in Seq(Range(w)) \ {<<>>}
    /\ \/ Len(w) = 1 /\ w[1] \in Special
       \/ w \in {<<"<", "=">>, <<">", "=">>}
       \/ w[1] = Quote /\ \A i \in 2 .. Len(w) - 1 : w[i] # Quote
       \/ w[1] # Quote /\ Range(w) \cap (Special \cup {Space}) = {}

Lexed == [i \in DOMAIN read |-> Lex[read[i]]]

(* The i of the parsers: the index of the word that is read now. *)
Index == Len(read)
----------------------------------------------------------------------------
(* A rule: at position p a token that is ok leads to position q, any other *)
(* one is an error.                                                        *)
End(o)    == outcome' = o /\ UNCHANGED <<at, got>>
Go(q, g)  == at' = q /\ got' = g /\ UNCHANGED outcome
Rule(p, ok, q, g) ==
  /\ at = p
  /\ IF ok THEN Go(q, g) ELSE End(Is("SyntaxError"))

AnIdent(t) == t.type = "IDENTIFIER"
Known(n)   == n \in DOMAIN Schema

FirstWord(t) ==
  LET start == [k \in {"SELECT", "CREATE", "INSERT", "DELETE", "DROP"} |->
                  CASE k = "SELECT" -> "select" [] k = "CREATE" -> "create"
                    [] k = "INSERT" -> "insert" [] k = "DELETE" -> "delete"
                    [] k = "DROP" -> "drop"]
  IN  Rule("first", t.type \in DOMAIN start, start[t.type], [got EXCEPT !.is = start[t.type]])

(* A table that must exist. *)
TableName(p, t, ok, q) ==
  /\ at = p
  /\ IF ~AnIdent(t) THEN End(Is("SyntaxError"))
     ELSE IF ~Known(t.data) \/ ~ok THEN End(Is("ReferenceError"))
     ELSE Go(q, [got EXCEPT !.table = t.data])

SelectWord(t) ==
  \/ Rule("select", AnIdent(t) \/ t.type = "ASTERISK",
          IF AnIdent(t) THEN "select list" ELSE "select from",
          IF AnIdent(t) THEN [got EXCEPT !.names = <<t.data>>] ELSE [got EXCEPT !.all = TRUE])
  \/ /\ Index % 2 = 0
     /\ Rule("select list", t.type \in {"FROM", "COMMA"},
             IF t.type = "FROM" THEN "select table" ELSE "select list", got)
  \/ /\ Index % 2 = 1
     /\ Rule("select list", AnIdent(t), "select list", [got EXCEPT !.names = Append(@, t.data)])
  \/ Rule("select from", t.type = "FROM", "select table", got)
  \/ TableName("select table", t, Known(t.data) => Range(got.names) \subseteq NamesIn(t.data), "where")

(* The end of SELECT and of DELETE. *)
ClauseWord(t) ==
  \/ Rule("where", t.type \in {"WHERE", "SEMICOLON"},
          IF t.type = "WHERE" THEN "column" ELSE "end", got)
  \/ Rule("column", AnIdent(t), "operator", [got EXCEPT !.where = <<t>>])
  \/ Rule("operator", t.type \in Operators, "literal", [got EXCEPT !.where = Append(@, t)])
  \/ Rule("literal", t.type \in Literals, "semicolon", [got EXCEPT !.where = Append(@, t)])

Termination(t) ==
  \/ Rule("semicolon", t.type = "SEMICOLON", "end", got)
  \/ Rule("end", FALSE, "end", got)

DeleteWord(t) ==
  \/ Rule("delete", t.type = "FROM", "delete table", got)
  \/ TableName("delete table", t, TRUE, "where")

DropWord(t) ==
  \/ Rule("drop", t.type = "TABLE", "drop table", got)
  \/ Rule("drop table", AnIdent(t), "semicolon", [got EXCEPT !.table = t.data])
----------------------------------------------------------------------------
(* add_column, with the name and the type read last. *)
AddColumn(g) ==
  LET c == Column(g.current[1], g.current[2])
  IN  [g EXCEPT !.columns = Append(@, IF Index = 6 THEN Key(c) ELSE NoKey(c))]

NameRead(t) == [got EXCEPT !.current = <<t.data>>]
TypeRead(t) == [got EXCEPT !.current = <<@[1], DataTypeOf[t.type]>>]

CreateWord(t) ==
  \/ Rule("create", t.type = "TABLE", "create table", got)
  \/ /\ at = "create table"
     /\ IF ~AnIdent(t) THEN End(Is("SyntaxError"))
        ELSE IF Known(t.data) THEN End(Is("ReferenceError"))
        ELSE Go("create open", [got EXCEPT !.table = t.data])
  \/ Rule("create open", t.type = "OPEN_PAREN", "create key", got)
  \/ Rule("create key", AnIdent(t), "create key type", NameRead(t))
  \/ Rule("create key type", t.type \in Types, "create columns", TypeRead(t))
  \/ /\ Index % 3 = 0
     /\ Rule("create columns", t.type \in {"CLOSE_PAREN", "COMMA"},
             IF t.type = "COMMA" THEN "create columns" ELSE "semicolon", AddColumn(got))
  \/ Index % 3 = 1 /\ Rule("create columns", AnIdent(t), "create columns", NameRead(t))
  \/ Index % 3 = 2 /\ Rule("create columns", t.type \in Types, "create columns", TypeRead(t))
----------------------------------------------------------------------------
(* column_index: of two columns with one name, the later. *)
ColumnIndex(t, n) == CHOOSE k \in DOMAIN Schema[t] :
                       /\ Schema[t][k].name = n
                       /\ \A j \in DOMAIN Schema[t] : Schema[t][j].name = n => j <= k

ColumnWord_Twice(t) ==
  IF ~AnIdent(t) THEN End(Is("SyntaxError"))
  ELSE IF t.data \notin NamesIn(got.table) THEN End(Is("ReferenceError"))
  ELSE Go("insert names", [got EXCEPT !.order = Append(@, ColumnIndex(got.table, t.data))])
ColumnWord(t) ==
  IF ~AnIdent(t) THEN End(Is("SyntaxError"))
  ELSE IF t.data \notin NamesIn(got.table) THEN End(Is("ReferenceError"))
  ELSE IF ColumnIndex(got.table, t.data) \in Range(got.order) THEN End(Is("LogicError"))
  ELSE Go("insert names", [got EXCEPT !.order = Append(@, ColumnIndex(got.table, t.data))])

CloseNames(t) ==
  IF t.type = "COMMA" THEN Go("insert names", got)
  ELSE IF t.type # "CLOSE_PAREN" THEN End(Is("SyntaxError"))
  ELSE IF Range(got.order) # DOMAIN Schema[got.table] THEN End(Is("LogicError"))
  ELSE Go("values", got)

(* A value is checked against the column named at its place.  One value    *)
(* too many is checked against what lies behind the names.                 *)
ValueWord_TableOrder(t) ==
  LET next == Len(got.values) + 1
      with == [got EXCEPT !.values = Append(@, t)]
  IN  IF t.type \notin Literals THEN End(Is("SyntaxError"))
      ELSE IF next > Len(got.order)
      THEN Go("insert values", with) \/ End(Is("TypeError")) \/ End(Is("crash"))
      ELSE IF LiteralType[t.type] # Schema[got.table][next].type
      THEN End(Is("TypeError"))
      ELSE Go("insert values", with)
ValueWord(t) ==
  LET next == Len(got.values) + 1
      with == [got EXCEPT !.values = Append(@, t)]
  IN  IF t.type \notin Literals THEN End(Is("SyntaxError"))
      ELSE IF next > Len(got.order)
      THEN Go("insert values", with) \/ End(Is("TypeError")) \/ End(Is("crash"))
      ELSE IF LiteralType[t.type] # Schema[got.table][got.order[next]].type
      THEN End(Is("TypeError"))
      ELSE Go("insert values", with)

InsertWord(t) ==
  \/ Rule("insert", t.type = "INTO", "insert table", got)
  \/ TableName("insert table", t, TRUE, "insert open")
  \/ Rule("insert open", t.type = "OPEN_PAREN", "insert names", got)
  \/ at = "insert names" /\ Index % 2 = 0 /\ ColumnWord(t)
  \/ at = "insert names" /\ Index % 2 = 1 /\ CloseNames(t)
  \/ Rule("values", t.type = "VALUES", "values open", got)
  \/ Rule("values open", t.type = "OPEN_PAREN", "insert values", got)
  \/ at = "insert values" /\ Index % 2 = 0 /\ ValueWord(t)
  \/ /\ Index % 2 = 1
     /\ Rule("insert values", t.type \in {"CLOSE_PAREN", "COMMA"},
             IF t.type = "COMMA" THEN "insert values" ELSE "semicolon", got)
----------------------------------------------------------------------------
(* Bound: lists have at most MaxList members, and one value too many. *)
Bounded(t) ==
  /\ at = "select list" /\ t.type = "COMMA" => Len(got.names) < MaxList
  /\ at = "create columns" /\ t.type = "COMMA" => Len(got.columns) + 1 < MaxList
  /\ at = "insert values" /\ t.type = "COMMA" => Len(got.values) <= Len(got.order)

Read(w) ==
  LET t == Lex[w]
  IN  /\ outcome = Reading
      /\ read' = Append(read, w)
      /\ IF t.type \in Errors THEN End(Is(t.type))
         ELSE /\ Bounded(t)
              /\ \/ FirstWord(t) \/ SelectWord(t) \/ CreateWord(t) \/ InsertWord(t)
                 \/ DeleteWord(t) \/ DropWord(t) \/ ClauseWord(t) \/ Termination(t)

(* ordered_columns: the row handed over has garbage where a value misses.  *)
OrderedColumns_AsWritten ==
  [k \in DOMAIN got.order |-> IF k <= Len(got.values) THEN got.values[k] ELSE Garbage]
OrderedColumns ==
  [k \in DOMAIN got.order |->
     LET i == CHOOSE j \in DOMAIN got.order : got.order[j] = k
     IN  IF i <= Len(got.values) THEN got.values[i] ELSE Garbage]

TooFewValues == got.is = "insert" /\ Len(got.values) < Len(got.order)

AllNames == [k \in DOMAIN Schema[got.table] |-> Schema[got.table][k].name]

(* What the statement asks of the tables and of the memory layer. *)
Call ==
  CASE got.is = "select" -> [is |-> "select", table |-> got.table, where |-> got.where,
                             columns |-> IF got.all THEN AllNames ELSE got.names]
    [] got.is = "delete" -> [is |-> "delete", table |-> got.table, where |-> got.where]
    [] got.is = "create" -> [is |-> "create", table |-> got.table, columns |-> got.columns]
    [] got.is = "insert" -> [is |-> "insert", table |-> got.table, row |-> OrderedColumns]
    [] got.is = "drop"   -> [is |-> "drop", table |-> got.table]

(* DROP looks for its table when all else is right. *)
EndOfLine ==
  /\ outcome = Reading
  /\ UNCHANGED <<read, at, got>>
  /\ \/ at = "first" /\ outcome' = Is("nothing")
     \/ at \notin {"first", "end"} /\ outcome' = Is("SyntaxError")
     \/ at = "end" /\ got.is = "drop" /\ ~Known(got.table) /\ outcome' = Is("ReferenceError")
     \/ at = "end" /\ TooFewValues /\ outcome' = Is("crash")
     \/ at = "end" /\ (got.is = "drop" => Known(got.table)) /\ outcome' = Call

(* run: whatever became of a line, the next one is read (by a new process  *)
(* after a crash).                                                         *)
NextLine ==
  /\ outcome # Reading
  /\ read' = <<>>
  /\ at' = "first"
  /\ got' = Nothing
  /\ outcome' = Reading

Next == (\E w \in Words : Read(w)) \/ EndOfLine \/ NextLine
Spec == Init /\ [][Next]_vars
----------------------------------------------------------------------------
Refused(o)    == o.is \in Errors
Understood(o) == o.is \in {"select", "create", "insert", "delete", "drop"}

(* What the parser collects: known tables, lists within their bound, a     *)
(* clause of three tokens, columns of the table, at most one value too     *)
(* many.                                                                   *)
TypeOK ==
  /\ read \in Seq(Words)
  /\ got.table \in Names \cup {<<>>}
  /\ got.is \in {"select", "insert", "delete"} => got.table \in DOMAIN Schema \cup {<<>>}
  /\ Len(got.names) <= MaxList /\ Len(got.columns) <= MaxList /\ Len(got.where) <= 3
  /\ \A k \in Range(got.order) : k \in DOMAIN Schema[got.table]
  /\ IsInjective(got.order)
  /\ Len(got.values) <= Len(got.order) + 1

(* A statement that reaches the memory layer with one value for each       *)
(* column is one of the statements promised, and asks for what it says:    *)
(* the columns in the order written with their types, the first one the    *)
(* key, each value in the column named at its place.                       *)
UnderstoodIsMeant ==
  Understood(outcome) /\ Len(got.values) = Len(got.order) =>
    [tokens |-> Lexed, call |-> outcome] \in Promised

(* The parsers refuse a line at a word only if no statement promised       *)
(* begins with the words read, and at its end only if it is none of them.  *)
(* Of the CREATEs of README.md the same is true with one exception, which  *)
(* stops every one that has a string column: where a type is due,          *)
(* VARCHAR_16 is refused.  (What the table makes of a clause is            *)
(* TableStore's.)                                                          *)
RefusedIsHopeless ==
  [][Refused(outcome') =>
       IF read' = read THEN Lexed \notin Lines
       ELSE /\ Lexed' \notin Beginnings
            /\ \/ Lexed' \notin ReadmeBeginnings
               \/ at \in {"create key type", "create columns"} /\ Last(Lexed') = VarcharWord]_vars

(* Spaces matter only between two words that would grow together.          *)
GrowTogether(v, w) ==
  \/ v[1] \notin Special \cup {Quote} /\ w[1] \notin Special
  \/ v \in {<<"<">>, <<">">>} /\ w[1] = "="
Tight ==
  FlattenSeq([i \in DOMAIN read |->
                IF i > 1 /\ GrowTogether(read[i - 1], read[i]) THEN <<Space>> \o read[i]
                ELSE read[i]])
Loose == FlattenSeq([i \in DOMAIN read |-> <<Space>> \o read[i] \o <<Space>>])

(* The words of a line are the same however it is spaced: no operator is   *)
(* cut in two and no two words are taken for one.                          *)
SpacingIsFree ==
  outcome.is # "ParseError" => Split(Tight) = read /\ Split(Loose) = read

(* README.md, "INSERT": "All columns must be specified (no NULL support    *)
(* yet)", which run_insert checks for the names and not for the values.    *)
EveryColumnHasItsValue ==
  outcome.is = "insert" => Len(got.values) = Len(got.order)
=============================================================================
