-------------------------------- MODULE Sql --------------------------------
(***************************************************************************)
(* The statements README.md shows under "SQL Syntax", each as the tokens   *)
(* it is written with and the call of the memory layer it means.  The      *)
(* types of a CREATE are written twice: with the words the lexer knows     *)
(* (Creates), and with the words README.md has for them (ReadmeCreates).   *)
(* A clause names any column and has any literal: whether the table has    *)
(* such a column, of such a type, is not asked here.                       *)
(***************************************************************************)
EXTENDS Lexer

CONSTANTS
  Schema,    \* the columns of each table the engine knows: name and type
  Names,     \* identifiers
  Values,    \* literal tokens
  MaxList    \* bound: names in a list

ASSUME Tables ==
  /\ DOMAIN Schema \subseteq Names
  /\ \A t \in DOMAIN Schema : Schema[t] \in Seq([name : Names, type : Range(DataTypeOf)])
ASSUME ListBound == MaxList \in Nat \ {0}

Column(n, ty) == [name |-> n, type |-> ty]
Flagged(c, b) == [name |-> c.name, type |-> c.type, is_index |-> b, is_primary |-> b]
Key(c)        == Flagged(c, TRUE)
NoKey(c)      == Flagged(c, FALSE)

Ident(n) == Token("IDENTIFIER", n)
Lists(S) == UNION {[1 .. n -> S] : n \in 1 .. MaxList}
ListOf(items) ==
  FlattenSeq([i \in DOMAIN items |->
                IF i = 1 THEN items[i] ELSE <<Plain("COMMA")>> \o items[i]])
Paren(tokens) == <<Plain("OPEN_PAREN")>> \o tokens \o <<Plain("CLOSE_PAREN")>>
Idents(names) == ListOf([i \in DOMAIN names |-> <<Ident(names[i])>>])
NamesIn(t)    == {Schema[t][k].name : k \in DOMAIN Schema[t]}

(* A clause is empty, or a column, an operator and a literal. *)
Clauses == {<<>>} \cup {<<Ident(n), Plain(op), v>> : n \in Names, op \in Operators, v \in Values}
Where(c) == IF c = <<>> THEN <<>> ELSE <<Plain("WHERE")>> \o c

Written(tokens, call) == [tokens |-> tokens \o <<Plain("SEMICOLON")>>, call |-> call]

SelectFrom(t, list, columns, c) ==
  Written(<<Plain("SELECT")>> \o list \o <<Plain("FROM"), Ident(t)>> \o Where(c),
          [is |-> "select", table |-> t, columns |-> columns, where |-> c])

Selects ==
  UNION {
    {SelectFrom(t, <<Plain("ASTERISK")>>, [k \in DOMAIN Schema[t] |-> Schema[t][k].name], c) :
       c \in Clauses}
      \cup {SelectFrom(t, Idents(l), l, c) : l \in Lists(NamesIn(t)), c \in Clauses} :
    t \in DOMAIN Schema}

Deletes ==
  {Written(<<Plain("DELETE"), Plain("FROM"), Ident(t)>> \o Where(c),
           [is |-> "delete", table |-> t, where |-> c]) :
     t \in DOMAIN Schema, c \in Clauses}

Drops ==
  {Written(<<Plain("DROP"), Plain("TABLE"), Ident(t)>>, [is |-> "drop", table |-> t]) :
     t \in DOMAIN Schema}

(* The first column is the primary key.  The words for the types are those *)
(* of token.hpp, where a string is a STRING.                               *)
Creates ==
  {Written(<<Plain("CREATE"), Plain("TABLE"), Ident(t)>>
             \o Paren(ListOf([i \in DOMAIN l |-> <<Ident(l[i][1]), Plain(l[i][2])>>])),
           [is |-> "create", table |-> t,
            columns |-> [i \in DOMAIN l |->
                           LET c == Column(l[i][1], DataTypeOf[l[i][2]])
                           IN  IF i = 1 THEN Key(c) ELSE NoKey(c)]]) :
     t \in Names \ DOMAIN Schema, l \in Lists(Names \X Types)}

(* The "Currently supported types" of README.md; to the lexer VARCHAR_16   *)
(* is a name.                                                              *)
VarcharWord == Ident(<<"VARCHAR", "_", "16">>)
ReadmeTypes == {Plain("INT"), VarcharWord, Plain("BOOL"), Plain("FLOAT")}
ReadmeCreates ==
  {<<Plain("CREATE"), Plain("TABLE"), Ident(t)>>
     \o Paren(ListOf([i \in DOMAIN l |-> <<Ident(l[i][1]), l[i][2]>>])) \o <<Plain("SEMICOLON")>> :
     t \in Names \ DOMAIN Schema, l \in Lists(Names \X ReadmeTypes)}

(* Every column once, in any order, and the value for each in that order.  *)
Orders(n) == {p \in [1 .. n -> 1 .. n] : \A i, j \in 1 .. n : p[i] = p[j] => i = j}
RowsOf(t) ==
  {r \in [DOMAIN Schema[t] -> Values] :
     \A k \in DOMAIN Schema[t] : LiteralType[r[k].type] = Schema[t][k].type}
Distinct(t) == \A i, j \in DOMAIN Schema[t] : Schema[t][i].name = Schema[t][j].name => i = j

Inserts ==
  UNION {
    {Written(<<Plain("INSERT"), Plain("INTO"), Ident(t)>>
               \o Paren(Idents([i \in DOMAIN p |-> Schema[t][p[i]].name]))
               \o <<Plain("VALUES")>>
               \o Paren(ListOf([i \in DOMAIN p |-> <<r[p[i]]>>])),
             [is |-> "insert", table |-> t, row |-> r]) :
       p \in Orders(Len(Schema[t])), r \in RowsOf(t)} :
    t \in {u \in DOMAIN Schema : Distinct(u)}}

Promised == Selects \cup Deletes \cup Drops \cup Creates \cup Inserts
BeginningsOf(lines) == UNION {{SubSeq(s, 1, n) : n \in 0 .. Len(s)} : s \in lines}
Lines            == {s.tokens : s \in Promised} \cup ReadmeCreates
Beginnings       == BeginningsOf({s.tokens : s \in Promised})
ReadmeBeginnings == BeginningsOf(ReadmeCreates)
=============================================================================
