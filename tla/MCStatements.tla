---------------------------- MODULE MCStatements ----------------------------
(***************************************************************************)
(* A small vocabulary for TLC.                                             *)
(***************************************************************************)
EXTENDS Statements

MCLetters == {"select", "Create", "insert", "delete", "drop", "from", "into", "table", "where",
              "values", "int", "string", "order", "true", "a", "b", "t", "d", "seventeenletters",
              "VARCHAR"}
MCUpper == [l \in MCLetters |->
              CASE l = "select" -> "SELECT" [] l = "Create" -> "CREATE" [] l = "insert" -> "INSERT"
                [] l = "delete" -> "DELETE" [] l = "drop" -> "DROP" [] l = "from" -> "FROM"
                [] l = "into" -> "INTO" [] l = "table" -> "TABLE" [] l = "where" -> "WHERE"
                [] l = "values" -> "VALUES" [] l = "int" -> "INT" [] l = "string" -> "STRING"
                [] l = "order" -> "ORDER" [] l = "true" -> "TRUE" [] OTHER -> l]
MCDigits == {"1", "16", "99999999999999999"}
MCLong   == {"seventeenletters", "99999999999999999"}

(* One table, and one with two columns of the same name.                   *)
MCSchema ==
  (<<"t">> :> <<Column(<<"a">>, "INT"), Column(<<"b", "1">>, "VARCHAR_16"), Column(<<"d">>, "BOOL")>>)
    @@ (<<"d">> :> <<Column(<<"a">>, "INT"), Column(<<"a">>, "INT")>>)
Varchar == <<"VARCHAR", "_", "16">>
MCNames == {<<"t">>, <<"d">>, <<"a">>, <<"b", "1">>, Varchar}

Number == <<"-", "1">>
Float  == <<"1", ".", "1">>
Text   == <<"\"", "a", " ", ",", "\"">>
MCValues ==
  {Token("INT_LITERAL", Number), Token("FLOAT_LITERAL", Float),
   Token("STRING_LITERAL", Text), Token("BOOL_LITERAL", <<"TRUE">>)}

BadWords ==
  {<<"1", "a">>, <<"seventeenletters", ".">>, <<"\"", "seventeenletters", "\"">>,
   <<"99999999999999999">>, <<"+", ".">>, <<"\"", "a">>}

MCWords ==
  {<<l>> : l \in MCLetters \ {"b", "seventeenletters", "VARCHAR"}} \cup {<<c>> : c \in Special}
    \cup {<<"<", "=">>, <<">", "=">>, <<"b", "1">>, Varchar, Number, Float, Text} \cup BadWords
=============================================================================
