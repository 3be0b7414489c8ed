------------------------------- MODULE Lexer -------------------------------
(***************************************************************************)
(* From a line of text to tokens: src/query_processor.cpp and token.hpp.   *)
(* A text is a sequence of symbols.  A symbol is one character, or a run   *)
(* of letters or of digits, which the code never takes apart.              *)
(***************************************************************************)
EXTENDS SequencesExt

CONSTANTS
  Letters,   \* runs of letters, in the case they are typed in
  Digits,    \* runs of digits
  Long,      \* those too long: for a string, or for an int
  Upper      \* Upper[l]: the letters l in upper case

Space == " "
Quote == "\""

Keywords ==
  {"SELECT", "INSERT", "UPDATE", "DELETE", "CREATE", "ALTER", "TABLE", "DROP", "FROM",
   "INTO", "AS", "ORDER", "BY", "DESC", "ASC", "HAVING", "COUNT", "SUM", "AVG", "MAX",
   "MIN", "WHERE", "STRING", "INT", "FLOAT", "BOOL", "VALUES"}

Special == {":", ";", ",", ">", "=", "<", "*", "(", ")"}

SpecialToken ==
  [c \in Special |->
     CASE c = ":" -> "COLON"    [] c = ";" -> "SEMICOLON"  [] c = "," -> "COMMA"
       [] c = "<" -> "LESSTHAN" [] c = ">" -> "GREATERTHAN" [] c = "=" -> "EQUAL"
       [] c = "*" -> "ASTERISK" [] c = "(" -> "OPEN_PAREN" [] c = ")" -> "CLOSE_PAREN"]

Operators == {"LESSTHAN", "EQUAL", "GREATERTHAN", "LESSTHANOREQUAL", "GREATERTHANOREQUAL"}
Literals  == {"STRING_LITERAL", "INT_LITERAL", "FLOAT_LITERAL", "BOOL_LITERAL"}
Types     == {"STRING", "INT", "FLOAT", "BOOL"}

(* token_to_type, and data_index_to_data_type of the value of a literal. *)
DataTypeOf == [t \in Types |-> IF t = "STRING" THEN "VARCHAR_16" ELSE t]
LiteralType ==
  [l \in Literals |-> CASE l = "STRING_LITERAL" -> "VARCHAR_16" [] l = "INT_LITERAL" -> "INT"
                        [] l = "BOOL_LITERAL" -> "BOOL" [] l = "FLOAT_LITERAL" -> "FLOAT"]
----------------------------------------------------------------------------
(* get_token_strings.  A string that is not closed yields the empty word,  *)
(* which stands for ParseError.                                            *)
Unterminated == <<>>

(* The first position from i on where P holds, or the end. *)
First(text, i, P(_)) ==
  LET there == {j \in i .. Len(text) : P(text[j])}
  IN  IF there = {} THEN Len(text) + 1 ELSE Min(there)

EndOfString(text, i) == First(text, i + 1, LAMBDA c : c = Quote)
EndOfWord(text, i)   == First(text, i, LAMBDA c : c = Space \/ c \in Special)

WordEnd_OneCharOperators(text, i) ==
  IF text[i] = Quote THEN EndOfString(text, i)
  ELSE IF text[i] \in Special THEN i
  ELSE EndOfWord(text, i) - 1
(* The last position of the word that starts at i. *)
WordEnd(text, i) ==
  IF text[i] = Quote THEN EndOfString(text, i)
  ELSE IF text[i] \in {"<", ">"} /\ i < Len(text) /\ text[i + 1] = "=" THEN i + 1
  ELSE IF text[i] \in Special THEN i
  ELSE EndOfWord(text, i) - 1

Split(text) ==
  LET from[i \in 1 .. Len(text) + 2] ==
        IF i > Len(text) THEN <<>>
        ELSE IF text[i] = Space THEN from[i + 1]
        ELSE IF WordEnd(text, i) > Len(text) THEN <<Unterminated>>
        ELSE <<SubSeq(text, i, WordEnd(text, i))>> \o from[WordEnd(text, i) + 1]
  IN  from[1]
----------------------------------------------------------------------------
Signed(w)   == w[1] \in {"-", "+"}
Unsigned(w) == IF Signed(w) THEN Tail(w) ELSE w

IsString(w) == w[1] = Quote /\ Last(w) = Quote

IsInt(w) == Unsigned(w) # <<>> /\ \A i \in DOMAIN Unsigned(w) : Unsigned(w)[i] \in Digits

(* Digits with one point among them, or at either end, or alone after a    *)
(* sign.                                                                   *)
IsFloat(w) ==
  /\ Len(w) >= 2
  /\ \A i \in DOMAIN Unsigned(w) : Unsigned(w)[i] \in Digits \cup {"."}
  /\ Len(SelectSeq(w, LAMBDA c : c = ".")) <= 1

IsIdentifier(w) ==
  /\ w # <<>>
  /\ w[1] \in Letters \cup {"_"}
  /\ \A i \in DOMAIN w : w[i] \in Letters \cup Digits \cup {"_"}

(* A token and the value it carries. *)
Plain(t)    == [type |-> t, data |-> <<>>]
Token(t, w) == [type |-> t, data |-> w]
TokenizeError == Plain("TokenizeError")
Throws        == Plain("Throws")       \* out of stoi or stod, past process()

HasDigit(w) == \E i \in DOMAIN w : w[i] \in Digits
IsLong(w)   == \E i \in DOMAIN w : w[i] \in Long

(* to_token, for a word that Split returns. *)
ToToken(w) ==
  LET up == [i \in DOMAIN w |-> IF w[i] \in Letters THEN Upper[w[i]] ELSE w[i]]
  IN  IF Len(w) = 1 /\ w[1] \in Special THEN Plain(SpecialToken[w[1]])
      ELSE IF up \in {<<"TRUE">>, <<"FALSE">>} THEN Token("BOOL_LITERAL", up)
      ELSE IF w = <<">", "=">> THEN Plain("GREATERTHANOREQUAL")
      ELSE IF w = <<"<", "=">> THEN Plain("LESSTHANOREQUAL")
      ELSE IF Len(up) = 1 /\ up[1] \in Keywords THEN Plain(up[1])
      ELSE IF IsString(w) THEN IF IsLong(w) THEN TokenizeError ELSE Token("STRING_LITERAL", w)
      ELSE IF IsInt(w) THEN IF IsLong(w) THEN Throws ELSE Token("INT_LITERAL", w)
      ELSE IF IsFloat(w) THEN IF HasDigit(w) THEN Token("FLOAT_LITERAL", w) ELSE Throws
      ELSE IF IsIdentifier(w) THEN Token("IDENTIFIER", w)
      ELSE TokenizeError

(* process: the tokens of a line, none if a word of it is not one. *)
Tokens(text) == [i \in DOMAIN Split(text) |-> ToToken(Split(text)[i])]
=============================================================================
