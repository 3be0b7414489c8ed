--------------------------- MODULE StatementsProofs ---------------------------
(***************************************************************************)
(* Theorems about Statements for any vocabulary, tables and length of      *)
(* lists: what is collected has its type, a statement that reaches the     *)
(* tables is one of those promised and means what it says, and a line has  *)
(* the same words however it is spaced.                                    *)
(***************************************************************************)
EXTENDS Statements, SequenceTheorems, FiniteSetTheorems, WellFoundedInduction, TLAPS

----------------------------------------------------------------------------
(* Sets of natural numbers have a least member: what takes the place of    *)
(* induction below.                                                        *)
LEMMA LeastOf ==
  ASSUME NEW S \in SUBSET Nat, S # {}
  PROVE  \E m \in S : \A n \in S : m <= n
<1> DEFINE Rel == {ss \in Nat \X Nat : ss[1] < ss[2]}
<1>1. IsWellFoundedOn(Rel, Nat)
  BY ONLY NatLessThanWellFounded, Zenon DEF OpToRel
<1>2. \E x \in S : \A y \in S : ~(<<y, x>> \in Rel)
  <2> HIDE DEF Rel
  <2> QED BY <1>1, WFMin
<1>3. PICK x \in S : \A y \in S : ~(<<y, x>> \in Rel)
  BY <1>2
<1>4. ASSUME NEW y \in S PROVE x <= y
  <2>1. x \in Nat /\ y \in Nat
    OBVIOUS
  <2>2. ~(y < x)
    BY <1>3, <2>1
  <2> QED BY <2>1, <2>2
<1> QED BY <1>4

(***************************************************************************)
(* FlattenSeq, of which Idents, ListOf and Paren are made: f holds the     *)
(* first m members of s, one after the other.                              *)
(***************************************************************************)
FlatRow(s, p, i) == IF i = 1 THEN s[i] ELSE p \o s[i]

IsFlat(f, s, m) == f = [i \in 1 .. m |-> FlatRow(s, f[i - 1], i)]

(* There is one for any length. *)
LEMMA FlatExists ==
  ASSUME NEW s, NEW n \in Nat
  PROVE  \E f : IsFlat(f, s, n)
<1> DEFINE P(m) == \E f : IsFlat(f, s, m)
           Bad == {m \in 0 .. n : ~P(m)}
<1> SUFFICES ASSUME Bad # {} PROVE FALSE
  OBVIOUS
<1>1. PICK m \in Bad : \A k \in Bad : m <= k
  <2>1. Bad \in SUBSET Nat
    OBVIOUS
  <2> HIDE DEF Bad
  <2> QED BY <2>1, LeastOf
<1>2. m \in Nat /\ m <= n /\ ~P(m)
  OBVIOUS
<1>3. P(0)
  <2> DEFINE f == [i \in 1 .. 0 |-> FlatRow(s, s, i)]
  <2>1. f = [i \in 1 .. 0 |-> FlatRow(s, f[i - 1], i)]
    OBVIOUS
  <2> HIDE DEF f
  <2> QED BY <2>1 DEF IsFlat
<1>4. ASSUME m # 0 PROVE FALSE
  <2>1. m - 1 \in 0 .. n /\ ~(m <= m - 1)
    BY <1>2, <1>4
  <2>2. P(m - 1)
    <3>1. m - 1 \notin Bad
      <4> HIDE DEF Bad
      <4> QED BY <1>1, <2>1
    <3> QED BY <2>1, <3>1
  <2>3. PICK f : IsFlat(f, s, m - 1)
    BY <2>2
  <2> DEFINE g == [i \in 1 .. m |-> FlatRow(s, f[i - 1], i)]
  <2>4. \A i \in 1 .. m - 1 : f[i] = FlatRow(s, f[i - 1], i)
    BY <2>3 DEF IsFlat
  <2>5. \A i \in 1 .. m - 1 : g[i] = f[i]
    BY <1>2, <2>4
  <2>6. \A i \in 1 .. m : FlatRow(s, g[i - 1], i) = FlatRow(s, f[i - 1], i)
    <3> SUFFICES ASSUME NEW i \in 1 .. m PROVE FlatRow(s, g[i - 1], i) = FlatRow(s, f[i - 1], i)
      OBVIOUS
    <3>1. CASE i = 1
      BY <3>1 DEF FlatRow
    <3>2. CASE i # 1
      <4>1. i - 1 \in 1 .. m - 1
        BY <1>2, <3>2
      <4> HIDE DEF g
      <4> QED BY <4>1, <2>5
    <3> QED BY <3>1, <3>2
  <2>7. g = [i \in 1 .. m |-> FlatRow(s, g[i - 1], i)]
    <3>1. g = [i \in 1 .. m |-> FlatRow(s, f[i - 1], i)]
      OBVIOUS
    <3> HIDE DEF g
    <3> QED BY <2>6, <3>1
  <2> HIDE DEF g
  <2> QED BY <1>2, <2>7 DEF IsFlat
<1> QED BY <1>2, <1>3, <1>4

(* Any two agree where both are defined, and hold sequences.               *)
LEMMA FlatAgrees ==
  ASSUME NEW T, NEW s \in Seq(Seq(T)), NEW m \in Nat, NEW n \in Nat, m <= n, n <= Len(s),
         NEW t \in Seq(Seq(T)), m <= Len(t), \A i \in 1 .. m : t[i] = s[i],
         NEW f, IsFlat(f, t, m), NEW g, IsFlat(g, s, n)
  PROVE  \A i \in 1 .. m : f[i] = g[i] /\ f[i] \in Seq(T)
<1> DEFINE Good(i) == f[i] = g[i] /\ f[i] \in Seq(T)
           Bad == {i \in 1 .. m : ~Good(i)}
<1> SUFFICES ASSUME Bad # {} PROVE FALSE
  OBVIOUS
<1>1. PICK i \in Bad : \A k \in Bad : i <= k
  <2>1. Bad \in SUBSET Nat
    OBVIOUS
  <2> HIDE DEF Bad
  <2> QED BY <2>1, LeastOf
<1>2. i \in 1 .. m /\ ~Good(i)
  OBVIOUS
<1>3. f[i] = FlatRow(t, f[i - 1], i) /\ g[i] = FlatRow(s, g[i - 1], i)
  <2>1. i \in 1 .. n
    BY <1>2
  <2> QED BY <1>2, <2>1 DEF IsFlat
<1>4. t[i] = s[i] /\ s[i] \in Seq(T)
  BY <1>2
<1>5. CASE i = 1
  <2>1. f[i] = s[i] /\ g[i] = s[i]
    BY <1>3, <1>4, <1>5 DEF FlatRow
  <2> QED BY <1>2, <1>4, <2>1
<1>6. CASE i # 1
  <2>1. i - 1 \in 1 .. m /\ ~(i <= i - 1)
    BY <1>2, <1>6
  <2>2. Good(i - 1)
    <3>1. i - 1 \notin Bad
      <4> HIDE DEF Bad
      <4> QED BY <1>1, <2>1
    <3> QED BY <2>1, <3>1
  <2>3. f[i] = f[i - 1] \o s[i] /\ g[i] = g[i - 1] \o s[i]
    BY <1>3, <1>4, <1>6 DEF FlatRow
  <2>4. f[i - 1] \o s[i] \in Seq(T)
    BY <1>4, <2>2, ConcatProperties
  <2> QED BY <1>2, <2>2, <2>3, <2>4
<1> QED BY <1>5, <1>6

(* One sequence flattened. *)
LEMMA FlatIs ==
  ASSUME NEW s, Len(s) \in Nat, Len(s) # 0
  PROVE  \E f : IsFlat(f, s, Len(s)) /\ FlattenSeq(s) = f[Len(s)]
<1> DEFINE f == CHOOSE f : f = [i \in 1 .. Len(s) |-> IF i = 1 THEN s[i] ELSE f[i - 1] \o s[i]]
<1>1. FlattenSeq(s) = f[Len(s)]
  BY DEF FlattenSeq
<1>2. PICK g : IsFlat(g, s, Len(s))
  BY FlatExists
<1>3. g = [i \in 1 .. Len(s) |-> IF i = 1 THEN s[i] ELSE g[i - 1] \o s[i]]
  BY <1>2 DEF IsFlat, FlatRow
<1>4. f = [i \in 1 .. Len(s) |-> IF i = 1 THEN s[i] ELSE f[i - 1] \o s[i]]
  BY <1>3, Zenon
<1> HIDE DEF f
<1>5. IsFlat(f, s, Len(s))
  BY <1>4 DEF IsFlat, FlatRow
<1> QED BY <1>1, <1>5

(* What is flattened is a sequence.                                        *)
LEMMA FlattenType ==
  ASSUME NEW T, NEW s \in Seq(Seq(T))
  PROVE  FlattenSeq(s) \in Seq(T)
<1>1. CASE Len(s) = 0
  BY <1>1 DEF FlattenSeq
<1>2. CASE Len(s) # 0
  <2>1. PICK f : IsFlat(f, s, Len(s)) /\ FlattenSeq(s) = f[Len(s)]
    BY <1>2, FlatIs
  <2>2. \A i \in 1 .. Len(s) : f[i] = f[i] /\ f[i] \in Seq(T)
    <3>1. Len(s) \in Nat /\ Len(s) <= Len(s) /\ \A i \in 1 .. Len(s) : s[i] = s[i]
      OBVIOUS
    <3>2. IsFlat(f, s, Len(s))
      BY <2>1
    <3> DEFINE n == Len(s)
    <3>3. n \in Nat /\ n <= n /\ n <= Len(s) /\ (\A i \in 1 .. n : s[i] = s[i]) /\ IsFlat(f, s, n)
      BY <3>1, <3>2
    <3> HIDE DEF n
    <3>4. \A i \in 1 .. n : f[i] = f[i] /\ f[i] \in Seq(T)
      BY <3>3, FlatAgrees
    <3> QED BY <3>4 DEF n
  <2>3. Len(s) \in 1 .. Len(s)
    BY <1>2
  <2> QED BY <2>1, <2>2, <2>3
<1> QED BY <1>1, <1>2

(* A longer sequence is flattened by adding its last member.               *)
LEMMA FlattenAppend ==
  ASSUME NEW T, NEW s \in Seq(Seq(T)), NEW x \in Seq(T)
  PROVE  FlattenSeq(Append(s, x)) = IF s = <<>> THEN x ELSE FlattenSeq(s) \o x
<1> DEFINE t == Append(s, x)
           n == Len(s)
<1>1. /\ t \in Seq(Seq(T)) /\ Len(t) = n + 1 /\ t[n + 1] = x
      /\ n \in Nat /\ \A i \in 1 .. n : s[i] = t[i]
  OBVIOUS
<1> HIDE DEF t
<1>2. PICK g : IsFlat(g, t, n + 1) /\ FlattenSeq(t) = g[n + 1]
  <2>1. Len(t) \in Nat /\ Len(t) # 0
    BY <1>1
  <2>2. \E g : IsFlat(g, t, Len(t)) /\ FlattenSeq(t) = g[Len(t)]
    BY <2>1, FlatIs
  <2> QED BY <1>1, <2>2
<1>3. g[n + 1] = FlatRow(t, g[n + 1 - 1], n + 1)
  <2>1. n + 1 \in 1 .. n + 1 /\ n \in Nat
    BY <1>1
  <2>2. g = [i \in 1 .. n + 1 |-> FlatRow(t, g[i - 1], i)]
    BY <1>2 DEF IsFlat
  <2>3. \A i \in 1 .. n + 1 : g[i] = FlatRow(t, g[i - 1], i)
    BY <2>2
  <2> HIDE DEF n
  <2> QED BY <2>1, <2>3
<1>4. CASE n = 0
  <2>1. FlattenSeq(t) = x /\ s = <<>>
    BY <1>1, <1>2, <1>3, <1>4 DEF FlatRow
  <2> QED BY <2>1 DEF t
<1>5. CASE n # 0
  <2>1. PICK f : IsFlat(f, s, n) /\ FlattenSeq(s) = f[n]
    BY <1>1, <1>5, FlatIs
  <2>2. f[n] = g[n]
    <3>1. \A i \in 1 .. n : f[i] = g[i] /\ f[i] \in Seq(T)
      <4>1. n <= n + 1 /\ n + 1 <= Len(t) /\ n <= Len(s) /\ n + 1 \in Nat
        BY <1>1
      <4>2. IsFlat(f, s, n)
        BY <2>1
      <4>3. IsFlat(g, t, n + 1)
        BY <1>2
      <4> HIDE DEF n
      <4> QED BY <1>1, <4>1, <4>2, <4>3, FlatAgrees
    <3>2. n \in 1 .. n
      BY <1>1, <1>5
    <3> QED BY <3>1, <3>2
  <2>3. n + 1 - 1 = n /\ n + 1 # 1 /\ s # <<>>
    BY <1>1, <1>5
  <2>4. g[n + 1] = g[n] \o x
    BY <1>1, <1>3, <2>3 DEF FlatRow
  <2>5. FlattenSeq(t) = FlattenSeq(s) \o x
    BY <1>2, <2>1, <2>2, <2>4
  <2> QED BY <2>3, <2>5 DEF t
<1> QED BY <1>4, <1>5

----------------------------------------------------------------------------
(***************************************************************************)
(* Tokens.  Only identifiers and literals carry a value.                   *)
(***************************************************************************)
Carrying == Literals \cup {"IDENTIFIER"}

PlainTypes ==
  Keywords \cup Operators \cup {SpecialToken[c] : c \in Special}
    \cup {"ParseError", "TokenizeError", "Throws"}

Tok == {Plain(x) : x \in PlainTypes} \cup {Ident(n) : n \in Names} \cup Values

(* The tests of to_token, one after the other. *)
LEMMA ToTokenIs ==
  ASSUME NEW w
  PROVE  \/ \E x \in Carrying : \E d : ToToken(w) = Token(x, d)
         \/ \E x \in PlainTypes : ToToken(w) = Plain(x)
<1> DEFINE up == [i \in DOMAIN w |-> IF w[i] \in Letters THEN Upper[w[i]] ELSE w[i]]
           special == Len(w) = 1 /\ w[1] \in Special
<1>1. ToToken(w) =
        IF special THEN Plain(SpecialToken[w[1]])
        ELSE IF up \in {<<"TRUE">>, <<"FALSE">>} THEN Token("BOOL_LITERAL", up)
        ELSE IF w = <<">", "=">> THEN Plain("GREATERTHANOREQUAL")
        ELSE IF w = <<"<", "=">> THEN Plain("LESSTHANOREQUAL")
        ELSE IF Len(up) = 1 /\ up[1] \in Keywords THEN Plain(up[1])
        ELSE IF IsString(w) THEN IF IsLong(w) THEN TokenizeError ELSE Token("STRING_LITERAL", w)
        ELSE IF IsInt(w) THEN IF IsLong(w) THEN Throws ELSE Token("INT_LITERAL", w)
        ELSE IF IsFloat(w) THEN IF HasDigit(w) THEN Token("FLOAT_LITERAL", w) ELSE Throws
        ELSE IF IsIdentifier(w) THEN Token("IDENTIFIER", w)
        ELSE TokenizeError
  BY DEF ToToken
<1> HIDE DEF up
<1>2. CASE special
  <2>1. SpecialToken[w[1]] \in PlainTypes /\ ToToken(w) = Plain(SpecialToken[w[1]])
    BY <1>1, <1>2 DEF PlainTypes
  <2> QED BY <2>1
<1>3. CASE ~special /\ ToToken(w) = Plain(up[1]) /\ up[1] \in Keywords
  <2>1. up[1] \in PlainTypes
    BY <1>3 DEF PlainTypes
  <2> QED BY <1>3, <2>1
<1>4. CASE ~special /\ ~(ToToken(w) = Plain(up[1]) /\ up[1] \in Keywords)
  <2> HIDE DEF special
  <2>1. ToToken(w) \in {Token("BOOL_LITERAL", up), Token("STRING_LITERAL", w), Token("INT_LITERAL", w),
                        Token("FLOAT_LITERAL", w), Token("IDENTIFIER", w)}
          \cup {Plain("GREATERTHANOREQUAL"), Plain("LESSTHANOREQUAL"), TokenizeError, Throws}
    BY <1>1, <1>4, Zenon
  <2>2. {"BOOL_LITERAL", "STRING_LITERAL", "INT_LITERAL", "FLOAT_LITERAL", "IDENTIFIER"} \subseteq Carrying
    BY DEF Carrying, Literals
  <2>3. {"GREATERTHANOREQUAL", "LESSTHANOREQUAL", "TokenizeError", "Throws"} \subseteq PlainTypes
    BY DEF PlainTypes, Operators
  <2>4. CASE ToToken(w) \in {Token("BOOL_LITERAL", up), Token("STRING_LITERAL", w), Token("INT_LITERAL", w),
                             Token("FLOAT_LITERAL", w), Token("IDENTIFIER", w)}
    BY <2>2, <2>4
  <2>5. CASE ToToken(w) \in {Plain("GREATERTHANOREQUAL"), Plain("LESSTHANOREQUAL"), TokenizeError, Throws}
    BY <2>3, <2>5 DEF TokenizeError, Throws
  <2> QED BY <2>1, <2>4, <2>5
<1> QED BY <1>2, <1>3, <1>4

(* No type is of both kinds. *)
LEMMA PlainIsPlain ==
  ASSUME NEW x \in PlainTypes
  PROVE  x \notin Carrying
<1>1. \A c \in Special : SpecialToken[c] \notin Carrying
  BY DEF Special, SpecialToken, Carrying, Literals
<1>2. \A k \in Keywords \cup Operators \cup {"ParseError", "TokenizeError", "Throws"} : k \notin Carrying
  BY DEF Keywords, Operators, Carrying, Literals
<1> QED BY <1>1, <1>2 DEF PlainTypes

(* A word of the vocabulary is the token a rule takes it for.              *)
LEMMA TokenIs ==
  ASSUME NEW w \in Words
  PROVE  /\ Lex[w] \in Tok
         /\ Lex[w].type = "IDENTIFIER" => Lex[w] = Ident(Lex[w].data) /\ Lex[w].data \in Names
         /\ Lex[w].type \in Literals => Lex[w] \in Values
         /\ Lex[w].type \notin Carrying => Lex[w] = Plain(Lex[w].type)
<1> DEFINE t == Lex[w]
<1>1. t = Plain("ParseError") \/ t = ToToken(w)
  BY DEF Lex
<1>2. \/ \E x \in Carrying : \E d : t = Token(x, d)
      \/ \E x \in PlainTypes : t = Plain(x)
  <2>1. "ParseError" \in PlainTypes
    BY DEF PlainTypes
  <2> HIDE DEF t
  <2> QED BY <1>1, <2>1, ToTokenIs
<1>3. /\ t.type = "IDENTIFIER" => t.data \in Names
      /\ t.type \in Literals => t \in Values
  BY Vocabulary
<1> HIDE DEF t
<1>4. CASE \E x \in PlainTypes : t = Plain(x)
  <2>1. PICK x \in PlainTypes : t = Plain(x)
    BY <1>4
  <2>2. t.type = x
    BY <2>1 DEF Plain
  <2>3. t.type \notin Carrying /\ t.type # "IDENTIFIER" /\ t.type \notin Literals
    BY <2>2, PlainIsPlain DEF Carrying
  <2> QED BY <2>1, <2>2, <2>3 DEF Tok, t
<1>5. CASE \E x \in Carrying : \E d : t = Token(x, d)
  <2>0. PICK x \in Carrying : \E d : t = Token(x, d)
    BY <1>5
  <2>1. PICK d : t = Token(x, d)
    BY <2>0
  <2>2. t.type = x /\ t.data = d
    BY <2>1 DEF Token
  <2>3. t.type = "IDENTIFIER" => t = Ident(t.data)
    BY <2>1, <2>2 DEF Ident
  <2>4. t \in Tok
    BY <1>3, <2>2, <2>3 DEF Tok, Carrying
  <2> QED BY <1>3, <2>2, <2>3, <2>4 DEF t
<1> QED BY <1>2, <1>4, <1>5

----------------------------------------------------------------------------
(***************************************************************************)
(* What has been said: the words read so far, told from the position of    *)
(* the parser and from what it has collected.                              *)
(***************************************************************************)
ListedNames(g) == IF g.all THEN <<Plain("ASTERISK")>> ELSE Idents(g.names)

(* SELECT and DELETE, up to the name of the table. *)
ScanHead(g) ==
  IF g.is = "delete" THEN <<Plain("DELETE"), Plain("FROM"), Ident(g.table)>>
  ELSE Append(Append(<<Plain("SELECT")>> \o ListedNames(g), Plain("FROM")), Ident(g.table))

Scanning(g) ==
  /\ g.is \in {"select", "delete"}
  /\ g.table \in DOMAIN Schema
  /\ g.is = "select" =>
       g.all \/ (g.names # <<>> /\ Range(g.names) \subseteq NamesIn(g.table))

ScanWhole(g, s) ==
  \/ g.where = <<>> /\ s = ScanHead(g)
  \/ \E n \in Names, op \in Operators, v \in Values :
       /\ g.where = <<Ident(n), Plain(op), v>>
       /\ s = Append(Append(Append(Append(ScanHead(g), Plain("WHERE")), Ident(n)), Plain(op)), v)

NamesListed(g, s) ==
  \/ Len(s) = 2 * Len(g.names) /\ s = <<Plain("SELECT")>> \o Idents(g.names)
  \/ /\ Len(s) = 2 * Len(g.names) + 1 /\ Len(g.names) < MaxList
     /\ s = Append(<<Plain("SELECT")>> \o Idents(g.names), Plain("COMMA"))

SelectSaid(p, g, s) ==
  /\ g.is = "select" /\ g.where = <<>>
  /\ p = "select" => ~g.all /\ g.names = <<>> /\ s = <<Plain("SELECT")>>
  /\ p = "select list" => ~g.all /\ g.names # <<>> /\ NamesListed(g, s)
  /\ p = "select from" => g.all /\ s = <<Plain("SELECT")>> \o ListedNames(g)
  /\ p = "select table" =>
       /\ g.all \/ g.names # <<>>
       /\ s = Append(<<Plain("SELECT")>> \o ListedNames(g), Plain("FROM"))

DeleteSaid(p, g, s) ==
  /\ g.is = "delete" /\ g.where = <<>>
  /\ p = "delete" => s = <<Plain("DELETE")>>
  /\ p = "delete table" => s = <<Plain("DELETE"), Plain("FROM")>>

ClauseSaid(p, g, s) ==
  /\ Scanning(g)
  /\ p = "where" => g.where = <<>> /\ s = ScanHead(g)
  /\ p = "column" => g.where = <<>> /\ s = Append(ScanHead(g), Plain("WHERE"))
  /\ p = "operator" =>
       \E n \in Names :
         /\ g.where = <<Ident(n)>>
         /\ s = Append(Append(ScanHead(g), Plain("WHERE")), Ident(n))
  /\ p = "literal" =>
       \E n \in Names, op \in Operators :
         /\ g.where = <<Ident(n), Plain(op)>>
         /\ s = Append(Append(Append(ScanHead(g), Plain("WHERE")), Ident(n)), Plain(op))

DropSaid(p, g, s) ==
  /\ g.is = "drop"
  /\ p = "drop" => s = <<Plain("DROP")>>
  /\ p = "drop table" => s = <<Plain("DROP"), Plain("TABLE")>>

(* CREATE: l are the names and the types of the columns.                   *)
CreateHead(g) == <<Plain("CREATE"), Plain("TABLE"), Ident(g.table), Plain("OPEN_PAREN")>>
Creating(g)   == g.is = "create" /\ g.table \in Names \ DOMAIN Schema

ColumnAt(c, i) ==
  LET d == Column(c[1], DataTypeOf[c[2]]) IN IF i = 1 THEN Key(d) ELSE NoKey(d)
ColumnsOf(l)   == [i \in DOMAIN l |-> ColumnAt(l[i], i)]
ColumnWords(l) == ListOf([i \in DOMAIN l |-> <<Ident(l[i][1]), Plain(l[i][2])>>])
ColumnLists    == {l \in Seq(Names \X Types) : Len(l) <= MaxList}

ColumnRead(g, s) ==
  \E l \in ColumnLists :
    /\ g.columns = ColumnsOf(l)
    /\ Len(l) < MaxList
    /\ \/ \E n \in Names, ty \in Types :
            /\ g.current = <<n, DataTypeOf[ty]>>
            /\ Len(s) = 6 + 3 * Len(l)
            /\ s = CreateHead(g) \o ColumnWords(Append(l, <<n, ty>>))
       \/ /\ l # <<>>
          /\ Len(s) = 4 + 3 * Len(l)
          /\ s = Append(CreateHead(g) \o ColumnWords(l), Plain("COMMA"))
       \/ \E n \in Names :
            /\ l # <<>>
            /\ g.current = <<n>>
            /\ Len(s) = 5 + 3 * Len(l)
            /\ s = Append(Append(CreateHead(g) \o ColumnWords(l), Plain("COMMA")), Ident(n))

CreateSaid(p, g, s) ==
  /\ g.is = "create"
  /\ p # "create columns" => g.columns = <<>>
  /\ p = "create" => s = <<Plain("CREATE")>>
  /\ p = "create table" => s = <<Plain("CREATE"), Plain("TABLE")>>
  /\ p \notin {"create", "create table"} => Creating(g)
  /\ p = "create open" => s = <<Plain("CREATE"), Plain("TABLE"), Ident(g.table)>>
  /\ p = "create key" => s = CreateHead(g)
  /\ p = "create key type" =>
       \E n \in Names : g.current = <<n>> /\ s = Append(CreateHead(g), Ident(n))
  /\ p = "create columns" => ColumnRead(g, s)

(* INSERT: the columns in the order of their names, and the values.        *)
InsertHead(g) == <<Plain("INSERT"), Plain("INTO"), Ident(g.table), Plain("OPEN_PAREN")>>
OrderNames(g) == [i \in DOMAIN g.order |-> Schema[g.table][g.order[i]].name]
OrderWords(g) == InsertHead(g) \o Idents(OrderNames(g))
RowHead(g) ==
  Append(Append(Append(OrderWords(g), Plain("CLOSE_PAREN")), Plain("VALUES")), Plain("OPEN_PAREN"))
ValueWords(v) == ListOf([i \in DOMAIN v |-> <<v[i]>>])

LastNamed(t, k) == \A j \in DOMAIN Schema[t] : Schema[t][j].name = Schema[t][k].name => j <= k

Ordered(g) ==
  /\ g.table \in DOMAIN Schema
  /\ g.order \in Seq(DOMAIN Schema[g.table])
  /\ IsInjective(g.order)
  /\ \A i \in DOMAIN g.order : LastNamed(g.table, g.order[i])
Named(g) == Ordered(g) /\ Range(g.order) = DOMAIN Schema[g.table]
Fitting(g) ==
  \A i \in DOMAIN g.values :
    i <= Len(g.order) => LiteralType[g.values[i].type] = Schema[g.table][g.order[i]].type

NamesRead(g, s) ==
  \/ g.order = <<>> /\ Len(s) = 4 /\ s = InsertHead(g)
  \/ g.order # <<>> /\ Len(s) = 3 + 2 * Len(g.order) /\ s = OrderWords(g)
  \/ g.order # <<>> /\ Len(s) = 4 + 2 * Len(g.order) /\ s = Append(OrderWords(g), Plain("COMMA"))

ValuesRead(g, s) ==
  \/ g.values = <<>> /\ Len(s) = 6 + 2 * Len(g.order) /\ s = RowHead(g)
  \/ /\ g.values # <<>>
     /\ Len(s) = 5 + 2 * Len(g.order) + 2 * Len(g.values)
     /\ s = RowHead(g) \o ValueWords(g.values)
  \/ /\ g.values # <<>>
     /\ Len(g.values) <= Len(g.order)
     /\ Len(s) = 6 + 2 * Len(g.order) + 2 * Len(g.values)
     /\ s = Append(RowHead(g) \o ValueWords(g.values), Plain("COMMA"))

InsertSaid(p, g, s) ==
  /\ g.is = "insert"
  /\ p # "insert values" => g.values = <<>>
  /\ p \in {"insert", "insert table", "insert open"} => g.order = <<>>
  /\ p = "insert" => s = <<Plain("INSERT")>>
  /\ p = "insert table" => s = <<Plain("INSERT"), Plain("INTO")>>
  /\ p \notin {"insert", "insert table"} => Ordered(g)
  /\ p = "insert open" => s = <<Plain("INSERT"), Plain("INTO"), Ident(g.table)>>
  /\ p = "insert names" => NamesRead(g, s)
  /\ p \in {"values", "values open", "insert values"} => g.order # <<>> /\ Named(g)
  /\ p = "values" => Len(s) = 4 + 2 * Len(g.order) /\ s = Append(OrderWords(g), Plain("CLOSE_PAREN"))
  /\ p = "values open" =>
       /\ Len(s) = 5 + 2 * Len(g.order)
       /\ s = Append(Append(OrderWords(g), Plain("CLOSE_PAREN")), Plain("VALUES"))
  /\ p = "insert values" => Fitting(g) /\ ValuesRead(g, s)

(* A statement but for its semicolon. *)
Whole(g, s) ==
  \/ Scanning(g) /\ ScanWhole(g, s)
  \/ g.is = "drop" /\ g.table \in Names /\ s = <<Plain("DROP"), Plain("TABLE"), Ident(g.table)>>
  \/ /\ Creating(g)
     /\ \E l \in ColumnLists :
          /\ l # <<>> /\ g.columns = ColumnsOf(l)
          /\ s = Append(CreateHead(g) \o ColumnWords(l), Plain("CLOSE_PAREN"))
  \/ /\ g.is = "insert" /\ Named(g) /\ Fitting(g) /\ g.values # <<>>
     /\ s = Append(RowHead(g) \o ValueWords(g.values), Plain("CLOSE_PAREN"))

InSelect == {"select", "select list", "select from", "select table"}
InDelete == {"delete", "delete table"}
InClause == {"where", "column", "operator", "literal"}
InDrop == {"drop", "drop table"}
InCreate == {"create", "create table", "create open", "create key", "create key type",
             "create columns"}
InInsert == {"insert", "insert table", "insert open", "insert names", "values", "values open",
             "insert values"}

Said(p, g, s) ==
  \/ p = "first" /\ g = Nothing /\ s = <<>>
  \/ p \in InSelect /\ SelectSaid(p, g, s)
  \/ p \in InDelete /\ DeleteSaid(p, g, s)
  \/ p \in InClause /\ ClauseSaid(p, g, s)
  \/ p \in InDrop /\ DropSaid(p, g, s)
  \/ p \in InCreate /\ CreateSaid(p, g, s)
  \/ p \in InInsert /\ InsertSaid(p, g, s)
  \/ p = "semicolon" /\ Whole(g, s)
  \/ p = "end" /\ \E w \in Seq(Tok) : Whole(g, w) /\ s = Append(w, Plain("SEMICOLON"))

(* What is collected has its type, and nothing is collected for a          *)
(* statement of another kind.                                              *)
Kinds      == {"select", "delete", "create", "insert", "drop"}
DataTypes  == Range(DataTypeOf)
ColumnType ==
  {Key(Column(n, ty)) : n \in Names, ty \in DataTypes}
    \cup {NoKey(Column(n, ty)) : n \in Names, ty \in DataTypes}

GotType ==
  [is : Kinds \cup {""}, table : Names \cup {<<>>}, all : BOOLEAN, names : Seq(Names),
   columns : Seq(ColumnType), current : Seq(Names \cup DataTypes), order : Seq(Nat),
   values : Seq(Values), where : Seq(Tok)]

GotOK(g) ==
  /\ g \in GotType
  /\ Len(g.names) <= MaxList /\ Len(g.columns) <= MaxList /\ Len(g.where) <= 3
  /\ g.is # "insert" => g.order = <<>> /\ g.values = <<>>
  /\ g.order # <<>> => Ordered(g)
  /\ Len(g.values) <= Len(g.order) + 1
  /\ g.is \in {"select", "insert", "delete"} => g.table \in DOMAIN Schema \cup {<<>>}

IInv ==
  /\ read \in Seq(Words)
  /\ GotOK(got)
  /\ outcome = Reading => Said(at, got, Lexed)

----------------------------------------------------------------------------
(***************************************************************************)
(* Sequences of tokens.                                                    *)
(***************************************************************************)
LEMMA PlainTok ==
  ASSUME NEW x \in {"SELECT", "CREATE", "INSERT", "DELETE", "DROP", "FROM", "INTO", "TABLE", "WHERE",
                    "VALUES", "COMMA", "SEMICOLON", "OPEN_PAREN", "CLOSE_PAREN", "ASTERISK"}
                     \cup Operators \cup Types
  PROVE  Plain(x) \in Tok
<1>1. {":", ";", ",", ">", "=", "<", "*", "(", ")"} = Special
  BY DEF Special
<1>2. /\ SpecialToken[","] = "COMMA" /\ SpecialToken[";"] = "SEMICOLON"
      /\ SpecialToken["("] = "OPEN_PAREN" /\ SpecialToken[")"] = "CLOSE_PAREN"
      /\ SpecialToken["*"] = "ASTERISK"
  BY <1>1 DEF SpecialToken
<1>3. {"COMMA", "SEMICOLON", "OPEN_PAREN", "CLOSE_PAREN", "ASTERISK"} \subseteq PlainTypes
  BY <1>1, <1>2 DEF PlainTypes
<1>4. {"SELECT", "CREATE", "INSERT", "DELETE", "DROP", "FROM", "INTO", "TABLE", "WHERE", "VALUES"}
        \cup Types \subseteq PlainTypes
  BY DEF PlainTypes, Keywords, Types
<1>5. x \in PlainTypes
  BY <1>3, <1>4 DEF PlainTypes
<1> QED BY <1>5 DEF Tok

(* What is added to the end is added to the last part.                     *)
Adds(a, b, x)         == Append(a \o b, x) = a \o Append(b, x)
AddsTwo(a, b, x, y)   == Append(Append(a \o b, x), y) = a \o (b \o <<x, y>>)
AddsThree(a, b, x, y, z) ==
  Append(Append(Append(a \o b, x), y), z) = a \o (b \o <<x, y, z>>)

(* One member more. *)
LEMMA AppendConcat ==
  ASSUME NEW T, NEW a \in Seq(T), NEW b \in Seq(T), NEW x \in T
  PROVE  Adds(a, b, x)
<1>1. Append(a \o b, x) \in Seq(T) /\ a \o Append(b, x) \in Seq(T)
  OBVIOUS
<1>2. Len(Append(a \o b, x)) = Len(a \o Append(b, x))
  OBVIOUS
<1>3. \A i \in 1 .. Len(Append(a \o b, x)) : Append(a \o b, x)[i] = (a \o Append(b, x))[i]
  OBVIOUS
<1> QED BY <1>1, <1>2, <1>3, SeqEqual DEF Adds

(* Short sequences grow. *)
LEMMA PairIs ==
  ASSUME NEW T, NEW x \in T, NEW y \in T
  PROVE  <<x, y>> \in Seq(T) /\ Append(<<x>>, y) = <<x, y>>
<1>1. <<x>> \in Seq(T) /\ <<x, y>> \in Seq(T)
  OBVIOUS
<1>2. Append(<<x>>, y) \in Seq(T) /\ Len(Append(<<x>>, y)) = 2 /\ Len(<<x, y>>) = 2
  BY <1>1
<1>3. \A i \in 1 .. 2 : Append(<<x>>, y)[i] = <<x, y>>[i]
  BY <1>1
<1> QED BY <1>1, <1>2, <1>3, SeqEqual

(* A pair grows to a triple. *)
LEMMA TripleIs ==
  ASSUME NEW T, NEW x \in T, NEW y \in T, NEW z \in T
  PROVE  <<x, y, z>> \in Seq(T) /\ Append(<<x, y>>, z) = <<x, y, z>>
<1>1. <<x, y>> \in Seq(T) /\ <<x, y, z>> \in Seq(T)
  OBVIOUS
<1>2. /\ Append(<<x, y>>, z) \in Seq(T)
      /\ Len(Append(<<x, y>>, z)) = 3 /\ Len(<<x, y, z>>) = 3
  BY <1>1
<1>3. \A i \in 1 .. 3 : Append(<<x, y>>, z)[i] = <<x, y, z>>[i]
  BY <1>1
<1> QED BY <1>1, <1>2, <1>3, SeqEqual

(* Two members more. *)
LEMMA AppendTwo ==
  ASSUME NEW T, NEW a \in Seq(T), NEW b \in Seq(T), NEW x \in T, NEW y \in T
  PROVE  AddsTwo(a, b, x, y)
<1>1. Append(b, x) \in Seq(T) /\ <<x>> \in Seq(T)
  OBVIOUS
<1>2. Adds(a, b, x) /\ Adds(a, Append(b, x), y) /\ Adds(b, <<x>>, y)
  BY <1>1, AppendConcat
<1>3. Append(b, x) = b \o <<x>>
  BY AppendIsConcat
<1>4. Append(<<x>>, y) = <<x, y>>
  BY PairIs
<1> QED BY <1>2, <1>3, <1>4, Zenon DEF Adds, AddsTwo

(* Three members more. *)
LEMMA AppendThree ==
  ASSUME NEW T, NEW a \in Seq(T), NEW b \in Seq(T), NEW x \in T, NEW y \in T, NEW z \in T
  PROVE  AddsThree(a, b, x, y, z)
<1>1. <<x, y>> \in Seq(T) /\ b \o <<x, y>> \in Seq(T)
  OBVIOUS
<1>2. AddsTwo(a, b, x, y) /\ Adds(a, b \o <<x, y>>, z) /\ Adds(b, <<x, y>>, z)
  BY <1>1, AppendConcat, AppendTwo
<1>3. Append(<<x, y>>, z) = <<x, y, z>>
  BY TripleIs
<1> QED BY <1>2, <1>3, Zenon DEF Adds, AddsTwo, AddsThree

(* A function on 1 .. n is a sequence of n members. *)
IsRow(c, n) == c = [i \in 1 .. n |-> c[i]]

(* Such a function has the length n. *)
LEMMA RowIsSeq ==
  ASSUME NEW T, NEW n \in Nat, NEW c, IsRow(c, n), \A i \in 1 .. n : c[i] \in T
  PROVE  c \in Seq(T) /\ Len(c) = n
<1>1. c \in [1 .. n -> T]
  BY DEF IsRow
<1>2. c \in Seq(T)
  BY <1>1
<1>3. 1 .. Len(c) = 1 .. n /\ Len(c) \in Nat
  BY <1>1, <1>2
<1>4. Len(c) = n
  BY <1>1
<1> QED BY <1>2, <1>4

(* Words of a list: the members with commas between them.                  *)
LEMMA ListType ==
  ASSUME NEW m \in Seq(Seq(Tok))
  PROVE  ListOf(m) \in Seq(Tok)
<1> DEFINE c == [i \in DOMAIN m |-> IF i = 1 THEN m[i] ELSE <<Plain("COMMA")>> \o m[i]]
<1>1. c \in Seq(Seq(Tok))
  <2>1. Plain("COMMA") \in Tok
    BY PlainTok
  <2>2. \A i \in 1 .. Len(m) : c[i] \in Seq(Tok)
    <3> SUFFICES ASSUME NEW i \in 1 .. Len(m) PROVE c[i] \in Seq(Tok)
      OBVIOUS
    <3>1. m[i] \in Seq(Tok) /\ <<Plain("COMMA")>> \in Seq(Tok)
      BY <2>1
    <3>2. <<Plain("COMMA")>> \o m[i] \in Seq(Tok)
      BY <3>1, ConcatProperties
    <3> QED BY <3>1, <3>2
  <2>3. DOMAIN c = 1 .. Len(m) /\ Len(m) \in Nat
    OBVIOUS
  <2>4. c = [i \in 1 .. Len(m) |-> c[i]]
    OBVIOUS
  <2> HIDE DEF c
  <2> QED BY <2>2, <2>3, <2>4
<1> QED BY <1>1, FlattenType DEF ListOf

(* One member more in a list: a comma and the member. *)
LEMMA ListAppend ==
  ASSUME NEW m \in Seq(Seq(Tok)), NEW x \in Seq(Tok)
  PROVE  ListOf(Append(m, x)) =
           IF m = <<>> THEN x ELSE ListOf(m) \o (<<Plain("COMMA")>> \o x)
<1> DEFINE C(n) == [i \in DOMAIN n |-> IF i = 1 THEN n[i] ELSE <<Plain("COMMA")>> \o n[i]]
           y == IF m = <<>> THEN x ELSE <<Plain("COMMA")>> \o x
<1>1. Plain("COMMA") \in Tok
  BY PlainTok
<1>2. \A i \in 1 .. Len(m) : m[i] \in Seq(Tok) /\ <<Plain("COMMA")>> \o m[i] \in Seq(Tok)
  BY <1>1, ConcatProperties
<1>3. y \in Seq(Tok)
  BY <1>1, ConcatProperties
<1>4. C(m) \in Seq(Seq(Tok)) /\ Len(C(m)) = Len(m) /\ (C(m) = <<>> <=> m = <<>>)
  <2>1. \A i \in 1 .. Len(m) : C(m)[i] \in Seq(Tok)
    BY <1>2
  <2>2. C(m) = [i \in 1 .. Len(m) |-> C(m)[i]] /\ Len(m) \in Nat /\ (m = <<>> <=> Len(m) = 0)
    OBVIOUS
  <2> DEFINE c == C(m)
             n == Len(m)
  <2>3. c = [i \in 1 .. n |-> c[i]] /\ n \in Nat /\ \A i \in 1 .. n : c[i] \in Seq(Tok)
    BY <2>1, <2>2
  <2>4. c \in Seq(Seq(Tok)) /\ Len(c) = n
    <3> HIDE DEF c, n
    <3>1. IsRow(c, n)
      BY <2>3 DEF IsRow
    <3>2. n \in Nat /\ \A i \in 1 .. n : c[i] \in Seq(Tok)
      BY <2>3
    <3> QED BY <3>1, <3>2, RowIsSeq
  <2>5. c = <<>> <=> n = 0
    <3> HIDE DEF c, n
    <3> QED BY <2>4
  <2> QED BY <2>2, <2>4, <2>5
<1>5. C(Append(m, x)) = Append(C(m), y)
  <2>1. Append(m, x) \in Seq(Seq(Tok)) /\ Len(Append(m, x)) = Len(m) + 1
    OBVIOUS
  <2>2. /\ DOMAIN C(Append(m, x)) = 1 .. Len(m) + 1
        /\ C(Append(m, x)) = [i \in 1 .. Len(m) + 1 |-> C(Append(m, x))[i]]
    BY <2>1
  <2>3. \A i \in 1 .. Len(m) + 1 : C(Append(m, x))[i] = IF i <= Len(m) THEN C(m)[i] ELSE y
    <3> SUFFICES ASSUME NEW i \in 1 .. Len(m) + 1
                 PROVE  C(Append(m, x))[i] = IF i <= Len(m) THEN C(m)[i] ELSE y
      OBVIOUS
    <3>1. i \in DOMAIN Append(m, x)
      BY <2>1
    <3>2. CASE i <= Len(m)
      <4>1. i \in 1 .. Len(m) /\ Append(m, x)[i] = m[i]
        BY <3>2
      <4> QED BY <3>1, <3>2, <4>1
    <3>3. CASE ~(i <= Len(m))
      <4>1. i = Len(m) + 1 /\ Append(m, x)[i] = x /\ (i = 1 <=> m = <<>>)
        BY <3>3
      <4> QED BY <3>1, <3>3, <4>1
    <3> QED BY <3>2, <3>3
  <2> DEFINE c == C(m)
             d == C(Append(m, x))
  <2>4. /\ c \in Seq(Seq(Tok)) /\ Len(c) = Len(m)
        /\ d = [i \in 1 .. Len(c) + 1 |-> d[i]]
        /\ \A i \in 1 .. Len(c) + 1 : d[i] = IF i <= Len(c) THEN c[i] ELSE y
    BY <1>4, <2>2, <2>3
  <2> HIDE DEF c, d, y
  <2>5. /\ Append(c, y) \in Seq(Seq(Tok)) /\ Len(Append(c, y)) = Len(c) + 1
        /\ \A i \in 1 .. Len(c) + 1 : Append(c, y)[i] = IF i <= Len(c) THEN c[i] ELSE y
    BY <1>3, <2>4
  <2>6. d \in Seq(Seq(Tok)) /\ Len(d) = Len(c) + 1
    <3> DEFINE n == Len(c) + 1
    <3>1. n \in Nat /\ IsRow(d, n)
      BY <2>4 DEF IsRow
    <3>2. ASSUME NEW i \in 1 .. n PROVE d[i] \in Seq(Tok)
      <4>1. i <= Len(c) => c[i] \in Seq(Tok)
        BY <2>4
      <4>2. d[i] = IF i <= Len(c) THEN c[i] ELSE y
        BY <2>4
      <4> QED BY <1>3, <4>1, <4>2
    <3> HIDE DEF n
    <3>3. d \in Seq(Seq(Tok)) /\ Len(d) = n
      BY <3>1, <3>2, RowIsSeq
    <3> QED BY <3>3 DEF n
  <2>7. d = Append(c, y)
    <3>1. \A i \in 1 .. Len(d) : d[i] = Append(c, y)[i]
      BY <2>4, <2>5, <2>6
    <3> QED BY <2>5, <2>6, <3>1, SeqEqual
  <2> QED BY <2>7 DEF c, d
<1>6. FlattenSeq(Append(C(m), y)) = IF C(m) = <<>> THEN y ELSE FlattenSeq(C(m)) \o y
  <2> HIDE DEF C, y
  <2> QED BY <1>3, <1>4, FlattenAppend
<1>7. \A n : ListOf(n) = FlattenSeq(C(n))
  BY DEF ListOf
<1> HIDE DEF C
<1> QED BY <1>4, <1>5, <1>6, <1>7

(* A row that is one longer. *)
Grown(c, y, d) == d = Append(c, y)

OneLonger(T, n, c, y, d) ==
  /\ n \in Nat /\ y \in T
  /\ IsRow(c, n) /\ \A i \in 1 .. n : c[i] \in T
  /\ IsRow(d, n + 1) /\ \A i \in 1 .. n : d[i] = c[i]
  /\ d[n + 1] = y

(* A longer row is the shorter one with its last member. *)
LEMMA RowGrows ==
  ASSUME NEW T, NEW n, NEW c, NEW d, NEW y, OneLonger(T, n, c, y, d)
  PROVE  Grown(c, y, d) /\ c \in Seq(T) /\ Len(c) = n
<1>0. /\ n \in Nat /\ y \in T
      /\ IsRow(c, n) /\ \A i \in 1 .. n : c[i] \in T
      /\ IsRow(d, n + 1) /\ \A i \in 1 .. n : d[i] = c[i]
      /\ d[n + 1] = y
  BY DEF OneLonger
<1>1. c \in Seq(T) /\ Len(c) = n
  BY <1>0, RowIsSeq
<1>2. \A i \in 1 .. n + 1 : d[i] \in T
  <2> SUFFICES ASSUME NEW i \in 1 .. n + 1 PROVE d[i] \in T
    OBVIOUS
  <2>1. i \in 1 .. n \/ i = n + 1
    BY <1>0
  <2> QED BY <1>0, <1>1, <2>1
<1>3. d \in Seq(T) /\ Len(d) = n + 1
  <2>1. n + 1 \in Nat
    BY <1>0
  <2> QED BY <1>0, <1>2, <2>1, RowIsSeq
<1>4. /\ Append(c, y) \in Seq(T) /\ Len(Append(c, y)) = n + 1
      /\ \A i \in 1 .. n : Append(c, y)[i] = c[i]
      /\ Append(c, y)[n + 1] = y
  BY <1>0, <1>1
<1>5. \A i \in 1 .. Len(d) : d[i] = Append(c, y)[i]
  <2> SUFFICES ASSUME NEW i \in 1 .. n + 1 PROVE d[i] = Append(c, y)[i]
    BY <1>3
  <2>1. i \in 1 .. n \/ i = n + 1
    BY <1>0
  <2> QED BY <1>0, <1>4, <2>1
<1>6. d = Append(c, y)
  BY <1>0, <1>3, <1>4, <1>5, SeqEqual
<1> QED BY <1>1, <1>6 DEF Grown

(* Lists of one word or of two words grow behind what comes before them.   *)
ListGrows(m, x) ==
  ListOf(Append(m, x)) = IF m = <<>> THEN x ELSE ListOf(m) \o (<<Plain("COMMA")>> \o x)

OneMore(a, m, x) ==
  a \o ListOf(Append(m, <<x>>)) =
    IF m = <<>> THEN Append(a, x) ELSE Append(Append(a \o ListOf(m), Plain("COMMA")), x)

TwoMore(a, m, x, y) ==
  a \o ListOf(Append(m, <<x, y>>)) =
    IF m = <<>> THEN Append(Append(a, x), y)
    ELSE Append(Append(Append(a \o ListOf(m), Plain("COMMA")), x), y)

(* A list of one word each, one member more. *)
LEMMA ListOneMore ==
  ASSUME NEW a \in Seq(Tok), NEW m \in Seq(Seq(Tok)), NEW x \in Tok
  PROVE  OneMore(a, m, x)
<1>1. Plain("COMMA") \in Tok /\ ListOf(m) \in Seq(Tok)
  BY PlainTok, ListType
<1>2. <<x>> \in Seq(Tok)
  OBVIOUS
<1>3. ListGrows(m, <<x>>)
  BY <1>2, ListAppend DEF ListGrows
<1>4. Append(a, x) = a \o <<x>>
  BY AppendIsConcat
<1> DEFINE c == Plain("COMMA")
<1> HIDE DEF c
<1>5. <<c>> \o <<x>> = <<c, x>>
  <2>1. Append(<<c>>, x) = <<c, x>> /\ <<c>> \in Seq(Tok)
    BY <1>1, PairIs DEF c
  <2>2. Append(<<c>>, x) = <<c>> \o <<x>>
    BY <2>1, AppendIsConcat
  <2> QED BY <2>1, <2>2
<1>6. AddsTwo(a, ListOf(m), c, x)
  BY <1>1, AppendTwo DEF c
<1>7. CASE m = <<>>
  <2>1. ListOf(Append(m, <<x>>)) = <<x>>
    BY <1>3, <1>7, Zenon DEF ListGrows
  <2> QED BY <1>4, <1>7, <2>1, Zenon DEF OneMore
<1>8. CASE m # <<>>
  <2>1. ListOf(Append(m, <<x>>)) = ListOf(m) \o <<c, x>>
    BY <1>3, <1>5, <1>8, Zenon DEF ListGrows, c
  <2>2. Append(Append(a \o ListOf(m), c), x) = a \o (ListOf(m) \o <<c, x>>)
    BY <1>6 DEF AddsTwo
  <2> QED BY <1>8, <2>1, <2>2, Zenon DEF OneMore, c
<1> QED BY <1>7, <1>8

(* A list of two words each, one member more. *)
LEMMA ListTwoMore ==
  ASSUME NEW a \in Seq(Tok), NEW m \in Seq(Seq(Tok)), NEW x \in Tok, NEW y \in Tok
  PROVE  TwoMore(a, m, x, y)
<1>1. Plain("COMMA") \in Tok /\ ListOf(m) \in Seq(Tok)
  BY PlainTok, ListType
<1>2. <<x>> \in Seq(Tok) /\ <<x, y>> \in Seq(Tok)
  OBVIOUS
<1>3. ListGrows(m, <<x, y>>)
  BY <1>2, ListAppend DEF ListGrows
<1>4. Append(Append(a, x), y) = a \o <<x, y>>
  <2>1. Append(a, x) = a \o <<x>> /\ Append(<<x>>, y) = <<x, y>>
    BY AppendIsConcat, PairIs
  <2>2. Adds(a, <<x>>, y)
    BY <1>2, AppendConcat
  <2> QED BY <2>1, <2>2, Zenon DEF Adds
<1> DEFINE c == Plain("COMMA")
<1> HIDE DEF c
<1>5. <<c>> \o <<x, y>> = <<c, x, y>>
  <2>1. <<c>> \in Seq(Tok) /\ <<c, x>> \in Seq(Tok) /\ Append(<<c>>, x) = <<c, x>>
    BY <1>1, PairIs DEF c
  <2>2. Append(<<c, x>>, y) = <<c, x, y>>
    BY <1>1, TripleIs DEF c
  <2>3. Append(<<c>>, x) = <<c>> \o <<x>>
    BY <2>1, AppendIsConcat
  <2>4. Adds(<<c>>, <<x>>, y)
    BY <1>2, <2>1, AppendConcat
  <2>5. Append(<<x>>, y) = <<x, y>>
    BY PairIs
  <2> QED BY <2>1, <2>2, <2>3, <2>4, <2>5, Zenon DEF Adds
<1>6. AddsThree(a, ListOf(m), c, x, y)
  BY <1>1, AppendThree DEF c
<1>7. CASE m = <<>>
  <2>1. ListOf(Append(m, <<x, y>>)) = <<x, y>>
    BY <1>3, <1>7, Zenon DEF ListGrows
  <2> QED BY <1>4, <1>7, <2>1, Zenon DEF TwoMore
<1>8. CASE m # <<>>
  <2>1. ListOf(Append(m, <<x, y>>)) = ListOf(m) \o <<c, x, y>>
    BY <1>3, <1>5, <1>8, Zenon DEF ListGrows, c
  <2>2. Append(Append(Append(a \o ListOf(m), c), x), y) = a \o (ListOf(m) \o <<c, x, y>>)
    BY <1>6 DEF AddsThree
  <2> QED BY <1>8, <2>1, <2>2, Zenon DEF TwoMore, c
<1> QED BY <1>7, <1>8

(* Names, columns and values, one more of them.                            *)
NameAdds(a, l, n) ==
  a \o Idents(Append(l, n)) =
    IF l = <<>> THEN Append(a, Ident(n)) ELSE Append(Append(a \o Idents(l), Plain("COMMA")), Ident(n))

ValueAdds(a, v, t) ==
  a \o ValueWords(Append(v, t)) =
    IF v = <<>> THEN Append(a, t) ELSE Append(Append(a \o ValueWords(v), Plain("COMMA")), t)

ColumnAdds(a, l, n, ty) ==
  a \o ColumnWords(Append(l, <<n, ty>>)) =
    IF l = <<>> THEN Append(Append(a, Ident(n)), Plain(ty))
    ELSE Append(Append(Append(a \o ColumnWords(l), Plain("COMMA")), Ident(n)), Plain(ty))

(* Identifiers in a list. *)
LEMMA IdentsGrow ==
  ASSUME NEW a \in Seq(Tok), NEW l \in Seq(Names), NEW n \in Names
  PROVE  NameAdds(a, l, n) /\ Idents(l) \in Seq(Tok)
<1> DEFINE m == [i \in DOMAIN l |-> <<Ident(l[i])>>]
           k == Append(l, n)
           d == [i \in DOMAIN k |-> <<Ident(k[i])>>]
           j == Len(l)
<1>1. /\ j \in Nat /\ DOMAIN l = 1 .. j /\ DOMAIN k = 1 .. j + 1 /\ (l = <<>> <=> j = 0)
      /\ k[j + 1] = n /\ \A i \in 1 .. j : k[i] = l[i] /\ l[i] \in Names
  OBVIOUS
<1>2. \A x \in Names : Ident(x) \in Tok
  BY DEF Tok
<1>3. \A x \in Names : <<Ident(x)>> \in Seq(Tok)
  BY <1>2
<1>4. IsRow(m, j) /\ IsRow(d, j + 1)
  <2> HIDE DEF k, j
  <2> QED BY <1>1 DEF IsRow
<1>5. /\ \A i \in 1 .. j : m[i] \in Seq(Tok) /\ d[i] = m[i]
      /\ d[j + 1] = <<Ident(n)>>
  <2>1. \A i \in 1 .. j : i \in 1 .. j + 1
    BY <1>1
  <2>2. j + 1 \in 1 .. j + 1
    BY <1>1
  <2> HIDE DEF k, j
  <2> QED BY <1>1, <1>3, <2>1, <2>2
<1>6. Grown(m, <<Ident(n)>>, d) /\ m \in Seq(Seq(Tok)) /\ Len(m) = j
  <2> DEFINE y == <<Ident(n)>>
  <2>1. j \in Nat /\ y \in Seq(Tok)
    BY <1>1, <1>3
  <2>2. IsRow(m, j)
    BY <1>4
  <2>3. \A i \in 1 .. j : m[i] \in Seq(Tok)
    BY <1>5
  <2>4. IsRow(d, j + 1)
    BY <1>4
  <2>5. \A i \in 1 .. j : d[i] = m[i]
    BY <1>5
  <2>6. d[j + 1] = y
    BY <1>5
  <2> HIDE DEF m, d, j, k, y
  <2>7. Grown(m, y, d) /\ m \in Seq(Seq(Tok)) /\ Len(m) = j
    <3>1. OneLonger(Seq(Tok), j, m, y, d)
      BY <2>1, <2>2, <2>3, <2>4, <2>5, <2>6, Zenon DEF OneLonger
    <3> QED BY <3>1, RowGrows
  <2> QED BY <2>7 DEF y
<1>7. Idents(l) = ListOf(m) /\ Idents(Append(l, n)) = ListOf(d)
  BY DEF Idents
<1>8. m = <<>> <=> l = <<>>
  <2> HIDE DEF m, d, k
  <2> QED BY <1>1, <1>6
<1> HIDE DEF m, d, k, j
<1>9. OneMore(a, m, Ident(n)) /\ ListOf(m) \in Seq(Tok)
  BY <1>2, <1>6, ListOneMore, ListType
<1> QED BY <1>6, <1>7, <1>8, <1>9, Zenon DEF Grown, OneMore, NameAdds

(* Values in a list. *)
LEMMA ValuesGrow ==
  ASSUME NEW a \in Seq(Tok), NEW v \in Seq(Values), NEW t \in Values
  PROVE  ValueAdds(a, v, t) /\ ValueWords(v) \in Seq(Tok)
<1> DEFINE m == [i \in DOMAIN v |-> <<v[i]>>]
           k == Append(v, t)
           d == [i \in DOMAIN k |-> <<k[i]>>]
           j == Len(v)
<1>1. /\ j \in Nat /\ DOMAIN v = 1 .. j /\ DOMAIN k = 1 .. j + 1 /\ (v = <<>> <=> j = 0)
      /\ k[j + 1] = t /\ \A i \in 1 .. j : k[i] = v[i] /\ v[i] \in Values
  OBVIOUS
<1>2. \A x \in Values : x \in Tok
  BY DEF Tok
<1>3. \A x \in Values : <<x>> \in Seq(Tok)
  BY <1>2
<1>4. IsRow(m, j) /\ IsRow(d, j + 1)
  <2> HIDE DEF k, j
  <2> QED BY <1>1 DEF IsRow
<1>5. /\ \A i \in 1 .. j : m[i] \in Seq(Tok) /\ d[i] = m[i]
      /\ d[j + 1] = <<t>>
  <2>1. \A i \in 1 .. j : i \in 1 .. j + 1
    BY <1>1
  <2>2. j + 1 \in 1 .. j + 1
    BY <1>1
  <2> HIDE DEF k, j
  <2> QED BY <1>1, <1>3, <2>1, <2>2
<1>6. Grown(m, <<t>>, d) /\ m \in Seq(Seq(Tok)) /\ Len(m) = j
  <2> DEFINE y == <<t>>
  <2>1. j \in Nat /\ y \in Seq(Tok)
    BY <1>1, <1>3
  <2>2. IsRow(m, j)
    BY <1>4
  <2>3. \A i \in 1 .. j : m[i] \in Seq(Tok)
    BY <1>5
  <2>4. IsRow(d, j + 1)
    BY <1>4
  <2>5. \A i \in 1 .. j : d[i] = m[i]
    BY <1>5
  <2>6. d[j + 1] = y
    BY <1>5
  <2> HIDE DEF m, d, j, k, y
  <2>7. Grown(m, y, d) /\ m \in Seq(Seq(Tok)) /\ Len(m) = j
    <3>1. OneLonger(Seq(Tok), j, m, y, d)
      BY <2>1, <2>2, <2>3, <2>4, <2>5, <2>6, Zenon DEF OneLonger
    <3> QED BY <3>1, RowGrows
  <2> QED BY <2>7 DEF y
<1>7. ValueWords(v) = ListOf(m) /\ ValueWords(Append(v, t)) = ListOf(d)
  BY DEF ValueWords
<1>8. m = <<>> <=> v = <<>>
  <2> HIDE DEF m, d, k
  <2> QED BY <1>1, <1>6
<1> HIDE DEF m, d, k, j
<1>9. OneMore(a, m, t) /\ ListOf(m) \in Seq(Tok)
  BY <1>2, <1>6, ListOneMore, ListType
<1> QED BY <1>6, <1>7, <1>8, <1>9, Zenon DEF Grown, OneMore, ValueAdds

(* Names and types of columns in a list. *)
LEMMA ColumnsGrow ==
  ASSUME NEW a \in Seq(Tok), NEW l \in Seq(Names \X Types), NEW n \in Names, NEW ty \in Types
  PROVE  ColumnAdds(a, l, n, ty) /\ ColumnWords(l) \in Seq(Tok)
<1> DEFINE W(c) == <<Ident(c[1]), Plain(c[2])>>
           m == [i \in DOMAIN l |-> W(l[i])]
           k == Append(l, <<n, ty>>)
           d == [i \in DOMAIN k |-> W(k[i])]
           j == Len(l)
<1>1. /\ j \in Nat /\ DOMAIN l = 1 .. j /\ DOMAIN k = 1 .. j + 1 /\ (l = <<>> <=> j = 0)
      /\ k[j + 1] = <<n, ty>> /\ \A i \in 1 .. j : k[i] = l[i] /\ l[i] \in Names \X Types
  <2>1. <<n, ty>> \in Names \X Types
    OBVIOUS
  <2> DEFINE c == <<n, ty>>
  <2> HIDE DEF c
  <2>2. /\ j \in Nat /\ DOMAIN l = 1 .. j /\ DOMAIN Append(l, c) = 1 .. j + 1 /\ (l = <<>> <=> j = 0)
        /\ Append(l, c)[j + 1] = c
        /\ \A i \in 1 .. j : Append(l, c)[i] = l[i] /\ l[i] \in Names \X Types
    BY <2>1 DEF c
  <2> QED BY <2>2 DEF c
<1>2. Ident(n) \in Tok /\ Plain(ty) \in Tok
  BY PlainTok DEF Tok
<1>3. \A c \in Names \X Types : W(c) \in Seq(Tok)
  <2> SUFFICES ASSUME NEW c \in Names \X Types PROVE W(c) \in Seq(Tok)
    OBVIOUS
  <2>1. Ident(c[1]) \in Tok /\ Plain(c[2]) \in Tok
    BY PlainTok DEF Tok
  <2> QED BY <2>1
<1>4. IsRow(m, j) /\ IsRow(d, j + 1)
  <2> HIDE DEF k, j, W
  <2> QED BY <1>1 DEF IsRow
<1>5. /\ \A i \in 1 .. j : m[i] \in Seq(Tok) /\ d[i] = m[i]
      /\ d[j + 1] = W(<<n, ty>>)
  <2>1. \A i \in 1 .. j : i \in 1 .. j + 1
    BY <1>1
  <2>2. j + 1 \in 1 .. j + 1
    BY <1>1
  <2> HIDE DEF k, j, W
  <2> QED BY <1>1, <1>3, <2>1, <2>2
<1>6. W(<<n, ty>>) = <<Ident(n), Plain(ty)>> /\ W(<<n, ty>>) \in Seq(Tok)
  BY <1>2
<1>7. Grown(m, <<Ident(n), Plain(ty)>>, d) /\ m \in Seq(Seq(Tok)) /\ Len(m) = j
  <2> DEFINE y == W(<<n, ty>>)
  <2>1. j \in Nat /\ y \in Seq(Tok)
    BY <1>1, <1>6
  <2>2. IsRow(m, j)
    BY <1>4
  <2>3. \A i \in 1 .. j : m[i] \in Seq(Tok)
    BY <1>5
  <2>4. IsRow(d, j + 1)
    BY <1>4
  <2>5. \A i \in 1 .. j : d[i] = m[i]
    BY <1>5
  <2>6. d[j + 1] = y
    BY <1>5
  <2> HIDE DEF m, d, j, k, y, W
  <2>7. Grown(m, y, d) /\ m \in Seq(Seq(Tok)) /\ Len(m) = j
    <3>1. OneLonger(Seq(Tok), j, m, y, d)
      BY <2>1, <2>2, <2>3, <2>4, <2>5, <2>6, Zenon DEF OneLonger
    <3> QED BY <3>1, RowGrows
  <2> QED BY <1>6, <2>7 DEF y
<1>8. ColumnWords(l) = ListOf(m) /\ ColumnWords(Append(l, <<n, ty>>)) = ListOf(d)
  BY DEF ColumnWords
<1>9. m = <<>> <=> l = <<>>
  <2> HIDE DEF m, d, k
  <2> QED BY <1>1, <1>7
<1> HIDE DEF m, d, k, j, W
<1>10. TwoMore(a, m, Ident(n), Plain(ty)) /\ ListOf(m) \in Seq(Tok)
  BY <1>2, <1>7, ListTwoMore, ListType
<1> QED BY <1>7, <1>8, <1>9, <1>10, Zenon DEF Grown, TwoMore, ColumnAdds

----------------------------------------------------------------------------
(***************************************************************************)
(* Steps of the parser.  t is the token read, s the tokens before it.      *)
(***************************************************************************)
IsToken(t) ==
  /\ t \in Tok
  /\ t.type = "IDENTIFIER" => t = Ident(t.data) /\ t.data \in Names
  /\ t.type \in Literals => t \in Values
  /\ t.type \notin Carrying => t = Plain(t.type)

Follows(q, g, s, t) == GotOK(g) /\ Said(q, g, Append(s, t))
Advances(s, t)      == GotOK(got') /\ (outcome' = Reading => Said(at', got', Append(s, t)))

(* A token that carries nothing is told by its type.                       *)
LEMMA PlainToken ==
  ASSUME NEW t, IsToken(t),
         t.type \in {"SELECT", "CREATE", "INSERT", "DELETE", "DROP", "FROM", "INTO", "TABLE", "WHERE",
                     "VALUES", "COMMA", "SEMICOLON", "OPEN_PAREN", "CLOSE_PAREN", "ASTERISK"}
                      \cup Operators \cup Types
  PROVE  t = Plain(t.type)
BY DEF IsToken, Operators, Types, Carrying, Literals

(* An error ends the line, and nothing is asked of what was said.          *)
LEMMA Ends ==
  ASSUME NEW s, NEW t, NEW e \in Errors \cup {"crash"}, GotOK(got), End(Is(e))
  PROVE  Advances(s, t)
<1>1. got' = got /\ outcome' = Is(e)
  BY DEF End
<1>2. Is(e).is = e /\ Reading.is = "reading"
  BY DEF Is, Reading
<1>3. e # "reading"
  BY DEF Errors
<1>4. outcome' # Reading
  BY <1>1, <1>2, <1>3
<1> QED BY <1>1, <1>4 DEF Advances

(* The errors the rules end with. *)
LEMMA EndsHere ==
  ASSUME NEW s, NEW t, GotOK(got),
         \/ End(Is("SyntaxError")) \/ End(Is("ReferenceError")) \/ End(Is("LogicError"))
         \/ End(Is("TypeError")) \/ End(Is("crash"))
  PROVE  Advances(s, t)
<1>1. {"SyntaxError", "ReferenceError", "LogicError", "TypeError", "crash"} \subseteq Errors \cup {"crash"}
  BY DEF Errors
<1> QED BY <1>1, Ends

(* A rule that is kept leads on. *)
LEMMA Goes ==
  ASSUME NEW s, NEW t, NEW q, NEW g, Go(q, g), Follows(q, g, s, t)
  PROVE  Advances(s, t)
BY DEF Go, Follows, Advances

(* What was said at a position of each kind.                               *)
LEMMA SaidWhere ==
  ASSUME NEW p, NEW g, NEW s, Said(p, g, s)
  PROVE  /\ p = "first" => g = Nothing /\ s = <<>>
         /\ p \in InSelect => SelectSaid(p, g, s)
         /\ p \in InDelete => DeleteSaid(p, g, s)
         /\ p \in InClause => ClauseSaid(p, g, s)
         /\ p \in InDrop => DropSaid(p, g, s)
         /\ p \in InCreate => CreateSaid(p, g, s)
         /\ p \in InInsert => InsertSaid(p, g, s)
         /\ p = "semicolon" => Whole(g, s)
         /\ p = "end" => \E w \in Seq(Tok) : Whole(g, w) /\ s = Append(w, Plain("SEMICOLON"))
<1>1. CASE p = "first"
  BY <1>1 DEF Said, InSelect, InDelete, InClause, InDrop, InCreate, InInsert
<1>2. CASE p \in InSelect
  BY <1>2 DEF Said, InSelect, InDelete, InClause, InDrop, InCreate, InInsert
<1>3. CASE p \in InDelete
  BY <1>3 DEF Said, InSelect, InDelete, InClause, InDrop, InCreate, InInsert
<1>4. CASE p \in InClause
  BY <1>4 DEF Said, InSelect, InDelete, InClause, InDrop, InCreate, InInsert
<1>5. CASE p \in InDrop
  BY <1>5 DEF Said, InSelect, InDelete, InClause, InDrop, InCreate, InInsert
<1>6. CASE p \in InCreate
  BY <1>6 DEF Said, InSelect, InDelete, InClause, InDrop, InCreate, InInsert
<1>7. CASE p \in InInsert
  BY <1>7 DEF Said, InSelect, InDelete, InClause, InDrop, InCreate, InInsert
<1>8. CASE p = "semicolon"
  BY <1>8 DEF Said, InSelect, InDelete, InClause, InDrop, InCreate, InInsert
<1>9. CASE p = "end"
  BY <1>9 DEF Said, InSelect, InDelete, InClause, InDrop, InCreate, InInsert
<1> QED BY <1>1, <1>2, <1>3, <1>4, <1>5, <1>6, <1>7, <1>8, <1>9 DEF Said

(* Nothing is collected at the start. *)
LEMMA NothingOK == GotOK(Nothing)
<1>1. MaxList \in Nat
  BY ListBound
<1> QED BY <1>1 DEF GotOK, GotType, Nothing

(* The first word of a statement. *)
LEMMA FirstStep ==
  ASSUME NEW s, NEW t, IsToken(t), GotOK(got), Said(at, got, s), FirstWord(t)
  PROVE  Advances(s, t)
<1> DEFINE start == [k \in {"SELECT", "CREATE", "INSERT", "DELETE", "DROP"} |->
                       CASE k = "SELECT" -> "select" [] k = "CREATE" -> "create"
                         [] k = "INSERT" -> "insert" [] k = "DELETE" -> "delete"
                         [] k = "DROP" -> "drop"]
           k == t.type
           g == [got EXCEPT !.is = start[k]]
<1>1. /\ at = "first"
      /\ k \in {"SELECT", "CREATE", "INSERT", "DELETE", "DROP"} => Go(start[k], g)
      /\ k \notin {"SELECT", "CREATE", "INSERT", "DELETE", "DROP"} => End(Is("SyntaxError"))
  BY DEF FirstWord, Rule
<1>2. got = Nothing /\ s = <<>>
  BY <1>1, SaidWhere
<1>3. ASSUME k \in {"SELECT", "CREATE", "INSERT", "DELETE", "DROP"} PROVE Follows(start[k], g, s, t)
  <2>1. /\ k = "SELECT" => start[k] = "select"
        /\ k = "CREATE" => start[k] = "create"
        /\ k = "INSERT" => start[k] = "insert"
        /\ k = "DELETE" => start[k] = "delete"
        /\ k = "DROP" => start[k] = "drop"
    BY <1>3
  <2>2. t = Plain(k)
    BY <1>3, PlainToken
  <2>3. Append(s, t) = <<Plain(k)>>
    BY <1>2, <2>2
  <2> HIDE DEF start
  <2>4. start[k] \in Kinds
    BY <1>3, <2>1 DEF Kinds
  <2>5. /\ g.is = start[k] /\ g.all = FALSE /\ g.names = <<>> /\ g.columns = <<>> /\ g.where = <<>>
        /\ g.order = <<>> /\ g.values = <<>>
    BY <1>2 DEF Nothing
  <2>6. GotOK(g)
    <3>1. MaxList \in Nat
      BY ListBound
    <3> QED BY <1>2, <2>4, <3>1 DEF GotOK, GotType, Nothing
  <2> HIDE DEF g, k
  <2>7. CASE k = "SELECT"
    BY <2>1, <2>3, <2>5, <2>6, <2>7 DEF Follows, Said, InSelect, SelectSaid
  <2>8. CASE k = "CREATE"
    BY <2>1, <2>3, <2>5, <2>6, <2>8 DEF Follows, Said, InCreate, CreateSaid
  <2>9. CASE k = "INSERT"
    BY <2>1, <2>3, <2>5, <2>6, <2>9 DEF Follows, Said, InInsert, InsertSaid
  <2>10. CASE k = "DELETE"
    BY <2>1, <2>3, <2>5, <2>6, <2>10 DEF Follows, Said, InDelete, DeleteSaid
  <2>11. CASE k = "DROP"
    BY <2>1, <2>3, <2>5, <2>6, <2>11 DEF Follows, Said, InDrop, DropSaid
  <2> QED BY <1>3, <2>7, <2>8, <2>9, <2>10, <2>11 DEF k
<1> HIDE DEF start, g, k
<1> QED BY <1>1, <1>3, EndsHere, Goes

(* What is collected keeps its type, one part after the other.             *)
LEMMA SetNames ==
  ASSUME NEW g, GotOK(g), NEW v \in Seq(Names), Len(v) <= MaxList
  PROVE  GotOK([g EXCEPT !.names = v])
BY DEF GotOK, GotType, Ordered

(* All columns. *)
LEMMA SetAll ==
  ASSUME NEW g, GotOK(g)
  PROVE  GotOK([g EXCEPT !.all = TRUE])
BY DEF GotOK, GotType, Ordered

(* The table. *)
LEMMA SetTable ==
  ASSUME NEW g, GotOK(g), NEW n \in Names, g.order = <<>>,
         g.is \in {"select", "insert", "delete"} => n \in DOMAIN Schema
  PROVE  GotOK([g EXCEPT !.table = n])
BY DEF GotOK, GotType

(* The clause. *)
LEMMA SetWhere ==
  ASSUME NEW g, GotOK(g), NEW v \in Seq(Tok), Len(v) <= 3
  PROVE  GotOK([g EXCEPT !.where = v])
BY DEF GotOK, GotType, Ordered

(* The column that is being read. *)
LEMMA SetCurrent ==
  ASSUME NEW g, GotOK(g), NEW v \in Seq(Names \cup DataTypes)
  PROVE  GotOK([g EXCEPT !.current = v])
BY DEF GotOK, GotType, Ordered

(* The columns of CREATE. *)
LEMMA SetColumns ==
  ASSUME NEW g, GotOK(g), NEW v \in Seq(ColumnType), Len(v) <= MaxList
  PROVE  GotOK([g EXCEPT !.columns = v])
BY DEF GotOK, GotType, Ordered

(* The columns INSERT names. *)
LEMMA SetOrder ==
  ASSUME NEW g, GotOK(g), g.is = "insert", g.values = <<>>, NEW v \in Seq(Nat),
         Ordered([g EXCEPT !.order = v])
  PROVE  GotOK([g EXCEPT !.order = v])
<1> DEFINE h == [g EXCEPT !.order = v]
<1>1. /\ h \in GotType /\ h.order = v
      /\ h.is = g.is /\ h.table = g.table /\ h.names = g.names /\ h.columns = g.columns
      /\ h.where = g.where /\ h.values = <<>>
  BY DEF GotOK, GotType
<1>2. Ordered(h)
  OBVIOUS
<1>3. Len(v) \in Nat /\ Len(<<>>) = 0
  OBVIOUS
<1> HIDE DEF h
<1>4. GotOK(h)
  BY <1>1, <1>2, <1>3 DEF GotOK
<1> QED BY <1>4 DEF h

(* The values of INSERT. *)
LEMMA SetValues ==
  ASSUME NEW g, GotOK(g), g.is = "insert", NEW v \in Seq(Values), Len(v) <= Len(g.order) + 1
  PROVE  GotOK([g EXCEPT !.values = v])
BY DEF GotOK, GotType, Ordered

(* The types of the parts. *)
LEMMA GotParts ==
  ASSUME NEW g, GotOK(g)
  PROVE  /\ g.is \in Kinds \cup {""} /\ g.all \in BOOLEAN
         /\ g.names \in Seq(Names) /\ g.columns \in Seq(ColumnType)
         /\ g.current \in Seq(Names \cup DataTypes) /\ g.order \in Seq(Nat)
         /\ g.values \in Seq(Values) /\ g.where \in Seq(Tok)
BY DEF GotOK, GotType

(* An index is even or odd, and not both.                                  *)
LEMMA Parity ==
  ASSUME NEW n \in Nat
  PROVE  (2 * n) % 2 = 0 /\ (2 * n + 1) % 2 = 1
OBVIOUS

(* An index has one rest of the division by three. *)
LEMMA Thirds ==
  ASSUME NEW n \in Nat
  PROVE  (3 * n) % 3 = 0 /\ (3 * n + 1) % 3 = 1 /\ (3 * n + 2) % 3 = 2
OBVIOUS

----------------------------------------------------------------------------
(* Positions and what must have been said there, the other way round.      *)
LEMMA SaidAgain ==
  ASSUME NEW p, NEW g, NEW s,
         \/ p \in InSelect /\ SelectSaid(p, g, s)
         \/ p \in InDelete /\ DeleteSaid(p, g, s)
         \/ p \in InClause /\ ClauseSaid(p, g, s)
         \/ p \in InDrop /\ DropSaid(p, g, s)
         \/ p \in InCreate /\ CreateSaid(p, g, s)
         \/ p \in InInsert /\ InsertSaid(p, g, s)
         \/ p = "semicolon" /\ Whole(g, s)
  PROVE  Said(p, g, s)
BY DEF Said

(* SELECT, up to the name of the table. *)
LEMMA SelectStep ==
  ASSUME NEW s \in Seq(Tok), NEW t, IsToken(t), GotOK(got), Said(at, got, s), Index = Len(s),
         Bounded(t), SelectWord(t)
  PROVE  Advances(s, t)
<1>1. got.names \in Seq(Names) /\ MaxList \in Nat \ {0} /\ got.all \in BOOLEAN
  BY ListBound, GotParts
<1>2. AnIdent(t) => t = Ident(t.data) /\ t.data \in Names
  BY DEF AnIdent, IsToken
<1>3. Plain("SELECT") \in Tok /\ <<Plain("SELECT")>> \in Seq(Tok)
  <2>1. Plain("SELECT") \in Tok
    BY PlainTok
  <2> QED BY <2>1
<1>4. CASE Rule("select", AnIdent(t) \/ t.type = "ASTERISK",
                IF AnIdent(t) THEN "select list" ELSE "select from",
                IF AnIdent(t) THEN [got EXCEPT !.names = <<t.data>>] ELSE [got EXCEPT !.all = TRUE])
  <2>1. /\ at = "select"
        /\ AnIdent(t) => Go("select list", [got EXCEPT !.names = <<t.data>>])
        /\ ~AnIdent(t) /\ t.type = "ASTERISK" => Go("select from", [got EXCEPT !.all = TRUE])
        /\ ~(AnIdent(t) \/ t.type = "ASTERISK") => End(Is("SyntaxError"))
    BY <1>4 DEF Rule
  <2>2. /\ got.is = "select" /\ got.where = <<>> /\ ~got.all /\ got.names = <<>>
        /\ s = <<Plain("SELECT")>>
    <3>1. SelectSaid("select", got, s)
      BY <2>1, SaidWhere DEF InSelect
    <3> QED BY <3>1, Zenon DEF SelectSaid
  <2>3. CASE AnIdent(t)
    <3> DEFINE h == [got EXCEPT !.names = <<t.data>>]
    <3>1. <<t.data>> \in Seq(Names) /\ Len(<<t.data>>) = 1 /\ <<t.data>> # <<>>
      BY <1>2, <2>3
    <3>2. GotOK(h)
      <4>1. 1 <= MaxList
        BY <1>1
      <4> QED BY <3>1, <4>1, SetNames
    <3>3. h.is = "select" /\ h.where = <<>> /\ h.all = FALSE /\ h.names = <<t.data>>
      BY <1>1, <2>2 DEF GotOK, GotType
    <3>4. Append(s, t) = <<Plain("SELECT")>> \o Idents(<<t.data>>)
      <4>1. NameAdds(<<Plain("SELECT")>>, <<>>, t.data)
        <5>1. <<>> \in Seq(Names)
          OBVIOUS
        <5> QED BY <1>2, <1>3, <2>3, <5>1, IdentsGrow
      <4>2. Append(<<>>, t.data) = <<t.data>>
        OBVIOUS
      <4> QED BY <1>2, <2>2, <2>3, <4>1, <4>2, Zenon DEF NameAdds
    <3>5. Len(Append(s, t)) = 2
      BY <2>2
    <3> HIDE DEF h
    <3>6. SelectSaid("select list", h, Append(s, t))
      BY <3>1, <3>3, <3>4, <3>5 DEF SelectSaid, NamesListed
    <3>7. Follows("select list", h, s, t)
      BY <3>2, <3>6, SaidAgain DEF Follows, InSelect
    <3> QED BY <2>1, <2>3, <3>7, Goes DEF h
  <2>4. CASE ~AnIdent(t) /\ t.type = "ASTERISK"
    <3> DEFINE h == [got EXCEPT !.all = TRUE]
    <3>1. GotOK(h) /\ h.is = "select" /\ h.where = <<>> /\ h.all = TRUE
      <4>1. GotOK(h)
        BY SetAll
      <4> QED BY <2>2, <4>1 DEF GotOK, GotType
    <3>2. t = Plain("ASTERISK")
      BY <2>4, PlainToken
    <3>3. Append(s, t) = <<Plain("SELECT")>> \o <<Plain("ASTERISK")>>
      BY <2>2, <3>2
    <3> HIDE DEF h
    <3>4. SelectSaid("select from", h, Append(s, t))
      BY <3>1, <3>3 DEF SelectSaid, ListedNames
    <3>5. Follows("select from", h, s, t)
      BY <3>1, <3>4, SaidAgain DEF Follows, InSelect
    <3> QED BY <2>1, <2>4, <3>5, Goes DEF h
  <2> QED BY <2>1, <2>3, <2>4, EndsHere
<1>5. CASE /\ Index % 2 = 0
           /\ Rule("select list", t.type \in {"FROM", "COMMA"},
                   IF t.type = "FROM" THEN "select table" ELSE "select list", got)
  <2>1. /\ at = "select list"
        /\ t.type = "FROM" => Go("select table", got)
        /\ t.type = "COMMA" => Go("select list", got)
        /\ t.type \notin {"FROM", "COMMA"} => End(Is("SyntaxError"))
    BY <1>5 DEF Rule
  <2>2. /\ got.is = "select" /\ got.where = <<>> /\ ~got.all /\ got.names # <<>>
        /\ NamesListed(got, s)
    BY <2>1, SaidWhere DEF InSelect, SelectSaid
  <2>3. Len(s) = 2 * Len(got.names) /\ s = <<Plain("SELECT")>> \o Idents(got.names)
    <3>1. Len(got.names) \in Nat /\ Len(s) % 2 = 0
      <4>1. Index % 2 = 0
        BY <1>5
      <4> QED BY <1>1, <4>1
    <3>2. Len(s) # 2 * Len(got.names) + 1
      BY <3>1, Parity
    <3> QED BY <2>2, <3>2 DEF NamesListed
  <2>4. ASSUME t.type = "FROM" PROVE Follows("select table", got, s, t)
    <3>1. t = Plain("FROM")
      BY <2>4, PlainToken
    <3>2. SelectSaid("select table", got, Append(s, t))
      BY <2>2, <2>3, <3>1 DEF SelectSaid, ListedNames
    <3> QED BY <3>2, SaidAgain DEF Follows, InSelect
  <2>5. ASSUME t.type = "COMMA" PROVE Follows("select list", got, s, t)
    <3>1. t = Plain("COMMA")
      BY <2>5, PlainToken
    <3>2. Len(got.names) < MaxList
      BY <2>1, <2>5 DEF Bounded
    <3>3. Len(Append(s, t)) = 2 * Len(got.names) + 1
      <4>1. Len(Append(s, t)) = Len(s) + 1
        OBVIOUS
      <4> QED BY <2>3, <4>1
    <3>4. SelectSaid("select list", got, Append(s, t))
      BY <2>2, <2>3, <3>1, <3>2, <3>3 DEF SelectSaid, NamesListed
    <3> QED BY <3>4, SaidAgain DEF Follows, InSelect
  <2> QED BY <2>1, <2>4, <2>5, EndsHere, Goes
<1>6. CASE /\ Index % 2 = 1
           /\ Rule("select list", AnIdent(t), "select list", [got EXCEPT !.names = Append(@, t.data)])
  <2> DEFINE l == Append(got.names, t.data)
             h == [got EXCEPT !.names = l]
  <2>1. /\ at = "select list"
        /\ AnIdent(t) => Go("select list", h)
        /\ ~AnIdent(t) => End(Is("SyntaxError"))
    BY <1>6 DEF Rule
  <2>2. /\ got.is = "select" /\ got.where = <<>> /\ ~got.all /\ got.names # <<>>
        /\ NamesListed(got, s)
    BY <2>1, SaidWhere DEF InSelect, SelectSaid
  <2>3. /\ Len(s) = 2 * Len(got.names) + 1 /\ Len(got.names) < MaxList
        /\ s = Append(<<Plain("SELECT")>> \o Idents(got.names), Plain("COMMA"))
    <3>1. Len(got.names) \in Nat /\ Len(s) % 2 = 1
      <4>1. Index % 2 = 1
        BY <1>6
      <4> QED BY <1>1, <4>1
    <3>2. Len(s) # 2 * Len(got.names)
      BY <3>1, Parity
    <3> QED BY <2>2, <3>2 DEF NamesListed
  <2>4. ASSUME AnIdent(t) PROVE Follows("select list", h, s, t)
    <3>1. l \in Seq(Names) /\ Len(l) = Len(got.names) + 1 /\ l # <<>> /\ Len(got.names) \in Nat
      BY <1>1, <1>2, <2>4
    <3>2. Append(s, t) = <<Plain("SELECT")>> \o Idents(l)
      <4>1. NameAdds(<<Plain("SELECT")>>, got.names, t.data)
        BY <1>1, <1>2, <1>3, <2>4, IdentsGrow
      <4> QED BY <1>2, <2>2, <2>3, <2>4, <4>1, Zenon DEF NameAdds
    <3>3. Len(Append(s, t)) = 2 * Len(l)
      <4>1. Len(Append(s, t)) = Len(s) + 1
        OBVIOUS
      <4> QED BY <2>3, <3>1, <4>1
    <3> HIDE DEF l
    <3>4. GotOK(h)
      <4>1. Len(l) <= MaxList
        BY <1>1, <2>3, <3>1
      <4> QED BY <3>1, <4>1, SetNames
    <3>5. h.is = "select" /\ h.where = <<>> /\ h.all = FALSE /\ h.names = l
      BY <1>1, <2>2 DEF GotOK, GotType
    <3> HIDE DEF h
    <3>6. SelectSaid("select list", h, Append(s, t))
      BY <3>1, <3>2, <3>3, <3>5 DEF SelectSaid, NamesListed
    <3> QED BY <3>4, <3>6, SaidAgain DEF Follows, InSelect
  <2> HIDE DEF h
  <2> QED BY <2>1, <2>4, EndsHere, Goes
<1>7. CASE Rule("select from", t.type = "FROM", "select table", got)
  <2>1. /\ at = "select from"
        /\ t.type = "FROM" => Go("select table", got)
        /\ t.type # "FROM" => End(Is("SyntaxError"))
    BY <1>7 DEF Rule
  <2>2. /\ got.is = "select" /\ got.where = <<>> /\ got.all
        /\ s = <<Plain("SELECT")>> \o ListedNames(got)
    <3>1. SelectSaid("select from", got, s)
      BY <2>1, SaidWhere DEF InSelect
    <3> QED BY <3>1, Zenon DEF SelectSaid
  <2>3. ASSUME t.type = "FROM" PROVE Follows("select table", got, s, t)
    <3>1. t = Plain("FROM")
      BY <2>3, PlainToken
    <3>2. SelectSaid("select table", got, Append(s, t))
      BY <2>2, <3>1 DEF SelectSaid
    <3> QED BY <3>2, SaidAgain DEF Follows, InSelect
  <2> QED BY <2>1, <2>3, EndsHere, Goes
<1>8. CASE TableName("select table", t, Known(t.data) => Range(got.names) \subseteq NamesIn(t.data),
                     "where")
  <2> DEFINE h == [got EXCEPT !.table = t.data]
  <2>1. /\ at = "select table"
        /\ AnIdent(t) /\ Known(t.data) /\ Range(got.names) \subseteq NamesIn(t.data) =>
             Go("where", h)
        /\ ~(AnIdent(t) /\ Known(t.data) /\ Range(got.names) \subseteq NamesIn(t.data)) =>
             End(Is("SyntaxError")) \/ End(Is("ReferenceError"))
    BY <1>8 DEF TableName
  <2>2. /\ got.is = "select" /\ got.where = <<>> /\ (got.all \/ got.names # <<>>)
        /\ s = Append(<<Plain("SELECT")>> \o ListedNames(got), Plain("FROM"))
    <3>1. SelectSaid("select table", got, s)
      BY <2>1, SaidWhere DEF InSelect
    <3> QED BY <3>1, Zenon DEF SelectSaid
  <2>3. ASSUME AnIdent(t), Known(t.data), Range(got.names) \subseteq NamesIn(t.data)
        PROVE  Follows("where", h, s, t)
    <3>1. t.data \in DOMAIN Schema /\ t.data \in Names /\ t = Ident(t.data)
      BY <1>2, <2>3 DEF Known
    <3>2. got.order = <<>>
      BY <2>2 DEF GotOK
    <3>3. GotOK(h)
      BY <3>1, <3>2, SetTable
    <3>4. /\ h.is = "select" /\ h.where = <<>> /\ h.all = got.all /\ h.names = got.names
          /\ h.table = t.data
      BY <2>2 DEF GotOK, GotType
    <3> HIDE DEF h
    <3>5. Append(s, t) = ScanHead(h)
      BY <2>2, <3>1, <3>4 DEF ScanHead, ListedNames
    <3>6. Scanning(h)
      BY <2>2, <2>3, <3>1, <3>4 DEF Scanning
    <3>7. ClauseSaid("where", h, Append(s, t))
      BY <3>4, <3>5, <3>6 DEF ClauseSaid
    <3> QED BY <3>3, <3>7, SaidAgain DEF Follows, InClause
  <2> HIDE DEF h
  <2> QED BY <2>1, <2>3, EndsHere, Goes
<1> QED BY <1>4, <1>5, <1>6, <1>7, <1>8 DEF SelectWord

----------------------------------------------------------------------------
(* A statement is complete at its semicolon. *)
LEMMA Completes ==
  ASSUME NEW s \in Seq(Tok), NEW t, NEW g, GotOK(g), Whole(g, s), IsToken(t), t.type = "SEMICOLON"
  PROVE  Follows("end", g, s, t)
<1>1. t = Plain("SEMICOLON")
  BY PlainToken
<1>2. \E w \in Seq(Tok) : Whole(g, w) /\ Append(s, t) = Append(w, Plain("SEMICOLON"))
  BY <1>1
<1> QED BY <1>2, Zenon DEF Follows, Said

(* The clause does not change what was said before it.                     *)
LEMMA WhereApart ==
  ASSUME NEW g, GotOK(g), NEW v \in Seq(Tok)
  PROVE  LET h == [g EXCEPT !.where = v]
         IN  h.where = v /\ ScanHead(h) = ScanHead(g) /\ (Scanning(g) => Scanning(h))
<1> DEFINE h == [g EXCEPT !.where = v]
<1>1. h.where = v /\ h.is = g.is /\ h.table = g.table /\ h.all = g.all /\ h.names = g.names
  BY DEF GotOK, GotType
<1> HIDE DEF h
<1>2. ListedNames(h) = ListedNames(g)
  BY <1>1 DEF ListedNames
<1>3. ScanHead(h) = ScanHead(g)
  BY <1>1, <1>2 DEF ScanHead
<1>4. Scanning(g) => Scanning(h)
  BY <1>1 DEF Scanning
<1> QED BY <1>1, <1>3, <1>4 DEF h

(* The end of SELECT and of DELETE. *)
LEMMA ClauseStep ==
  ASSUME NEW s \in Seq(Tok), NEW t, IsToken(t), GotOK(got), Said(at, got, s), ClauseWord(t)
  PROVE  Advances(s, t)
<1>1. t \in Tok
  BY DEF IsToken
<1>2. CASE Rule("where", t.type \in {"WHERE", "SEMICOLON"},
                IF t.type = "WHERE" THEN "column" ELSE "end", got)
  <2>1. /\ at = "where"
        /\ t.type = "WHERE" => Go("column", got)
        /\ t.type = "SEMICOLON" => Go("end", got)
        /\ t.type \notin {"WHERE", "SEMICOLON"} => End(Is("SyntaxError"))
    BY <1>2 DEF Rule
  <2>2. Scanning(got) /\ got.where = <<>> /\ s = ScanHead(got)
    BY <2>1, SaidWhere DEF InClause, ClauseSaid
  <2>3. ASSUME t.type = "WHERE" PROVE Follows("column", got, s, t)
    <3>1. t = Plain("WHERE")
      BY <2>3, PlainToken
    <3>2. ClauseSaid("column", got, Append(s, t))
      BY <2>2, <3>1 DEF ClauseSaid
    <3> QED BY <3>2, SaidAgain DEF Follows, InClause
  <2>4. ASSUME t.type = "SEMICOLON" PROVE Follows("end", got, s, t)
    <3>1. Whole(got, s)
      BY <2>2, Zenon DEF Whole, ScanWhole
    <3> QED BY <2>4, <3>1, Completes
  <2> QED BY <2>1, <2>3, <2>4, EndsHere, Goes
<1>3. CASE Rule("column", AnIdent(t), "operator", [got EXCEPT !.where = <<t>>])
  <2> DEFINE h == [got EXCEPT !.where = <<t>>]
  <2>1. at = "column" /\ (AnIdent(t) => Go("operator", h)) /\ (~AnIdent(t) => End(Is("SyntaxError")))
    BY <1>3 DEF Rule
  <2>2. Scanning(got) /\ s = Append(ScanHead(got), Plain("WHERE"))
    BY <2>1, SaidWhere DEF InClause, ClauseSaid
  <2>3. ASSUME AnIdent(t) PROVE Follows("operator", h, s, t)
    <3>1. t = Ident(t.data) /\ t.data \in Names
      BY <2>3 DEF AnIdent, IsToken
    <3>2. <<t>> \in Seq(Tok) /\ Len(<<t>>) <= 3
      BY <1>1
    <3>3. GotOK(h)
      BY <3>2, SetWhere
    <3>4. h.where = <<t>> /\ ScanHead(h) = ScanHead(got) /\ Scanning(h)
      BY <2>2, <3>2, WhereApart
    <3> HIDE DEF h
    <3>5. ClauseSaid("operator", h, Append(s, t))
      <4>1. h.where = <<Ident(t.data)>>
        BY <3>1, <3>4
      <4>2. Append(s, t) = Append(Append(ScanHead(h), Plain("WHERE")), Ident(t.data))
        BY <2>2, <3>1, <3>4
      <4> QED BY <3>1, <3>4, <4>1, <4>2, Zenon DEF ClauseSaid
    <3> QED BY <3>3, <3>5, SaidAgain DEF Follows, InClause
  <2> HIDE DEF h
  <2> QED BY <2>1, <2>3, EndsHere, Goes
<1>4. CASE Rule("operator", t.type \in Operators, "literal", [got EXCEPT !.where = Append(@, t)])
  <2> DEFINE v == Append(got.where, t)
             h == [got EXCEPT !.where = v]
  <2>1. /\ at = "operator" /\ (t.type \in Operators => Go("literal", h))
        /\ t.type \notin Operators => End(Is("SyntaxError"))
    BY <1>4 DEF Rule
  <2>2. ClauseSaid("operator", got, s)
    BY <2>1, SaidWhere DEF InClause
  <2>3. Scanning(got)
    BY <2>2 DEF ClauseSaid
  <2>4. PICK n \in Names :
          got.where = <<Ident(n)>> /\ s = Append(Append(ScanHead(got), Plain("WHERE")), Ident(n))
    BY <2>2, Zenon DEF ClauseSaid
  <2>5. ASSUME t.type \in Operators PROVE Follows("literal", h, s, t)
    <3>1. t = Plain(t.type)
      BY <2>5, PlainToken
    <3>2. v = <<Ident(n), t>> /\ v \in Seq(Tok) /\ Len(v) <= 3
      <4>1. Ident(n) \in Tok
        BY DEF Tok
      <4>2. v = <<Ident(n), t>> /\ v \in Seq(Tok)
        BY <1>1, <2>4, <4>1, PairIs
      <4> HIDE DEF v
      <4> QED BY <4>2
    <3> HIDE DEF v
    <3>3. GotOK(h)
      BY <3>2, SetWhere
    <3>4. h.where = v /\ ScanHead(h) = ScanHead(got) /\ Scanning(h)
      BY <2>3, <3>2, WhereApart
    <3> HIDE DEF h
    <3>5. ClauseSaid("literal", h, Append(s, t))
      <4>1. h.where = <<Ident(n), Plain(t.type)>>
        BY <3>1, <3>2, <3>4
      <4>2. Append(s, t) =
              Append(Append(Append(ScanHead(h), Plain("WHERE")), Ident(n)), Plain(t.type))
        BY <2>4, <3>1, <3>4
      <4> QED BY <2>5, <3>4, <4>1, <4>2, Zenon DEF ClauseSaid
    <3> QED BY <3>3, <3>5, SaidAgain DEF Follows, InClause
  <2> HIDE DEF h
  <2> QED BY <2>1, <2>5, EndsHere, Goes
<1>5. CASE Rule("literal", t.type \in Literals, "semicolon", [got EXCEPT !.where = Append(@, t)])
  <2> DEFINE v == Append(got.where, t)
             h == [got EXCEPT !.where = v]
  <2>1. /\ at = "literal" /\ (t.type \in Literals => Go("semicolon", h))
        /\ t.type \notin Literals => End(Is("SyntaxError"))
    BY <1>5 DEF Rule
  <2>2. ClauseSaid("literal", got, s)
    BY <2>1, SaidWhere DEF InClause
  <2>3. Scanning(got)
    BY <2>2 DEF ClauseSaid
  <2>4. PICK n \in Names, op \in Operators :
          /\ got.where = <<Ident(n), Plain(op)>>
          /\ s = Append(Append(Append(ScanHead(got), Plain("WHERE")), Ident(n)), Plain(op))
    BY <2>2, Zenon DEF ClauseSaid
  <2>5. ASSUME t.type \in Literals PROVE Follows("semicolon", h, s, t)
    <3>1. t \in Values
      BY <2>5 DEF IsToken
    <3>2. v = <<Ident(n), Plain(op), t>> /\ v \in Seq(Tok) /\ Len(v) <= 3
      <4>1. Ident(n) \in Tok /\ Plain(op) \in Tok
        BY PlainTok DEF Tok
      <4>2. v = <<Ident(n), Plain(op), t>> /\ v \in Seq(Tok)
        BY <1>1, <2>4, <4>1, TripleIs
      <4> HIDE DEF v
      <4> QED BY <4>2
    <3> HIDE DEF v
    <3>3. GotOK(h)
      BY <3>2, SetWhere
    <3>4. h.where = v /\ ScanHead(h) = ScanHead(got) /\ Scanning(h)
      BY <2>3, <3>2, WhereApart
    <3> HIDE DEF h
    <3>5. ScanWhole(h, Append(s, t))
      <4>1. h.where = <<Ident(n), Plain(op), t>>
        BY <3>2, <3>4
      <4>2. Append(s, t) =
              Append(Append(Append(Append(ScanHead(h), Plain("WHERE")), Ident(n)), Plain(op)), t)
        BY <2>4, <3>4
      <4> QED BY <3>1, <4>1, <4>2, Zenon DEF ScanWhole
    <3>6. Whole(h, Append(s, t))
      BY <3>4, <3>5, Zenon DEF Whole
    <3> QED BY <3>3, <3>6, SaidAgain DEF Follows
  <2> HIDE DEF h
  <2> QED BY <2>1, <2>5, EndsHere, Goes
<1> QED BY <1>2, <1>3, <1>4, <1>5 DEF ClauseWord

(* The semicolon, and what comes after it. *)
LEMMA TerminationStep ==
  ASSUME NEW s \in Seq(Tok), NEW t, IsToken(t), GotOK(got), Said(at, got, s), Termination(t)
  PROVE  Advances(s, t)
<1>1. CASE Rule("semicolon", t.type = "SEMICOLON", "end", got)
  <2>1. /\ at = "semicolon" /\ (t.type = "SEMICOLON" => Go("end", got))
        /\ t.type # "SEMICOLON" => End(Is("SyntaxError"))
    BY <1>1 DEF Rule
  <2>2. Whole(got, s)
    BY <2>1, SaidWhere
  <2>3. t.type = "SEMICOLON" => Follows("end", got, s, t)
    BY <2>2, Completes
  <2> QED BY <2>1, <2>3, EndsHere, Goes
<1>2. CASE Rule("end", FALSE, "end", got)
  <2>1. End(Is("SyntaxError"))
    BY <1>2 DEF Rule
  <2> QED BY <2>1, EndsHere
<1> QED BY <1>1, <1>2 DEF Termination

(* DELETE, up to the name of the table. *)
LEMMA DeleteStep ==
  ASSUME NEW s \in Seq(Tok), NEW t, IsToken(t), GotOK(got), Said(at, got, s), DeleteWord(t)
  PROVE  Advances(s, t)
<1>1. CASE Rule("delete", t.type = "FROM", "delete table", got)
  <2>1. /\ at = "delete" /\ (t.type = "FROM" => Go("delete table", got))
        /\ t.type # "FROM" => End(Is("SyntaxError"))
    BY <1>1 DEF Rule
  <2>2. got.is = "delete" /\ got.where = <<>> /\ s = <<Plain("DELETE")>>
    BY <2>1, SaidWhere DEF InDelete, DeleteSaid
  <2>3. ASSUME t.type = "FROM" PROVE Follows("delete table", got, s, t)
    <3>1. t = Plain("FROM")
      BY <2>3, PlainToken
    <3>2. Plain("DELETE") \in Tok /\ Plain("FROM") \in Tok
      BY PlainTok
    <3>3. Append(s, t) = <<Plain("DELETE"), Plain("FROM")>>
      BY <2>2, <3>1, <3>2, PairIs
    <3>4. DeleteSaid("delete table", got, Append(s, t))
      BY <2>2, <3>3 DEF DeleteSaid
    <3> QED BY <3>4, SaidAgain DEF Follows, InDelete
  <2> QED BY <2>1, <2>3, EndsHere, Goes
<1>2. CASE TableName("delete table", t, TRUE, "where")
  <2> DEFINE h == [got EXCEPT !.table = t.data]
  <2>1. /\ at = "delete table"
        /\ AnIdent(t) /\ Known(t.data) => Go("where", h)
        /\ ~(AnIdent(t) /\ Known(t.data)) => End(Is("SyntaxError")) \/ End(Is("ReferenceError"))
    BY <1>2 DEF TableName
  <2>2. got.is = "delete" /\ got.where = <<>> /\ s = <<Plain("DELETE"), Plain("FROM")>>
    BY <2>1, SaidWhere DEF InDelete, DeleteSaid
  <2>3. ASSUME AnIdent(t), Known(t.data) PROVE Follows("where", h, s, t)
    <3>1. t.data \in DOMAIN Schema /\ t.data \in Names /\ t = Ident(t.data)
      BY <2>3 DEF Known, AnIdent, IsToken
    <3>2. got.order = <<>>
      BY <2>2 DEF GotOK
    <3>3. GotOK(h)
      BY <3>1, <3>2, SetTable
    <3>4. h.is = "delete" /\ h.where = <<>> /\ h.table = t.data
      BY <2>2 DEF GotOK, GotType
    <3> HIDE DEF h
    <3>5. Plain("DELETE") \in Tok /\ Plain("FROM") \in Tok /\ Ident(t.data) \in Tok
      BY <3>1, PlainTok DEF Tok
    <3>6. Append(s, t) = <<Plain("DELETE"), Plain("FROM"), Ident(t.data)>>
      BY <2>2, <3>1, <3>5, TripleIs
    <3>7. Append(s, t) = ScanHead(h)
      BY <3>4, <3>6 DEF ScanHead
    <3>8. ClauseSaid("where", h, Append(s, t))
      BY <3>1, <3>4, <3>7 DEF ClauseSaid, Scanning
    <3> QED BY <3>3, <3>8, SaidAgain DEF Follows, InClause
  <2> HIDE DEF h
  <2> QED BY <2>1, <2>3, EndsHere, Goes
<1> QED BY <1>1, <1>2 DEF DeleteWord

(* DROP, up to the name of the table. *)
LEMMA DropStep ==
  ASSUME NEW s \in Seq(Tok), NEW t, IsToken(t), GotOK(got), Said(at, got, s), DropWord(t)
  PROVE  Advances(s, t)
<1>1. CASE Rule("drop", t.type = "TABLE", "drop table", got)
  <2>1. /\ at = "drop" /\ (t.type = "TABLE" => Go("drop table", got))
        /\ t.type # "TABLE" => End(Is("SyntaxError"))
    BY <1>1 DEF Rule
  <2>2. got.is = "drop" /\ s = <<Plain("DROP")>>
    BY <2>1, SaidWhere DEF InDrop, DropSaid
  <2>3. ASSUME t.type = "TABLE" PROVE Follows("drop table", got, s, t)
    <3>1. t = Plain("TABLE")
      BY <2>3, PlainToken
    <3>2. Plain("DROP") \in Tok /\ Plain("TABLE") \in Tok
      BY PlainTok
    <3>3. Append(s, t) = <<Plain("DROP"), Plain("TABLE")>>
      BY <2>2, <3>1, <3>2, PairIs
    <3>4. DropSaid("drop table", got, Append(s, t))
      BY <2>2, <3>3 DEF DropSaid
    <3> QED BY <3>4, SaidAgain DEF Follows, InDrop
  <2> QED BY <2>1, <2>3, EndsHere, Goes
<1>2. CASE Rule("drop table", AnIdent(t), "semicolon", [got EXCEPT !.table = t.data])
  <2> DEFINE h == [got EXCEPT !.table = t.data]
  <2>1. at = "drop table" /\ (AnIdent(t) => Go("semicolon", h)) /\ (~AnIdent(t) => End(Is("SyntaxError")))
    BY <1>2 DEF Rule
  <2>2. got.is = "drop" /\ s = <<Plain("DROP"), Plain("TABLE")>>
    BY <2>1, SaidWhere DEF InDrop, DropSaid
  <2>3. ASSUME AnIdent(t) PROVE Follows("semicolon", h, s, t)
    <3>1. t.data \in Names /\ t = Ident(t.data)
      BY <2>3 DEF AnIdent, IsToken
    <3>2. got.order = <<>>
      BY <2>2 DEF GotOK
    <3>3. GotOK(h)
      BY <2>2, <3>1, <3>2, SetTable
    <3>4. h.is = "drop" /\ h.table = t.data
      BY <2>2 DEF GotOK, GotType
    <3> HIDE DEF h
    <3>5. Plain("DROP") \in Tok /\ Plain("TABLE") \in Tok /\ Ident(t.data) \in Tok
      BY <3>1, PlainTok DEF Tok
    <3>6. Append(s, t) = <<Plain("DROP"), Plain("TABLE"), Ident(t.data)>>
      BY <2>2, <3>1, <3>5, TripleIs
    <3>7. Whole(h, Append(s, t))
      BY <3>1, <3>4, <3>6 DEF Whole
    <3> QED BY <3>3, <3>7, SaidAgain DEF Follows
  <2> HIDE DEF h
  <2> QED BY <2>1, <2>3, EndsHere, Goes
<1> QED BY <1>1, <1>2 DEF DropWord

----------------------------------------------------------------------------
(* Four words. *)
LEMMA FourAre ==
  ASSUME NEW T, NEW x \in T, NEW y \in T, NEW z \in T, NEW u \in T
  PROVE  <<x, y, z, u>> \in Seq(T) /\ Append(<<x, y, z>>, u) = <<x, y, z, u>>
<1>1. <<x, y, z>> \in Seq(T) /\ <<x, y, z, u>> \in Seq(T)
  OBVIOUS
<1>2. /\ Append(<<x, y, z>>, u) \in Seq(T)
      /\ Len(Append(<<x, y, z>>, u)) = 4 /\ Len(<<x, y, z, u>>) = 4
  BY <1>1
<1>3. \A i \in 1 .. 4 : Append(<<x, y, z>>, u)[i] = <<x, y, z, u>>[i]
  BY <1>1
<1> QED BY <1>1, <1>2, <1>3, SeqEqual

(* The columns of a list, one more of them. *)
ColumnGrows(l, c) ==
  /\ ColumnsOf(Append(l, c)) = Append(ColumnsOf(l), ColumnAt(c, Len(l) + 1))
  /\ ColumnsOf(l) \in Seq(ColumnType) /\ Len(ColumnsOf(l)) = Len(l)

(* The columns of a longer list. *)
LEMMA ColumnsOfGrow ==
  ASSUME NEW l \in Seq(Names \X Types), NEW c \in Names \X Types
  PROVE  ColumnGrows(l, c) /\ \A i \in Nat : ColumnAt(c, i) \in ColumnType
<1> DEFINE m == ColumnsOf(l)
           k == Append(l, c)
           d == ColumnsOf(k)
           j == Len(l)
<1>1. /\ j \in Nat /\ DOMAIN l = 1 .. j /\ DOMAIN k = 1 .. j + 1
      /\ k[j + 1] = c /\ \A i \in 1 .. j : k[i] = l[i] /\ l[i] \in Names \X Types
  OBVIOUS
<1>2. \A b \in Names \X Types, i \in Nat : ColumnAt(b, i) \in ColumnType
  <2> SUFFICES ASSUME NEW b \in Names \X Types, NEW i \in Nat PROVE ColumnAt(b, i) \in ColumnType
    OBVIOUS
  <2>1. b[1] \in Names /\ b[2] \in Types
    OBVIOUS
  <2>2. DataTypeOf[b[2]] \in DataTypes
    BY <2>1 DEF DataTypes, DataTypeOf, Range
  <2> DEFINE e == Column(b[1], DataTypeOf[b[2]])
  <2>3. Key(e) \in ColumnType /\ NoKey(e) \in ColumnType
    BY <2>1, <2>2 DEF ColumnType
  <2>4. ColumnAt(b, i) = IF i = 1 THEN Key(e) ELSE NoKey(e)
    BY DEF ColumnAt
  <2> HIDE DEF e
  <2> QED BY <2>3, <2>4
<1>3. m = [i \in 1 .. j |-> ColumnAt(l[i], i)] /\ d = [i \in 1 .. j + 1 |-> ColumnAt(k[i], i)]
  <2>1. m = [i \in DOMAIN l |-> ColumnAt(l[i], i)] /\ d = [i \in DOMAIN k |-> ColumnAt(k[i], i)]
    BY DEF ColumnsOf
  <2> HIDE DEF m, d, k, j
  <2> QED BY <1>1, <2>1
<1> HIDE DEF m, d, k, j
<1>4. IsRow(m, j) /\ IsRow(d, j + 1)
  BY <1>3 DEF IsRow
<1>5. \A i \in 1 .. j : m[i] \in ColumnType
  BY <1>1, <1>2, <1>3
<1>6. \A i \in 1 .. j : d[i] = m[i]
  <2>1. \A i \in 1 .. j : i \in 1 .. j + 1
    BY <1>1
  <2> QED BY <1>1, <1>3, <2>1
<1>7. d[j + 1] = ColumnAt(c, j + 1)
  <2>1. j + 1 \in 1 .. j + 1
    BY <1>1
  <2> QED BY <1>1, <1>3, <2>1
<1>8. ColumnAt(c, j + 1) \in ColumnType
  <2>1. j + 1 \in Nat
    BY <1>1
  <2> QED BY <1>2, <2>1
<1>9. Grown(m, ColumnAt(c, j + 1), d) /\ m \in Seq(ColumnType) /\ Len(m) = j
  <2> DEFINE y == ColumnAt(c, j + 1)
  <2>1. OneLonger(ColumnType, j, m, y, d)
    BY <1>1, <1>4, <1>5, <1>6, <1>7, <1>8, Zenon DEF OneLonger
  <2> HIDE DEF y
  <2>2. Grown(m, y, d) /\ m \in Seq(ColumnType) /\ Len(m) = j
    BY <2>1, RowGrows
  <2> QED BY <2>2 DEF y
<1> QED BY <1>2, <1>9, Zenon DEF Grown, ColumnGrows, m, d, k, j

(* The column that is read now does not change what was said before it.    *)
LEMMA CurrentApart ==
  ASSUME NEW g, GotOK(g), NEW v
  PROVE  LET h == [g EXCEPT !.current = v]
         IN  /\ h.current = v /\ h.is = g.is /\ h.columns = g.columns
             /\ CreateHead(h) = CreateHead(g) /\ (Creating(g) => Creating(h))
<1> DEFINE h == [g EXCEPT !.current = v]
<1>1. h.current = v /\ h.is = g.is /\ h.columns = g.columns /\ h.table = g.table
  BY DEF GotOK, GotType
<1> HIDE DEF h
<1>2. CreateHead(h) = CreateHead(g) /\ (Creating(g) => Creating(h))
  BY <1>1 DEF CreateHead, Creating
<1> QED BY <1>1, <1>2 DEF h

(* The head of a CREATE is made of tokens. *)
LEMMA HeadType ==
  ASSUME NEW g, Creating(g)
  PROVE  CreateHead(g) \in Seq(Tok) /\ Len(CreateHead(g)) = 4
<1>1. Plain("CREATE") \in Tok /\ Plain("TABLE") \in Tok /\ Plain("OPEN_PAREN") \in Tok
  BY PlainTok
<1>2. Ident(g.table) \in Tok
  BY DEF Creating, Tok
<1> QED BY <1>1, <1>2 DEF CreateHead

(* One word longer. *)
LEMMA OneWordLonger ==
  ASSUME NEW T, NEW a \in Seq(T), NEW x \in T, NEW b, b = Append(a, x)
  PROVE  b \in Seq(T) /\ b # <<>> /\ Len(b) = Len(a) + 1
OBVIOUS

(* CREATE, up to the first column. *)
CreateHeadWord(t) ==
  \/ Rule("create", t.type = "TABLE", "create table", got)
  \/ /\ at = "create table"
     /\ IF ~AnIdent(t) THEN End(Is("SyntaxError"))
        ELSE IF Known(t.data) THEN End(Is("ReferenceError"))
        ELSE Go("create open", [got EXCEPT !.table = t.data])
  \/ Rule("create open", t.type = "OPEN_PAREN", "create key", got)
  \/ Rule("create key", AnIdent(t), "create key type", NameRead(t))
  \/ Rule("create key type", t.type \in Types, "create columns", TypeRead(t))

(* A word of a CREATE before its second column. *)
LEMMA CreateHeadStep ==
  ASSUME NEW s \in Seq(Tok), NEW t, IsToken(t), GotOK(got), Said(at, got, s),
         CreateHeadWord(t)
  PROVE  Advances(s, t)
<1>1. AnIdent(t) => t = Ident(t.data) /\ t.data \in Names
  BY DEF AnIdent, IsToken
<1>2. Plain("CREATE") \in Tok /\ Plain("TABLE") \in Tok /\ Plain("OPEN_PAREN") \in Tok
  BY PlainTok
<1>3. CASE Rule("create", t.type = "TABLE", "create table", got)
  <2>1. /\ at = "create" /\ (t.type = "TABLE" => Go("create table", got))
        /\ t.type # "TABLE" => End(Is("SyntaxError"))
    BY <1>3 DEF Rule
  <2>2. got.is = "create" /\ got.columns = <<>> /\ s = <<Plain("CREATE")>>
    <3>1. CreateSaid(at, got, s)
      BY <2>1, SaidWhere DEF InCreate
    <3> QED BY <2>1, <3>1 DEF CreateSaid
  <2>3. ASSUME t.type = "TABLE" PROVE Follows("create table", got, s, t)
    <3>1. t = Plain("TABLE")
      BY <2>3, PlainToken
    <3>2. Append(s, t) = <<Plain("CREATE"), Plain("TABLE")>>
      BY <1>2, <2>2, <3>1, PairIs
    <3>3. CreateSaid("create table", got, Append(s, t))
      BY <2>2, <3>2 DEF CreateSaid
    <3> QED BY <3>3, SaidAgain DEF Follows, InCreate
  <2> QED BY <2>1, <2>3, EndsHere, Goes
<1>4. CASE /\ at = "create table"
           /\ IF ~AnIdent(t) THEN End(Is("SyntaxError"))
              ELSE IF Known(t.data) THEN End(Is("ReferenceError"))
              ELSE Go("create open", [got EXCEPT !.table = t.data])
  <2> DEFINE h == [got EXCEPT !.table = t.data]
  <2>1. got.is = "create" /\ got.columns = <<>> /\ s = <<Plain("CREATE"), Plain("TABLE")>>
    <3>1. CreateSaid(at, got, s)
      BY <1>4, SaidWhere DEF InCreate
    <3> QED BY <1>4, <3>1 DEF CreateSaid
  <2>2. ASSUME AnIdent(t), ~Known(t.data) PROVE Follows("create open", h, s, t)
    <3>1. got.order = <<>>
      BY <2>1 DEF GotOK
    <3>2. GotOK(h)
      BY <1>1, <2>1, <2>2, <3>1, SetTable
    <3>3. h.is = "create" /\ h.table = t.data /\ h.columns = <<>>
      BY <2>1 DEF GotOK, GotType
    <3> HIDE DEF h
    <3>4. Ident(t.data) \in Tok
      BY <1>1, <2>2 DEF Tok
    <3>5. Append(s, t) = <<Plain("CREATE"), Plain("TABLE"), Ident(h.table)>>
      BY <1>1, <1>2, <2>1, <2>2, <3>3, <3>4, TripleIs
    <3>6. Creating(h)
      BY <1>1, <2>2, <3>3 DEF Creating, Known
    <3>7. CreateSaid("create open", h, Append(s, t))
      BY <3>3, <3>5, <3>6 DEF CreateSaid
    <3> QED BY <3>2, <3>7, SaidAgain DEF Follows, InCreate
  <2> HIDE DEF h
  <2> QED BY <1>4, <2>2, EndsHere, Goes DEF h
<1>5. CASE Rule("create open", t.type = "OPEN_PAREN", "create key", got)
  <2>1. /\ at = "create open" /\ (t.type = "OPEN_PAREN" => Go("create key", got))
        /\ t.type # "OPEN_PAREN" => End(Is("SyntaxError"))
    BY <1>5 DEF Rule
  <2>2. /\ got.is = "create" /\ got.columns = <<>> /\ Creating(got)
        /\ s = <<Plain("CREATE"), Plain("TABLE"), Ident(got.table)>>
    <3>1. CreateSaid(at, got, s)
      BY <2>1, SaidWhere DEF InCreate
    <3> QED BY <2>1, <3>1 DEF CreateSaid
  <2>3. ASSUME t.type = "OPEN_PAREN" PROVE Follows("create key", got, s, t)
    <3>1. t = Plain("OPEN_PAREN")
      BY <2>3, PlainToken
    <3>2. Ident(got.table) \in Tok
      BY <2>2 DEF Creating, Tok
    <3>3. Append(s, t) = CreateHead(got)
      BY <1>2, <2>2, <3>1, <3>2, FourAre DEF CreateHead
    <3>4. CreateSaid("create key", got, Append(s, t))
      BY <2>2, <3>3 DEF CreateSaid
    <3> QED BY <3>4, SaidAgain DEF Follows, InCreate
  <2> QED BY <2>1, <2>3, EndsHere, Goes
<1>6. CASE Rule("create key", AnIdent(t), "create key type", NameRead(t))
  <2> DEFINE h == [got EXCEPT !.current = <<t.data>>]
  <2>1. /\ at = "create key" /\ (AnIdent(t) => Go("create key type", h))
        /\ ~AnIdent(t) => End(Is("SyntaxError"))
    BY <1>6 DEF Rule, NameRead
  <2>2. got.is = "create" /\ got.columns = <<>> /\ Creating(got) /\ s = CreateHead(got)
    <3>1. CreateSaid(at, got, s)
      BY <2>1, SaidWhere DEF InCreate
    <3> QED BY <2>1, <3>1 DEF CreateSaid
  <2>3. ASSUME AnIdent(t) PROVE Follows("create key type", h, s, t)
    <3>1. <<t.data>> \in Seq(Names \cup DataTypes)
      BY <1>1, <2>3
    <3>2. GotOK(h)
      BY <3>1, SetCurrent
    <3>3. /\ h.current = <<t.data>> /\ h.is = "create" /\ h.columns = <<>>
          /\ CreateHead(h) = CreateHead(got) /\ Creating(h)
      BY <2>2, CurrentApart
    <3> HIDE DEF h
    <3>4. Append(s, t) = Append(CreateHead(h), Ident(t.data))
      BY <1>1, <2>2, <2>3, <3>3
    <3>5. CreateSaid("create key type", h, Append(s, t))
      BY <1>1, <2>3, <3>3, <3>4 DEF CreateSaid
    <3> QED BY <3>2, <3>5, SaidAgain DEF Follows, InCreate
  <2> HIDE DEF h
  <2> QED BY <2>1, <2>3, EndsHere, Goes
<1>7. CASE Rule("create key type", t.type \in Types, "create columns", TypeRead(t))
  <2> DEFINE v == <<got.current[1], DataTypeOf[t.type]>>
             h == [got EXCEPT !.current = v]
  <2>1. /\ at = "create key type" /\ (t.type \in Types => Go("create columns", h))
        /\ t.type \notin Types => End(Is("SyntaxError"))
    BY <1>7 DEF Rule, TypeRead
  <2>2. CreateSaid("create key type", got, s)
    BY <2>1, SaidWhere DEF InCreate
  <2>3. got.is = "create" /\ got.columns = <<>> /\ Creating(got)
    BY <2>2 DEF CreateSaid
  <2>4. PICK n \in Names : got.current = <<n>> /\ s = Append(CreateHead(got), Ident(n))
    BY <2>2 DEF CreateSaid
  <2>5. ASSUME t.type \in Types PROVE Follows("create columns", h, s, t)
    <3>1. t = Plain(t.type)
      BY <2>5, PlainToken
    <3>2. DataTypeOf[t.type] \in DataTypes
      BY <2>5 DEF DataTypes, DataTypeOf, Range
    <3>3. v = <<n, DataTypeOf[t.type]>> /\ v \in Seq(Names \cup DataTypes)
      BY <2>4, <3>2
    <3> HIDE DEF v
    <3>4. GotOK(h)
      BY <3>3, SetCurrent
    <3>5. /\ h.current = v /\ h.is = "create" /\ h.columns = <<>>
          /\ CreateHead(h) = CreateHead(got) /\ Creating(h)
      BY <2>3, CurrentApart
    <3> HIDE DEF h
    <3> DEFINE e == <<>>
    <3>6. e \in Seq(Names \X Types) /\ Len(e) = 0 /\ e \in ColumnLists
      <4>1. 0 <= MaxList
        BY ListBound
      <4> QED BY <4>1 DEF ColumnLists
    <3>7. h.columns = ColumnsOf(e)
      BY <3>5 DEF ColumnsOf
    <3>8. CreateHead(h) \in Seq(Tok) /\ Len(CreateHead(h)) = 4
      BY <3>5, HeadType
    <3>9. Append(s, t) = CreateHead(h) \o ColumnWords(Append(e, <<n, t.type>>))
      <4>1. ColumnAdds(CreateHead(h), e, n, t.type)
        <5> HIDE DEF e
        <5> QED BY <2>5, <3>6, <3>8, ColumnsGrow
      <4>2. Append(s, t) = Append(Append(CreateHead(h), Ident(n)), Plain(t.type))
        BY <2>4, <3>1, <3>5
      <4> QED BY <4>1, <4>2, Zenon DEF ColumnAdds
    <3>10. Len(Append(s, t)) = 6 + 3 * Len(e)
      <4>1. s = Append(CreateHead(h), Ident(n)) /\ Ident(n) \in Tok
        BY <2>4, <3>5 DEF Tok
      <4>2. Len(s) = 5
        <5>1. Len(s) = Len(CreateHead(h)) + 1
          BY <3>8, <4>1, OneWordLonger
        <5> QED BY <3>8, <5>1
      <4>3. Len(Append(s, t)) = Len(s) + 1
        OBVIOUS
      <4> QED BY <3>6, <4>2, <4>3
    <3>11. Len(e) < MaxList
      BY <3>6, ListBound
    <3> HIDE DEF e
    <3>12. ColumnRead(h, Append(s, t))
      <4>1. h.current = <<n, DataTypeOf[t.type]>>
        BY <3>3, <3>5
      <4> QED BY <2>5, <3>6, <3>7, <3>9, <3>10, <3>11, <4>1, Zenon DEF ColumnRead
    <3>13. CreateSaid("create columns", h, Append(s, t))
      BY <3>5, <3>12 DEF CreateSaid
    <3> QED BY <3>4, <3>13, SaidAgain DEF Follows, InCreate
  <2> HIDE DEF h
  <2> QED BY <2>1, <2>5, EndsHere, Goes
<1> QED BY <1>3, <1>4, <1>5, <1>6, <1>7 DEF CreateHeadWord

(* The columns of CREATE. *)
CreateColumnWord(t) ==
  \/ /\ Index % 3 = 0
     /\ Rule("create columns", t.type \in {"CLOSE_PAREN", "COMMA"},
             IF t.type = "COMMA" THEN "create columns" ELSE "semicolon", AddColumn(got))
  \/ Index % 3 = 1 /\ Rule("create columns", AnIdent(t), "create columns", NameRead(t))
  \/ Index % 3 = 2 /\ Rule("create columns", t.type \in Types, "create columns", TypeRead(t))

(* Name, type and comma take turns. *)
HasColumn(l, g, s) ==
  \E n \in Names, ty \in Types :
    /\ g.current = <<n, DataTypeOf[ty]>> /\ Len(s) = 6 + 3 * Len(l)
    /\ s = CreateHead(g) \o ColumnWords(Append(l, <<n, ty>>))
NeedsName(l, g, s) ==
  /\ l # <<>> /\ Len(s) = 4 + 3 * Len(l)
  /\ s = Append(CreateHead(g) \o ColumnWords(l), Plain("COMMA"))
NeedsType(l, g, s) ==
  \E n \in Names :
    /\ l # <<>> /\ g.current = <<n>> /\ Len(s) = 5 + 3 * Len(l)
    /\ s = Append(Append(CreateHead(g) \o ColumnWords(l), Plain("COMMA")), Ident(n))

(* The index tells which part of a column comes next. *)
LEMMA ColumnTurns ==
  ASSUME NEW g, NEW s, ColumnRead(g, s)
  PROVE  \E l \in ColumnLists :
           /\ g.columns = ColumnsOf(l) /\ Len(l) < MaxList
           /\ HasColumn(l, g, s) \/ NeedsName(l, g, s) \/ NeedsType(l, g, s)
           /\ Len(s) % 3 = 0 => HasColumn(l, g, s)
           /\ Len(s) % 3 = 1 => NeedsName(l, g, s)
           /\ Len(s) % 3 = 2 => NeedsType(l, g, s)
<1>2. PICK l \in ColumnLists :
        /\ g.columns = ColumnsOf(l) /\ Len(l) < MaxList
        /\ HasColumn(l, g, s) \/ NeedsName(l, g, s) \/ NeedsType(l, g, s)
  BY Zenon DEF ColumnRead, HasColumn, NeedsName, NeedsType
<1>3. Len(l) \in Nat
  <2>1. l \in Seq(Names \X Types)
    BY DEF ColumnLists
  <2> QED BY <2>1
<1>4. HasColumn(l, g, s) => Len(s) = 6 + 3 * Len(l)
  BY Zenon DEF HasColumn
<1>5. NeedsName(l, g, s) => Len(s) = 4 + 3 * Len(l)
  BY Zenon DEF NeedsName
<1>6. NeedsType(l, g, s) => Len(s) = 5 + 3 * Len(l)
  BY Zenon DEF NeedsType
<1> DEFINE k == Len(l)
<1>7. /\ 6 + 3 * k = 3 * (k + 2) /\ 4 + 3 * k = 3 * (k + 1) + 1 /\ 5 + 3 * k = 3 * (k + 1) + 2
      /\ k + 1 \in Nat /\ k + 2 \in Nat
  <2>1. k \in Nat
    BY <1>3
  <2> HIDE DEF k
  <2> QED BY <2>1
<1>8. (3 * (k + 2)) % 3 = 0 /\ (3 * (k + 1) + 1) % 3 = 1 /\ (3 * (k + 1) + 2) % 3 = 2
  <2>1. \A j \in Nat : (3 * j) % 3 = 0 /\ (3 * j + 1) % 3 = 1 /\ (3 * j + 2) % 3 = 2
    BY Thirds
  <2> HIDE DEF k
  <2> QED BY <1>7, <2>1
<1>9. /\ HasColumn(l, g, s) => Len(s) % 3 = 0
      /\ NeedsName(l, g, s) => Len(s) % 3 = 1
      /\ NeedsType(l, g, s) => Len(s) % 3 = 2
  BY <1>4, <1>5, <1>6, <1>7, <1>8
<1>10. /\ Len(s) % 3 = 0 => HasColumn(l, g, s)
       /\ Len(s) % 3 = 1 => NeedsName(l, g, s)
       /\ Len(s) % 3 = 2 => NeedsType(l, g, s)
  <2> DEFINE r == Len(s) % 3
  <2>1. /\ HasColumn(l, g, s) => r = 0
        /\ NeedsName(l, g, s) => r = 1
        /\ NeedsType(l, g, s) => r = 2
    BY <1>9
  <2> HIDE DEF r
  <2>2. /\ r = 0 => HasColumn(l, g, s)
        /\ r = 1 => NeedsName(l, g, s)
        /\ r = 2 => NeedsType(l, g, s)
    <3>1. HasColumn(l, g, s) \/ NeedsName(l, g, s) \/ NeedsType(l, g, s)
      BY <1>2
    <3>2. 0 # 1 /\ 0 # 2 /\ 1 # 2
      OBVIOUS
    <3> QED BY <2>1, <3>1, <3>2, Zenon
  <2> QED BY <2>2 DEF r
<1> QED BY <1>2, <1>10

(* Back to ColumnRead, with the list that was read.                        *)
LEMMA ColumnReadAgain ==
  ASSUME NEW g, NEW s, NEW l \in ColumnLists, GotOK(g), g.is = "create", Creating(g),
         g.columns = ColumnsOf(l), Len(l) < MaxList,
         HasColumn(l, g, s) \/ NeedsName(l, g, s) \/ NeedsType(l, g, s)
  PROVE  Said("create columns", g, s)
<1>1. ColumnRead(g, s)
  BY Zenon DEF ColumnRead, HasColumn, NeedsName, NeedsType
<1>2. CreateSaid("create columns", g, s)
  BY <1>1 DEF CreateSaid
<1> QED BY <1>2, SaidAgain DEF InCreate

(* A column whose name and type are read is added.                         *)
LEMMA ColumnAdded ==
  ASSUME GotOK(got), NEW l \in ColumnLists, NEW n \in Names, NEW ty \in Types,
         Creating(got), got.columns = ColumnsOf(l), Len(l) < MaxList,
         got.current = <<n, DataTypeOf[ty]>>, Index = 6 + 3 * Len(l)
  PROVE  LET h == AddColumn(got)
             k == Append(l, <<n, ty>>)
         IN  /\ k \in ColumnLists /\ k # <<>> /\ Len(k) = Len(l) + 1 /\ Len(got.columns) = Len(l)
             /\ h.columns = ColumnsOf(k) /\ GotOK(h) /\ h.is = "create"
             /\ CreateHead(h) = CreateHead(got) /\ Creating(h)
<1> DEFINE c == <<n, ty>>
           k == Append(l, c)
           d == Column(n, DataTypeOf[ty])
           x == IF Index = 6 THEN Key(d) ELSE NoKey(d)
           v == Append(got.columns, x)
           h == [got EXCEPT !.columns = v]
<1>1. l \in Seq(Names \X Types) /\ Len(l) \in Nat /\ MaxList \in Nat
  BY ListBound DEF ColumnLists
<1>2. c \in Names \X Types
  OBVIOUS
<1>3. x = ColumnAt(c, Len(l) + 1)
  <2>1. Index = 6 <=> Len(l) + 1 = 1
    BY <1>1
  <2>2. c[1] = n /\ c[2] = ty
    OBVIOUS
  <2> HIDE DEF c
  <2>3. ColumnAt(c, Len(l) + 1) = IF Len(l) + 1 = 1 THEN Key(d) ELSE NoKey(d)
    BY <2>2 DEF ColumnAt
  <2> HIDE DEF d
  <2> QED BY <2>1, <2>3
<1>4. AddColumn(got) = h
  <2>1. got.current[1] = n /\ got.current[2] = DataTypeOf[ty]
    OBVIOUS
  <2> QED BY <2>1 DEF AddColumn
<1> HIDE DEF x
<1>5. ColumnGrows(l, c) /\ x \in ColumnType
  <2> HIDE DEF c
  <2>1. ColumnGrows(l, c) /\ \A i \in Nat : ColumnAt(c, i) \in ColumnType
    BY <1>1, <1>2, ColumnsOfGrow
  <2>2. Len(l) + 1 \in Nat
    BY <1>1
  <2> QED BY <1>3, <2>1, <2>2
<1>6. k \in ColumnLists /\ k # <<>> /\ Len(k) = Len(l) + 1
  <2>1. k \in Seq(Names \X Types) /\ k # <<>> /\ Len(k) = Len(l) + 1
    <3> DEFINE S == Names \X Types
    <3>1. l \in Seq(S) /\ c \in S /\ k = Append(l, c)
      BY <1>1, <1>2
    <3> HIDE DEF c, k, S
    <3>2. k \in Seq(S) /\ k # <<>> /\ Len(k) = Len(l) + 1
      BY <3>1, OneWordLonger
    <3> QED BY <3>2 DEF S
  <2> HIDE DEF k
  <2>2. Len(k) <= MaxList
    BY <1>1, <2>1
  <2> QED BY <2>1, <2>2 DEF ColumnLists
<1>7. v = ColumnsOf(k) /\ got.columns \in Seq(ColumnType) /\ Len(got.columns) = Len(l)
  <2> HIDE DEF c
  <2> QED BY <1>3, <1>5 DEF ColumnGrows
<1>8. v \in Seq(ColumnType) /\ Len(v) <= MaxList
  <2>1. v \in Seq(ColumnType) /\ Len(v) = Len(got.columns) + 1
    <3>1. v = Append(got.columns, x)
      OBVIOUS
    <3> HIDE DEF v
    <3>2. got.columns \in Seq(ColumnType) /\ x \in ColumnType
      BY <1>5, <1>7
    <3> QED BY <3>1, <3>2, OneWordLonger
  <2> HIDE DEF v
  <2> QED BY <1>1, <1>7, <2>1
<1> HIDE DEF v, k, c
<1>9. GotOK(h)
  BY <1>8, SetColumns
<1>10. h.columns = v /\ h.is = "create" /\ h.table = got.table
  BY DEF GotOK, GotType, Creating
<1> HIDE DEF h
<1>11. CreateHead(h) = CreateHead(got) /\ Creating(h)
  BY <1>10 DEF CreateHead, Creating
<1> QED BY <1>4, <1>6, <1>7, <1>9, <1>10, <1>11 DEF k, c

(* A word of a CREATE after its first column. *)
LEMMA CreateColumnStep ==
  ASSUME NEW s \in Seq(Tok), NEW t, IsToken(t), GotOK(got), Said(at, got, s), Index = Len(s),
         Bounded(t), CreateColumnWord(t)
  PROVE  Advances(s, t)
<1>1. AnIdent(t) => t = Ident(t.data) /\ t.data \in Names
  BY DEF AnIdent, IsToken
<1>2. at = "create columns"
  BY DEF CreateColumnWord, Rule
<1>3. CreateSaid("create columns", got, s)
  BY <1>2, SaidWhere, Zenon DEF InCreate
<1>4. got.is = "create" /\ Creating(got) /\ ColumnRead(got, s)
  <2>1. "create columns" \notin {"create", "create table"}
    OBVIOUS
  <2> QED BY <1>3, <2>1, Zenon DEF CreateSaid
<1>5. PICK l \in ColumnLists :
        /\ got.columns = ColumnsOf(l) /\ Len(l) < MaxList
        /\ Len(s) % 3 = 0 => HasColumn(l, got, s)
        /\ Len(s) % 3 = 1 => NeedsName(l, got, s)
        /\ Len(s) % 3 = 2 => NeedsType(l, got, s)
  BY <1>4, ColumnTurns
<1>6. l \in Seq(Names \X Types) /\ Len(l) \in Nat
  <2>1. l \in Seq(Names \X Types)
    BY DEF ColumnLists
  <2> QED BY <2>1
<1>7. CreateHead(got) \in Seq(Tok)
  BY <1>4, HeadType
<1>8. CASE /\ Index % 3 = 0
           /\ Rule("create columns", t.type \in {"CLOSE_PAREN", "COMMA"},
                   IF t.type = "COMMA" THEN "create columns" ELSE "semicolon", AddColumn(got))
  <2> DEFINE h == AddColumn(got)
  <2>1. /\ t.type = "COMMA" => Go("create columns", h)
        /\ t.type = "CLOSE_PAREN" => Go("semicolon", h)
        /\ t.type \notin {"CLOSE_PAREN", "COMMA"} => End(Is("SyntaxError"))
    BY <1>8 DEF Rule
  <2> HIDE DEF h
  <2>2. HasColumn(l, got, s)
    <3>1. Index % 3 = 0
      BY <1>8
    <3> QED BY <1>5, <3>1
  <2>3. PICK n \in Names, ty \in Types :
          /\ got.current = <<n, DataTypeOf[ty]>> /\ Len(s) = 6 + 3 * Len(l)
          /\ s = CreateHead(got) \o ColumnWords(Append(l, <<n, ty>>))
    BY <2>2, Zenon DEF HasColumn
  <2> DEFINE k == Append(l, <<n, ty>>)
  <2>4. /\ k \in ColumnLists /\ k # <<>> /\ Len(k) = Len(l) + 1 /\ Len(got.columns) = Len(l)
        /\ h.columns = ColumnsOf(k) /\ GotOK(h) /\ h.is = "create"
        /\ CreateHead(h) = CreateHead(got) /\ Creating(h)
    BY <1>4, <1>5, <2>3, ColumnAdded DEF h
  <2>5. s = CreateHead(h) \o ColumnWords(k)
    BY <2>3, <2>4
  <2> HIDE DEF k
  <2>6. ASSUME t.type = "COMMA" PROVE Follows("create columns", h, s, t)
    <3>1. t = Plain("COMMA")
      BY <2>6, PlainToken
    <3>2. Len(k) < MaxList
      <4>1. Len(got.columns) + 1 < MaxList
        BY <1>2, <2>6, Zenon DEF Bounded
      <4> QED BY <2>4, <4>1
    <3>3. Len(Append(s, t)) = 4 + 3 * Len(k)
      <4>1. Len(Append(s, t)) = Len(s) + 1
        OBVIOUS
      <4> QED BY <1>6, <2>3, <2>4, <4>1
    <3>4. NeedsName(k, h, Append(s, t))
      BY <2>4, <2>5, <3>1, <3>3 DEF NeedsName
    <3>5. Said("create columns", h, Append(s, t))
      BY <2>4, <3>2, <3>4, ColumnReadAgain
    <3> QED BY <2>4, <3>5, Zenon DEF Follows
  <2>7. ASSUME t.type = "CLOSE_PAREN" PROVE Follows("semicolon", h, s, t)
    <3>1. t = Plain("CLOSE_PAREN")
      BY <2>7, PlainToken
    <3>2. Append(s, t) = Append(CreateHead(h) \o ColumnWords(k), Plain("CLOSE_PAREN"))
      BY <2>5, <3>1
    <3>3. Whole(h, Append(s, t))
      BY <2>4, <3>2, Zenon DEF Whole
    <3> QED BY <2>4, <3>3, SaidAgain DEF Follows
  <2> QED BY <2>1, <2>6, <2>7, EndsHere, Goes
<1>9. CASE Index % 3 = 1 /\ Rule("create columns", AnIdent(t), "create columns", NameRead(t))
  <2> DEFINE h == [got EXCEPT !.current = <<t.data>>]
  <2>1. (AnIdent(t) => Go("create columns", h)) /\ (~AnIdent(t) => End(Is("SyntaxError")))
    BY <1>9 DEF Rule, NameRead
  <2>2. NeedsName(l, got, s)
    <3>1. Index % 3 = 1
      BY <1>9
    <3> QED BY <1>5, <3>1
  <2>3. ASSUME AnIdent(t) PROVE Follows("create columns", h, s, t)
    <3>1. <<t.data>> \in Seq(Names \cup DataTypes)
      BY <1>1, <2>3
    <3>2. GotOK(h)
      BY <3>1, SetCurrent
    <3>3. /\ h.current = <<t.data>> /\ h.is = "create" /\ h.columns = ColumnsOf(l)
          /\ CreateHead(h) = CreateHead(got) /\ Creating(h)
      BY <1>4, <1>5, CurrentApart
    <3> HIDE DEF h
    <3>4. /\ l # <<>> /\ Len(s) = 4 + 3 * Len(l)
          /\ s = Append(CreateHead(h) \o ColumnWords(l), Plain("COMMA"))
      BY <2>2, <3>3 DEF NeedsName
    <3>5. Len(Append(s, t)) = 5 + 3 * Len(l)
      <4>1. Len(Append(s, t)) = Len(s) + 1
        OBVIOUS
      <4> QED BY <1>6, <3>4, <4>1
    <3>6. Append(s, t) =
            Append(Append(CreateHead(h) \o ColumnWords(l), Plain("COMMA")), Ident(t.data))
      BY <1>1, <2>3, <3>4, Zenon
    <3>7. NeedsType(l, h, Append(s, t))
      BY <1>1, <2>3, <3>3, <3>4, <3>5, <3>6, Zenon DEF NeedsType
    <3>8. Said("create columns", h, Append(s, t))
      BY <1>5, <3>2, <3>3, <3>7, ColumnReadAgain
    <3> QED BY <3>2, <3>8, Zenon DEF Follows
  <2> HIDE DEF h
  <2> QED BY <2>1, <2>3, EndsHere, Goes
<1>10. CASE Index % 3 = 2 /\ Rule("create columns", t.type \in Types, "create columns", TypeRead(t))
  <2> DEFINE v == <<got.current[1], DataTypeOf[t.type]>>
             h == [got EXCEPT !.current = v]
  <2>1. /\ t.type \in Types => Go("create columns", h)
        /\ t.type \notin Types => End(Is("SyntaxError"))
    BY <1>10 DEF Rule, TypeRead
  <2>2. NeedsType(l, got, s)
    <3>1. Index % 3 = 2
      BY <1>10
    <3> QED BY <1>5, <3>1
  <2>3. PICK n \in Names :
          /\ l # <<>> /\ got.current = <<n>> /\ Len(s) = 5 + 3 * Len(l)
          /\ s = Append(Append(CreateHead(got) \o ColumnWords(l), Plain("COMMA")), Ident(n))
    BY <2>2, Zenon DEF NeedsType
  <2>4. ASSUME t.type \in Types PROVE Follows("create columns", h, s, t)
    <3>1. t = Plain(t.type)
      BY <2>4, PlainToken
    <3>2. DataTypeOf[t.type] \in DataTypes
      BY <2>4 DEF DataTypes, DataTypeOf, Range
    <3>3. v = <<n, DataTypeOf[t.type]>> /\ v \in Seq(Names \cup DataTypes)
      BY <2>3, <3>2
    <3> HIDE DEF v
    <3>4. GotOK(h)
      BY <3>3, SetCurrent
    <3>5. /\ h.current = v /\ h.is = "create" /\ h.columns = ColumnsOf(l)
          /\ CreateHead(h) = CreateHead(got) /\ Creating(h)
      BY <1>4, <1>5, CurrentApart
    <3> HIDE DEF h
    <3>6. Append(s, t) = CreateHead(h) \o ColumnWords(Append(l, <<n, t.type>>))
      <4>1. ColumnAdds(CreateHead(h), l, n, t.type)
        BY <1>6, <1>7, <2>4, <3>5, ColumnsGrow
      <4>2. Append(s, t) =
              Append(Append(Append(CreateHead(h) \o ColumnWords(l), Plain("COMMA")), Ident(n)),
                     Plain(t.type))
        BY <2>3, <3>1, <3>5
      <4> QED BY <2>3, <4>1, <4>2, Zenon DEF ColumnAdds
    <3>7. Len(Append(s, t)) = 6 + 3 * Len(l)
      <4>1. Len(Append(s, t)) = Len(s) + 1
        OBVIOUS
      <4> QED BY <1>6, <2>3, <4>1
    <3>8. HasColumn(l, h, Append(s, t))
      BY <2>4, <3>3, <3>5, <3>6, <3>7, Zenon DEF HasColumn
    <3>9. Said("create columns", h, Append(s, t))
      BY <1>5, <3>4, <3>5, <3>8, ColumnReadAgain
    <3> QED BY <3>4, <3>9, Zenon DEF Follows
  <2> HIDE DEF h
  <2> QED BY <2>1, <2>4, EndsHere, Goes
<1> QED BY <1>8, <1>9, <1>10, Zenon DEF CreateColumnWord

(* CREATE, up to its semicolon. *)
LEMMA CreateStep ==
  ASSUME NEW s \in Seq(Tok), NEW t, IsToken(t), GotOK(got), Said(at, got, s), Index = Len(s),
         Bounded(t), CreateWord(t)
  PROVE  Advances(s, t)
<1>1. CreateHeadWord(t) \/ CreateColumnWord(t)
  BY Zenon DEF CreateWord, CreateHeadWord, CreateColumnWord
<1> QED BY <1>1, CreateHeadStep, CreateColumnStep

----------------------------------------------------------------------------
(* What INSERT has said at each of its positions.                          *)
LEMMA InsertSaidAt ==
  ASSUME NEW g, NEW s
  PROVE  /\ InsertSaid("insert", g, s) <=>
              g.is = "insert" /\ g.values = <<>> /\ g.order = <<>> /\ s = <<Plain("INSERT")>>
         /\ InsertSaid("insert table", g, s) <=>
              /\ g.is = "insert" /\ g.values = <<>> /\ g.order = <<>>
              /\ s = <<Plain("INSERT"), Plain("INTO")>>
         /\ InsertSaid("insert open", g, s) <=>
              /\ g.is = "insert" /\ g.values = <<>> /\ g.order = <<>> /\ Ordered(g)
              /\ s = <<Plain("INSERT"), Plain("INTO"), Ident(g.table)>>
         /\ InsertSaid("insert names", g, s) <=>
              g.is = "insert" /\ g.values = <<>> /\ Ordered(g) /\ NamesRead(g, s)
         /\ InsertSaid("values", g, s) <=>
              /\ g.is = "insert" /\ g.values = <<>> /\ Ordered(g) /\ g.order # <<>> /\ Named(g)
              /\ Len(s) = 4 + 2 * Len(g.order) /\ s = Append(OrderWords(g), Plain("CLOSE_PAREN"))
         /\ InsertSaid("values open", g, s) <=>
              /\ g.is = "insert" /\ g.values = <<>> /\ Ordered(g) /\ g.order # <<>> /\ Named(g)
              /\ Len(s) = 5 + 2 * Len(g.order)
              /\ s = Append(Append(OrderWords(g), Plain("CLOSE_PAREN")), Plain("VALUES"))
         /\ InsertSaid("insert values", g, s) <=>
              /\ g.is = "insert" /\ Ordered(g) /\ g.order # <<>> /\ Named(g)
              /\ Fitting(g) /\ ValuesRead(g, s)
<1>1. InsertSaid("insert", g, s) <=>
        g.is = "insert" /\ g.values = <<>> /\ g.order = <<>> /\ s = <<Plain("INSERT")>>
  BY Zenon DEF InsertSaid
<1>2. InsertSaid("insert table", g, s) <=>
        /\ g.is = "insert" /\ g.values = <<>> /\ g.order = <<>>
        /\ s = <<Plain("INSERT"), Plain("INTO")>>
  BY Zenon DEF InsertSaid
<1>3. InsertSaid("insert open", g, s) <=>
        /\ g.is = "insert" /\ g.values = <<>> /\ g.order = <<>> /\ Ordered(g)
        /\ s = <<Plain("INSERT"), Plain("INTO"), Ident(g.table)>>
  BY Zenon DEF InsertSaid
<1>4. InsertSaid("insert names", g, s) <=>
        g.is = "insert" /\ g.values = <<>> /\ Ordered(g) /\ NamesRead(g, s)
  BY Zenon DEF InsertSaid
<1>5. InsertSaid("values", g, s) <=>
        /\ g.is = "insert" /\ g.values = <<>> /\ Ordered(g) /\ g.order # <<>> /\ Named(g)
        /\ Len(s) = 4 + 2 * Len(g.order) /\ s = Append(OrderWords(g), Plain("CLOSE_PAREN"))
  BY Zenon DEF InsertSaid
<1>6. InsertSaid("values open", g, s) <=>
        /\ g.is = "insert" /\ g.values = <<>> /\ Ordered(g) /\ g.order # <<>> /\ Named(g)
        /\ Len(s) = 5 + 2 * Len(g.order)
        /\ s = Append(Append(OrderWords(g), Plain("CLOSE_PAREN")), Plain("VALUES"))
  BY Zenon DEF InsertSaid
<1>7. InsertSaid("insert values", g, s) <=>
        /\ g.is = "insert" /\ Ordered(g) /\ g.order # <<>> /\ Named(g)
        /\ Fitting(g) /\ ValuesRead(g, s)
  BY Zenon DEF InsertSaid
<1> QED BY <1>1, <1>2, <1>3, <1>4, <1>5, <1>6, <1>7, Zenon

(* column_index finds a column by its name, the last one of that name.     *)
LEMMA IndexOfColumn ==
  ASSUME NEW t \in DOMAIN Schema, NEW n \in NamesIn(t)
  PROVE  /\ ColumnIndex(t, n) \in DOMAIN Schema[t]
         /\ Schema[t][ColumnIndex(t, n)].name = n
         /\ LastNamed(t, ColumnIndex(t, n))
<1> DEFINE c == Schema[t]
           j == Len(c)
           S == {m \in Nat : m < j /\ c[j - m].name = n}
<1>1. c \in Seq([name : Names, type : Range(DataTypeOf)])
  BY Tables
<1>2. j \in Nat /\ DOMAIN c = 1 .. j
  <2> HIDE DEF c
  <2> QED BY <1>1
<1>3. PICK k \in 1 .. j : c[k].name = n
  BY <1>2 DEF NamesIn
<1> HIDE DEF c, j
<1>4. S # {}
  <2>1. j - k \in Nat /\ j - k < j /\ j - (j - k) = k
    BY <1>2
  <2> QED BY <1>3, <2>1
<1>5. PICK m \in S : \A i \in S : m <= i
  <2>1. S \in SUBSET Nat
    OBVIOUS
  <2> HIDE DEF S
  <2> QED BY <1>4, <2>1, LeastOf
<1>6. m \in Nat /\ m < j /\ c[j - m].name = n
  BY <1>5
<1>7. \A i \in 1 .. j : c[i].name = n => i <= j - m
  <2> SUFFICES ASSUME NEW i \in 1 .. j, c[i].name = n PROVE i <= j - m
    OBVIOUS
  <2>1. j - i \in Nat /\ j - i < j /\ j - (j - i) = i
    BY <1>2
  <2>2. j - i \in S
    BY <2>1
  <2>3. m <= j - i
    <3> HIDE DEF S
    <3> QED BY <1>5, <2>2
  <2> QED BY <1>2, <1>6, <2>3
<1>8. j - m \in 1 .. j
  BY <1>2, <1>6
<1>9. \E x \in DOMAIN Schema[t] :
        /\ Schema[t][x].name = n
        /\ \A i \in DOMAIN Schema[t] : Schema[t][i].name = n => i <= x
  BY <1>2, <1>6, <1>7, <1>8 DEF c
<1>10. /\ ColumnIndex(t, n) \in DOMAIN Schema[t]
       /\ Schema[t][ColumnIndex(t, n)].name = n
       /\ \A i \in DOMAIN Schema[t] : Schema[t][i].name = n => i <= ColumnIndex(t, n)
  BY <1>9, Zenon DEF ColumnIndex
<1> QED BY <1>10, Zenon DEF LastNamed

(* The values do not change what was said before them.                     *)
LEMMA ValuesApart ==
  ASSUME NEW g, GotOK(g), NEW v
  PROVE  LET h == [g EXCEPT !.values = v]
         IN  /\ h.values = v /\ h.is = g.is /\ h.order = g.order /\ h.table = g.table
             /\ RowHead(h) = RowHead(g)
             /\ (Ordered(g) => Ordered(h)) /\ (Named(g) => Named(h))
<1> DEFINE h == [g EXCEPT !.values = v]
<1>1. h.values = v /\ h.is = g.is /\ h.order = g.order /\ h.table = g.table
  BY DEF GotOK, GotType
<1> HIDE DEF h
<1>2. OrderNames(h) = OrderNames(g) /\ InsertHead(h) = InsertHead(g)
  BY <1>1 DEF OrderNames, InsertHead
<1>3. RowHead(h) = RowHead(g)
  BY <1>2 DEF RowHead, OrderWords
<1>4. Ordered(g) => Ordered(h)
  BY <1>1 DEF Ordered
<1>5. Named(g) => Named(h)
  BY <1>1, <1>4 DEF Named
<1> QED BY <1>1, <1>3, <1>4, <1>5 DEF h

(* The names of the columns in their order.                                *)
LEMMA NamesType ==
  ASSUME NEW g, Ordered(g)
  PROVE  /\ OrderNames(g) \in Seq(Names) /\ Len(OrderNames(g)) = Len(g.order)
         /\ Len(g.order) \in Nat /\ InsertHead(g) \in Seq(Tok) /\ Len(InsertHead(g)) = 4
<1> DEFINE o == g.order
           j == Len(o)
           D == DOMAIN Schema[g.table]
           m == OrderNames(g)
<1>1. o \in Seq(D) /\ g.table \in Names /\ g.table \in DOMAIN Schema
  BY Tables DEF Ordered
<1>2. Schema[g.table] \in Seq([name : Names, type : Range(DataTypeOf)])
  BY <1>1, Tables
<1>3. \A i \in D : Schema[g.table][i].name \in Names
  <2> DEFINE c == Schema[g.table]
             R == [name : Names, type : Range(DataTypeOf)]
  <2>1. c \in Seq(R)
    BY <1>2
  <2>2. \A r \in R : r.name \in Names
    OBVIOUS
  <2> HIDE DEF c, R
  <2>3. \A i \in DOMAIN c : c[i] \in R
    BY <2>1
  <2>4. \A i \in DOMAIN c : c[i].name \in Names
    BY <2>2, <2>3
  <2> QED BY <2>4 DEF c
<1>4. m = [i \in DOMAIN o |-> Schema[g.table][o[i]].name]
  BY DEF OrderNames
<1> HIDE DEF o, D, m
<1>5. j \in Nat /\ DOMAIN o = 1 .. j /\ \A i \in 1 .. j : o[i] \in D
  BY <1>1
<1>6. IsRow(m, j) /\ \A i \in 1 .. j : m[i] \in Names
  <2> HIDE DEF j
  <2> QED BY <1>3, <1>4, <1>5 DEF IsRow
<1>7. m \in Seq(Names) /\ Len(m) = j
  BY <1>5, <1>6, RowIsSeq
<1>8. Plain("INSERT") \in Tok /\ Plain("INTO") \in Tok /\ Plain("OPEN_PAREN") \in Tok
  BY PlainTok
<1>9. Ident(g.table) \in Tok
  BY <1>1 DEF Tok
<1>10. InsertHead(g) \in Seq(Tok) /\ Len(InsertHead(g)) = 4
  BY <1>8, <1>9 DEF InsertHead
<1> QED BY <1>5, <1>7, <1>10 DEF o, j, m

(* One more column in the order. *)
OrderGrows(g, h, k) == OrderNames(h) = Append(OrderNames(g), Schema[g.table][k].name)

(* What is collected with one column more. *)
LEMMA OrderLonger ==
  ASSUME NEW g, GotOK(g), Ordered(g), NEW k \in DOMAIN Schema[g.table], k \notin Range(g.order),
         LastNamed(g.table, k)
  PROVE  LET h == [g EXCEPT !.order = Append(@, k)]
         IN  /\ h.is = g.is /\ h.values = g.values /\ h.table = g.table
             /\ h.order \in Seq(Nat) /\ h.order # <<>> /\ Len(h.order) = Len(g.order) + 1
             /\ Ordered(h) /\ OrderGrows(g, h, k) /\ InsertHead(h) = InsertHead(g)
<1> DEFINE o == g.order
           D == DOMAIN Schema[g.table]
           j == Len(o)
           p == Append(o, k)
           h == [g EXCEPT !.order = p]
<1>1. h.order = p /\ h.is = g.is /\ h.values = g.values /\ h.table = g.table
  BY DEF GotOK, GotType
<1>2. o \in Seq(D) /\ IsInjective(o) /\ g.table \in DOMAIN Schema
  BY DEF Ordered
<1>3. \A i \in DOMAIN o : LastNamed(g.table, o[i])
  BY DEF Ordered
<1>4. D \subseteq Nat
  <2>1. Schema[g.table] \in Seq([name : Names, type : Range(DataTypeOf)])
    BY <1>2, Tables
  <2> DEFINE c == Schema[g.table]
             R == [name : Names, type : Range(DataTypeOf)]
  <2>2. c \in Seq(R)
    BY <2>1
  <2> HIDE DEF c, R
  <2>3. DOMAIN c \subseteq Nat
    BY <2>2
  <2> QED BY <2>3 DEF c
<1>5. k \in D
  OBVIOUS
<1>6. k \notin Range(o)
  OBVIOUS
<1> HIDE DEF o, D, h
<1>7. /\ p \in Seq(D) /\ p # <<>> /\ Len(p) = j + 1 /\ j \in Nat /\ DOMAIN o = 1 .. j
      /\ DOMAIN p = 1 .. j + 1 /\ p[j + 1] = k
      /\ \A i \in 1 .. j : p[i] = o[i] /\ o[i] \in D
  BY <1>2, <1>5
<1> HIDE DEF p
<1>8. p \in Seq(Nat)
  <2>1. \A i \in 1 .. j + 1 : p[i] \in Nat
    <3> HIDE DEF j
    <3> SUFFICES ASSUME NEW i \in 1 .. j + 1 PROVE p[i] \in Nat
      OBVIOUS
    <3>1. i \in 1 .. j \/ i = j + 1
      BY <1>7
    <3>2. p[i] \in D
      BY <1>5, <1>7, <3>1
    <3> QED BY <1>4, <3>2
  <2> QED BY <1>7, <2>1
<1>9. \A i \in 1 .. j : o[i] # k
  <2>1. \A i \in DOMAIN o : o[i] \in Range(o)
    BY DEF Range
  <2> QED BY <1>6, <1>7, <2>1
<1> HIDE DEF j
<1>10. IsInjective(p)
  <2>1. \A a, b \in 1 .. j : o[a] = o[b] => a = b
    BY <1>2, <1>7 DEF IsInjective
  <2>2. \A a, b \in 1 .. j + 1 : p[a] = p[b] => a = b
    <3> SUFFICES ASSUME NEW a \in 1 .. j + 1, NEW b \in 1 .. j + 1, p[a] = p[b] PROVE a = b
      OBVIOUS
    <3>1. (a \in 1 .. j \/ a = j + 1) /\ (b \in 1 .. j \/ b = j + 1)
      BY <1>7
    <3> QED BY <1>7, <1>9, <2>1, <3>1
  <2> QED BY <1>7, <2>2 DEF IsInjective
<1>11. \A i \in DOMAIN p : LastNamed(g.table, p[i])
  <2> SUFFICES ASSUME NEW i \in 1 .. j + 1 PROVE LastNamed(g.table, p[i])
    BY <1>7
  <2>1. i \in 1 .. j \/ i = j + 1
    BY <1>7
  <2>2. CASE i \in 1 .. j
    BY <1>3, <1>7, <2>2
  <2>3. CASE i = j + 1
    BY <1>7, <2>3
  <2> QED BY <2>1, <2>2, <2>3
<1>12. Ordered(h)
  <2>1. h.table = g.table /\ h.order = p
    BY <1>1
  <2>2. h.order \in Seq(DOMAIN Schema[h.table])
    BY <1>7, <2>1 DEF D
  <2> QED BY <1>2, <1>10, <1>11, <2>1, <2>2 DEF Ordered
<1>13. OrderGrows(g, h, k)
  <2> DEFINE N(i) == Schema[g.table][i].name
             m == OrderNames(g)
             d == OrderNames(h)
  <2>1. m = [i \in DOMAIN o |-> N(o[i])] /\ d = [i \in DOMAIN p |-> N(p[i])]
    BY <1>1 DEF OrderNames, o
  <2>2. m \in Seq(Names) /\ Len(m) = j
    BY NamesType DEF j, o
  <2>3. d \in Seq(Names)
    BY <1>12, NamesType
  <2> HIDE DEF m, d, N
  <2>4. IsRow(m, j) /\ IsRow(d, j + 1)
    BY <1>7, <2>1 DEF IsRow
  <2>5. \A i \in 1 .. j : m[i] \in Names
    BY <2>2
  <2>6. \A i \in 1 .. j : d[i] = m[i]
    <3>1. \A i \in 1 .. j : i \in 1 .. j + 1
      BY <1>7
    <3> QED BY <1>7, <2>1, <3>1
  <2>7. d[j + 1] = N(k) /\ j + 1 \in 1 .. j + 1
    BY <1>7, <2>1
  <2>8. N(k) \in Names
    <3>1. DOMAIN d = 1 .. j + 1
      BY <1>7, <2>1
    <3>2. d[j + 1] \in Names
      BY <2>3, <2>7, <3>1
    <3> QED BY <2>7, <3>2
  <2>9. Grown(m, N(k), d)
    <3> DEFINE y == N(k)
    <3>1. OneLonger(Names, j, m, y, d)
      BY <1>7, <2>4, <2>5, <2>6, <2>7, <2>8, Zenon DEF OneLonger
    <3> HIDE DEF y
    <3>2. Grown(m, y, d)
      BY <3>1, RowGrows
    <3> QED BY <3>2 DEF y
  <2> QED BY <2>9, Zenon DEF Grown, OrderGrows, m, d, N
<1>14. InsertHead(h) = InsertHead(g)
  BY <1>1 DEF InsertHead
<1> QED BY <1>1, <1>7, <1>8, <1>12, <1>13, <1>14 DEF h, p, o, j

(* The words up to the columns, and up to the values.                      *)
LEMMA WordsType ==
  ASSUME NEW g, Ordered(g)
  PROVE  OrderWords(g) \in Seq(Tok) /\ RowHead(g) \in Seq(Tok)
<1>1. OrderNames(g) \in Seq(Names) /\ InsertHead(g) \in Seq(Tok)
  BY NamesType
<1>2. Idents(OrderNames(g)) \in Seq(Tok)
  <2> DEFINE l == OrderNames(g)
  <2>1. l \in Seq(Names)
    BY <1>1
  <2> HIDE DEF l
  <2>2. Idents(l) \in Seq(Tok)
    <3> DEFINE m == [i \in DOMAIN l |-> <<Ident(l[i])>>]
               j == Len(l)
    <3>1. j \in Nat /\ DOMAIN l = 1 .. j /\ \A i \in 1 .. j : l[i] \in Names
      BY <2>1
    <3>2. \A x \in Names : <<Ident(x)>> \in Seq(Tok)
      <4>1. \A x \in Names : Ident(x) \in Tok
        BY DEF Tok
      <4> QED BY <4>1
    <3> HIDE DEF j
    <3>3. IsRow(m, j) /\ \A i \in 1 .. j : m[i] \in Seq(Tok)
      BY <3>1, <3>2 DEF IsRow
    <3> HIDE DEF m
    <3>4. m \in Seq(Seq(Tok))
      BY <3>1, <3>3, RowIsSeq
    <3> QED BY <3>4, ListType DEF Idents, m
  <2> QED BY <2>2 DEF l
<1>3. OrderWords(g) \in Seq(Tok)
  BY <1>1, <1>2, ConcatProperties DEF OrderWords
<1>4. Plain("CLOSE_PAREN") \in Tok /\ Plain("VALUES") \in Tok /\ Plain("OPEN_PAREN") \in Tok
  BY PlainTok
<1>5. RowHead(g) \in Seq(Tok)
  BY <1>3, <1>4 DEF RowHead
<1> QED BY <1>3, <1>5

(* INSERT, up to the columns. *)
InsertHeadWord(t) ==
  \/ Rule("insert", t.type = "INTO", "insert table", got)
  \/ TableName("insert table", t, TRUE, "insert open")
  \/ Rule("insert open", t.type = "OPEN_PAREN", "insert names", got)

(* A word of an INSERT before its first column. *)
LEMMA InsertHeadStep ==
  ASSUME NEW s \in Seq(Tok), NEW t, IsToken(t), GotOK(got), Said(at, got, s), InsertHeadWord(t)
  PROVE  Advances(s, t)
<1>1. Plain("INSERT") \in Tok /\ Plain("INTO") \in Tok
  BY PlainTok
<1>2. at \in InInsert => InsertSaid(at, got, s)
  BY SaidWhere
<1>3. CASE Rule("insert", t.type = "INTO", "insert table", got)
  <2>1. /\ at = "insert" /\ (t.type = "INTO" => Go("insert table", got))
        /\ t.type # "INTO" => End(Is("SyntaxError"))
    BY <1>3 DEF Rule
  <2>2. got.is = "insert" /\ got.values = <<>> /\ got.order = <<>> /\ s = <<Plain("INSERT")>>
    <3>1. InsertSaid("insert", got, s)
      BY <1>2, <2>1, Zenon DEF InInsert
    <3> QED BY <3>1, InsertSaidAt, Zenon
  <2>3. ASSUME t.type = "INTO" PROVE Follows("insert table", got, s, t)
    <3>1. t = Plain("INTO")
      BY <2>3, PlainToken
    <3>2. Append(s, t) = <<Plain("INSERT"), Plain("INTO")>>
      BY <1>1, <2>2, <3>1, PairIs
    <3>3. InsertSaid("insert table", got, Append(s, t))
      BY <2>2, <3>2, InsertSaidAt, Zenon
    <3>4. Said("insert table", got, Append(s, t))
      BY <3>3, SaidAgain, Zenon DEF InInsert
    <3> QED BY <3>4, Zenon DEF Follows
  <2> QED BY <2>1, <2>3, EndsHere, Goes
<1>4. CASE TableName("insert table", t, TRUE, "insert open")
  <2> DEFINE h == [got EXCEPT !.table = t.data]
  <2>1. /\ at = "insert table"
        /\ AnIdent(t) /\ Known(t.data) => Go("insert open", h)
        /\ ~(AnIdent(t) /\ Known(t.data)) => End(Is("SyntaxError")) \/ End(Is("ReferenceError"))
    BY <1>4 DEF TableName
  <2>2. /\ got.is = "insert" /\ got.values = <<>> /\ got.order = <<>>
        /\ s = <<Plain("INSERT"), Plain("INTO")>>
    <3>1. InsertSaid("insert table", got, s)
      BY <1>2, <2>1, Zenon DEF InInsert
    <3> QED BY <3>1, InsertSaidAt, Zenon
  <2>3. ASSUME AnIdent(t), Known(t.data) PROVE Follows("insert open", h, s, t)
    <3>1. t.data \in DOMAIN Schema /\ t.data \in Names /\ t = Ident(t.data)
      BY <2>3 DEF Known, AnIdent, IsToken
    <3>2. GotOK(h)
      BY <2>2, <3>1, SetTable
    <3>3. h.is = "insert" /\ h.values = <<>> /\ h.order = <<>> /\ h.table = t.data
      BY <2>2 DEF GotOK, GotType
    <3> HIDE DEF h
    <3>4. Ordered(h)
      BY <3>1, <3>3 DEF Ordered, IsInjective
    <3>5. Ident(t.data) \in Tok
      BY <3>1 DEF Tok
    <3>6. Append(s, t) = <<Plain("INSERT"), Plain("INTO"), Ident(h.table)>>
      BY <1>1, <2>2, <3>1, <3>3, <3>5, TripleIs
    <3>7. InsertSaid("insert open", h, Append(s, t))
      BY <3>3, <3>4, <3>6, InsertSaidAt, Zenon
    <3>8. Said("insert open", h, Append(s, t))
      BY <3>7, SaidAgain, Zenon DEF InInsert
    <3> QED BY <3>2, <3>8, Zenon DEF Follows
  <2> HIDE DEF h
  <2> QED BY <2>1, <2>3, EndsHere, Goes
<1>5. CASE Rule("insert open", t.type = "OPEN_PAREN", "insert names", got)
  <2>1. /\ at = "insert open" /\ (t.type = "OPEN_PAREN" => Go("insert names", got))
        /\ t.type # "OPEN_PAREN" => End(Is("SyntaxError"))
    BY <1>5 DEF Rule
  <2>2. /\ got.is = "insert" /\ got.values = <<>> /\ got.order = <<>> /\ Ordered(got)
        /\ s = <<Plain("INSERT"), Plain("INTO"), Ident(got.table)>>
    <3>1. InsertSaid("insert open", got, s)
      BY <1>2, <2>1, Zenon DEF InInsert
    <3> QED BY <3>1, InsertSaidAt, Zenon
  <2>3. ASSUME t.type = "OPEN_PAREN" PROVE Follows("insert names", got, s, t)
    <3>1. t = Plain("OPEN_PAREN")
      BY <2>3, PlainToken
    <3>2. Ident(got.table) \in Tok /\ Plain("OPEN_PAREN") \in Tok
      BY <2>2, Tables, PlainTok DEF Ordered, Tok
    <3>3. Append(s, t) = InsertHead(got)
      BY <1>1, <2>2, <3>1, <3>2, FourAre DEF InsertHead
    <3>4. Len(Append(s, t)) = 4
      BY <2>2, <3>3, NamesType
    <3>5. NamesRead(got, Append(s, t))
      BY <2>2, <3>3, <3>4, Zenon DEF NamesRead
    <3>6. InsertSaid("insert names", got, Append(s, t))
      BY <2>2, <3>5, InsertSaidAt, Zenon
    <3>7. Said("insert names", got, Append(s, t))
      BY <3>6, SaidAgain, Zenon DEF InInsert
    <3> QED BY <3>7, Zenon DEF Follows
  <2> QED BY <2>1, <2>3, EndsHere, Goes
<1> QED BY <1>3, <1>4, <1>5, Zenon DEF InsertHeadWord

(* Names and commas take turns. *)
LEMMA NameTurns ==
  ASSUME NEW g, Ordered(g), NEW s, NamesRead(g, s)
  PROVE  /\ Len(s) % 2 = 0 =>
              \/ g.order = <<>> /\ Len(s) = 4 /\ s = InsertHead(g)
              \/ /\ g.order # <<>> /\ Len(s) = 4 + 2 * Len(g.order)
                 /\ s = Append(OrderWords(g), Plain("COMMA"))
         /\ Len(s) % 2 = 1 => g.order # <<>> /\ Len(s) = 3 + 2 * Len(g.order) /\ s = OrderWords(g)
<1> DEFINE k == Len(g.order)
<1>1. k \in Nat
  BY NamesType
<1>2. 4 = 2 * 2 /\ 4 + 2 * k = 2 * (k + 2) /\ 3 + 2 * k = 2 * (k + 1) + 1 /\ k + 1 \in Nat /\ k + 2 \in Nat
  <2> HIDE DEF k
  <2> QED BY <1>1
<1>3. 4 % 2 = 0 /\ (4 + 2 * k) % 2 = 0 /\ (3 + 2 * k) % 2 = 1
  <2>1. \A j \in Nat : (2 * j) % 2 = 0 /\ (2 * j + 1) % 2 = 1
    BY Parity
  <2> HIDE DEF k
  <2> QED BY <1>2, <2>1
<1>4. 0 # 1
  OBVIOUS
<1>5. CASE g.order = <<>> /\ Len(s) = 4 /\ s = InsertHead(g)
  BY <1>3, <1>5
<1>6. CASE g.order # <<>> /\ Len(s) = 3 + 2 * Len(g.order) /\ s = OrderWords(g)
  <2>1. Len(s) = 3 + 2 * k
    BY <1>6
  <2>2. Len(s) % 2 = 1
    BY <1>3, <2>1, Zenon
  <2> QED BY <1>4, <1>6, <2>2, Zenon
<1>7. CASE /\ g.order # <<>> /\ Len(s) = 4 + 2 * Len(g.order)
           /\ s = Append(OrderWords(g), Plain("COMMA"))
  <2>1. Len(s) = 4 + 2 * k
    BY <1>7
  <2>2. Len(s) % 2 = 0
    BY <1>3, <2>1, Zenon
  <2> QED BY <1>4, <1>7, <2>2, Zenon
<1> QED BY <1>5, <1>6, <1>7, Zenon DEF NamesRead

(* A column is named. *)
LEMMA ColumnStep ==
  ASSUME NEW s \in Seq(Tok), NEW t, IsToken(t), GotOK(got), got.is = "insert", got.values = <<>>,
         Ordered(got), NamesRead(got, s),
         Len(s) % 2 = 0, ColumnWord(t)
  PROVE  Advances(s, t)
<1> DEFINE n == t.data
           k == ColumnIndex(got.table, n)
           h == [got EXCEPT !.order = Append(@, k)]
           ok == AnIdent(t) /\ n \in NamesIn(got.table) /\ k \notin Range(got.order)
<1>1. got.is = "insert" /\ got.values = <<>> /\ Ordered(got) /\ NamesRead(got, s)
  OBVIOUS
<1>2. ok => Go("insert names", h)
  BY Zenon DEF ColumnWord
<1>3. ~ok => End(Is("SyntaxError")) \/ End(Is("ReferenceError")) \/ End(Is("LogicError"))
  BY Zenon DEF ColumnWord
<1>4. ASSUME ok PROVE Follows("insert names", h, s, t)
  <2>1. t = Ident(n) /\ n \in Names
    BY <1>4 DEF AnIdent, IsToken
  <2>2. got.table \in DOMAIN Schema
    BY <1>1 DEF Ordered
  <2>3. /\ k \in DOMAIN Schema[got.table] /\ Schema[got.table][k].name = n
        /\ LastNamed(got.table, k)
    BY <1>4, <2>2, IndexOfColumn
  <2>4. k \notin Range(got.order)
    BY <1>4
  <2> HIDE DEF k, n
  <2>5. /\ h.is = got.is /\ h.values = got.values
        /\ h.order \in Seq(Nat) /\ h.order # <<>> /\ Len(h.order) = Len(got.order) + 1
        /\ Ordered(h) /\ OrderGrows(got, h, k) /\ InsertHead(h) = InsertHead(got)
    BY <1>1, <2>3, <2>4, OrderLonger
  <2>6. GotOK(h)
    <3> DEFINE v == Append(got.order, k)
    <3>1. h = [got EXCEPT !.order = v] /\ h.order = v
      BY DEF GotOK, GotType
    <3>2. v \in Seq(Nat)
      BY <2>5, <3>1
    <3> HIDE DEF v
    <3>3. Ordered([got EXCEPT !.order = v])
      BY <2>5, <3>1
    <3>4. GotOK([got EXCEPT !.order = v])
      BY <1>1, <3>2, <3>3, SetOrder
    <3> QED BY <3>1, <3>4
  <2> HIDE DEF h
  <2>7. /\ OrderNames(got) \in Seq(Names) /\ Len(OrderNames(got)) = Len(got.order)
        /\ Len(got.order) \in Nat /\ InsertHead(got) \in Seq(Tok)
    BY <1>1, NamesType
  <2>8. OrderNames(got) = <<>> <=> got.order = <<>>
    <3>1. OrderNames(got) = <<>> <=> Len(OrderNames(got)) = 0
      BY <2>7
    <3>2. got.order = <<>> <=> Len(got.order) = 0
      <4>1. got.order \in Seq(Nat)
        BY GotParts
      <4> QED BY <4>1
    <3> QED BY <2>7, <3>1, <3>2
  <2>9. OrderWords(h) = InsertHead(got) \o Idents(Append(OrderNames(got), n))
    BY <2>3, <2>5, Zenon DEF OrderWords, OrderGrows
  <2>10. NameAdds(InsertHead(got), OrderNames(got), n)
    BY <2>1, <2>7, IdentsGrow
  <2>11. \/ got.order = <<>> /\ Len(s) = 4 /\ s = InsertHead(got)
         \/ /\ got.order # <<>> /\ Len(s) = 4 + 2 * Len(got.order)
            /\ s = Append(OrderWords(got), Plain("COMMA"))
    BY <1>1, NameTurns
  <2>12. Append(s, t) = OrderWords(h)
    <3>1. CASE got.order = <<>>
      BY <2>1, <2>8, <2>9, <2>10, <2>11, <3>1, Zenon DEF NameAdds
    <3>2. CASE got.order # <<>>
      <4>1. s = Append(InsertHead(got) \o Idents(OrderNames(got)), Plain("COMMA"))
        BY <2>11, <3>2, Zenon DEF OrderWords
      <4> QED BY <2>1, <2>8, <2>9, <2>10, <3>2, <4>1, Zenon DEF NameAdds
    <3> QED BY <3>1, <3>2
  <2>13. Len(Append(s, t)) = 3 + 2 * Len(h.order)
    <3>1. Len(Append(s, t)) = Len(s) + 1
      OBVIOUS
    <3>2. Len(s) = 4 + 2 * Len(got.order)
      <4>1. got.order = <<>> => Len(got.order) = 0
        OBVIOUS
      <4>2. CASE got.order = <<>>
        <5>1. Len(s) = 4
          BY <2>11, <4>2, Zenon
        <5> QED BY <4>1, <4>2, <5>1
      <4>3. CASE got.order # <<>>
        BY <2>11, <4>3, Zenon
      <4> QED BY <4>2, <4>3
    <3> QED BY <2>5, <2>7, <3>1, <3>2
  <2>14. NamesRead(h, Append(s, t))
    BY <2>5, <2>12, <2>13, Zenon DEF NamesRead
  <2>15. InsertSaid("insert names", h, Append(s, t))
    BY <1>1, <2>5, <2>14, InsertSaidAt, Zenon
  <2>16. Said("insert names", h, Append(s, t))
    BY <2>15, SaidAgain, Zenon DEF InInsert
  <2> QED BY <2>6, <2>16, Zenon DEF Follows
<1> HIDE DEF ok, h
<1> QED BY <1>2, <1>3, <1>4, EndsHere, Goes, Zenon

(* After a name. *)
LEMMA CloseNamesStep ==
  ASSUME NEW s \in Seq(Tok), NEW t, IsToken(t), GotOK(got), got.is = "insert", got.values = <<>>,
         Ordered(got), NamesRead(got, s),
         Len(s) % 2 = 1, CloseNames(t)
  PROVE  Advances(s, t)
<1>1. got.is = "insert" /\ got.values = <<>> /\ Ordered(got) /\ NamesRead(got, s)
  OBVIOUS
<1>2. got.order # <<>> /\ Len(s) = 3 + 2 * Len(got.order) /\ s = OrderWords(got)
  BY <1>1, NameTurns
<1>3. Len(Append(s, t)) = 4 + 2 * Len(got.order)
  <2>1. Len(Append(s, t)) = Len(s) + 1
    OBVIOUS
  <2>2. got.order \in Seq(Nat)
    BY GotParts
  <2>3. Len(got.order) \in Nat
    BY <2>2
  <2> QED BY <1>2, <2>1, <2>3
<1>4. CASE t.type = "COMMA"
  <2>1. t = Plain("COMMA")
    BY <1>4, PlainToken
  <2>2. NamesRead(got, Append(s, t))
    BY <1>2, <1>3, <2>1, Zenon DEF NamesRead
  <2>3. InsertSaid("insert names", got, Append(s, t))
    BY <1>1, <2>2, InsertSaidAt, Zenon
  <2>4. Said("insert names", got, Append(s, t))
    BY <2>3, SaidAgain, Zenon DEF InInsert
  <2>5. Go("insert names", got)
    BY <1>4, Zenon DEF CloseNames
  <2>6. Follows("insert names", got, s, t)
    BY <2>4, Zenon DEF Follows
  <2> QED BY <2>5, <2>6, Goes, Zenon
<1>5. CASE t.type = "CLOSE_PAREN" /\ Range(got.order) = DOMAIN Schema[got.table]
  <2>1. t = Plain("CLOSE_PAREN")
    BY <1>5, PlainToken
  <2>2. Named(got)
    BY <1>1, <1>5 DEF Named
  <2>3. Append(s, t) = Append(OrderWords(got), Plain("CLOSE_PAREN"))
    BY <1>2, <2>1
  <2>4. InsertSaid("values", got, Append(s, t))
    BY <1>1, <1>2, <1>3, <2>2, <2>3, InsertSaidAt, Zenon
  <2>5. Said("values", got, Append(s, t))
    BY <2>4, SaidAgain, Zenon DEF InInsert
  <2>6. Go("values", got)
    BY <1>5 DEF CloseNames
  <2>7. Follows("values", got, s, t)
    BY <2>5, Zenon DEF Follows
  <2> QED BY <2>6, <2>7, Goes, Zenon
<1>6. CASE /\ t.type # "COMMA"
           /\ ~(t.type = "CLOSE_PAREN" /\ Range(got.order) = DOMAIN Schema[got.table])
  <2>1. End(Is("SyntaxError")) \/ End(Is("LogicError"))
    BY <1>6, Zenon DEF CloseNames
  <2> QED BY <2>1, EndsHere
<1> QED BY <1>4, <1>5, <1>6

(* Between the names and the values. *)
BetweenWord(t) ==
  \/ Rule("values", t.type = "VALUES", "values open", got)
  \/ Rule("values open", t.type = "OPEN_PAREN", "insert values", got)

(* A word between the columns and the values. *)
LEMMA BetweenStep ==
  ASSUME NEW s \in Seq(Tok), NEW t, IsToken(t), GotOK(got), Said(at, got, s), BetweenWord(t)
  PROVE  Advances(s, t)
<1>1. at \in InInsert => InsertSaid(at, got, s)
  BY SaidWhere
<1>2. Len(Append(s, t)) = Len(s) + 1 /\ Len(got.order) \in Nat
  <2>1. got.order \in Seq(Nat)
    BY GotParts
  <2>2. Len(Append(s, t)) = Len(s) + 1
    OBVIOUS
  <2> QED BY <2>1, <2>2
<1>3. CASE Rule("values", t.type = "VALUES", "values open", got)
  <2>1. /\ at = "values" /\ (t.type = "VALUES" => Go("values open", got))
        /\ t.type # "VALUES" => End(Is("SyntaxError"))
    BY <1>3 DEF Rule
  <2>2. /\ got.is = "insert" /\ got.values = <<>> /\ Ordered(got) /\ got.order # <<>> /\ Named(got)
        /\ Len(s) = 4 + 2 * Len(got.order) /\ s = Append(OrderWords(got), Plain("CLOSE_PAREN"))
    <3>1. InsertSaid("values", got, s)
      BY <1>1, <2>1, Zenon DEF InInsert
    <3> QED BY <3>1, InsertSaidAt, Zenon
  <2>3. ASSUME t.type = "VALUES" PROVE Follows("values open", got, s, t)
    <3>1. t = Plain("VALUES")
      BY <2>3, PlainToken
    <3>2. Len(Append(s, t)) = 5 + 2 * Len(got.order)
      BY <1>2, <2>2
    <3>3. Append(s, t) = Append(Append(OrderWords(got), Plain("CLOSE_PAREN")), Plain("VALUES"))
      BY <2>2, <3>1
    <3>4. InsertSaid("values open", got, Append(s, t))
      BY <2>2, <3>2, <3>3, InsertSaidAt, Zenon
    <3>5. Said("values open", got, Append(s, t))
      BY <3>4, SaidAgain, Zenon DEF InInsert
    <3> QED BY <3>5, Zenon DEF Follows
  <2> QED BY <2>1, <2>3, EndsHere, Goes, Zenon
<1>4. CASE Rule("values open", t.type = "OPEN_PAREN", "insert values", got)
  <2>1. /\ at = "values open" /\ (t.type = "OPEN_PAREN" => Go("insert values", got))
        /\ t.type # "OPEN_PAREN" => End(Is("SyntaxError"))
    BY <1>4 DEF Rule
  <2>2. /\ got.is = "insert" /\ got.values = <<>> /\ Ordered(got) /\ got.order # <<>> /\ Named(got)
        /\ Len(s) = 5 + 2 * Len(got.order)
        /\ s = Append(Append(OrderWords(got), Plain("CLOSE_PAREN")), Plain("VALUES"))
    <3>1. InsertSaid("values open", got, s)
      BY <1>1, <2>1, Zenon DEF InInsert
    <3> QED BY <3>1, InsertSaidAt, Zenon
  <2>3. ASSUME t.type = "OPEN_PAREN" PROVE Follows("insert values", got, s, t)
    <3>1. t = Plain("OPEN_PAREN")
      BY <2>3, PlainToken
    <3>2. Len(Append(s, t)) = 6 + 2 * Len(got.order)
      BY <1>2, <2>2
    <3>3. Append(s, t) = RowHead(got)
      BY <2>2, <3>1, Zenon DEF RowHead
    <3>4. ValuesRead(got, Append(s, t))
      BY <2>2, <3>2, <3>3, Zenon DEF ValuesRead
    <3>5. Fitting(got)
      <4>1. \A i \in DOMAIN <<>> : FALSE
        OBVIOUS
      <4> QED BY <2>2, <4>1, Zenon DEF Fitting
    <3>6. InsertSaid("insert values", got, Append(s, t))
      BY <2>2, <3>4, <3>5, InsertSaidAt, Zenon
    <3>7. Said("insert values", got, Append(s, t))
      BY <3>6, SaidAgain, Zenon DEF InInsert
    <3> QED BY <3>7, Zenon DEF Follows
  <2> QED BY <2>1, <2>3, EndsHere, Goes, Zenon
<1> QED BY <1>3, <1>4, Zenon DEF BetweenWord

(* Values and commas take turns. *)
LEMMA ValueTurns ==
  ASSUME NEW g, GotOK(g), NEW s, ValuesRead(g, s)
  PROVE  /\ Len(s) % 2 = 0 =>
              \/ g.values = <<>> /\ Len(s) = 6 + 2 * Len(g.order) /\ s = RowHead(g)
              \/ /\ g.values # <<>> /\ Len(g.values) <= Len(g.order)
                 /\ Len(s) = 6 + 2 * Len(g.order) + 2 * Len(g.values)
                 /\ s = Append(RowHead(g) \o ValueWords(g.values), Plain("COMMA"))
         /\ Len(s) % 2 = 1 =>
              /\ g.values # <<>> /\ Len(s) = 5 + 2 * Len(g.order) + 2 * Len(g.values)
              /\ s = RowHead(g) \o ValueWords(g.values)
<1> DEFINE k == Len(g.order)
           j == Len(g.values)
<1>1. k \in Nat /\ j \in Nat
  <2>1. g.order \in Seq(Nat) /\ g.values \in Seq(Values)
    BY GotParts
  <2> QED BY <2>1
<1>2. /\ 6 + 2 * k = 2 * (k + 3) /\ 6 + 2 * k + 2 * j = 2 * (k + j + 3)
      /\ 5 + 2 * k + 2 * j = 2 * (k + j + 2) + 1
      /\ k + 3 \in Nat /\ k + j + 3 \in Nat /\ k + j + 2 \in Nat
  <2> HIDE DEF k, j
  <2> QED BY <1>1
<1>3. (6 + 2 * k) % 2 = 0 /\ (6 + 2 * k + 2 * j) % 2 = 0 /\ (5 + 2 * k + 2 * j) % 2 = 1
  <2>1. \A i \in Nat : (2 * i) % 2 = 0 /\ (2 * i + 1) % 2 = 1
    BY Parity
  <2> HIDE DEF k, j
  <2> QED BY <1>2, <2>1
<1>4. 0 # 1
  OBVIOUS
<1>5. CASE g.values = <<>> /\ Len(s) = 6 + 2 * Len(g.order) /\ s = RowHead(g)
  <2>1. Len(s) = 6 + 2 * k
    BY <1>5, Zenon
  <2>2. Len(s) % 2 = 0
    BY <1>3, <2>1, Zenon
  <2> QED BY <1>4, <1>5, <2>2, Zenon
<1>6. CASE /\ g.values # <<>> /\ Len(s) = 5 + 2 * Len(g.order) + 2 * Len(g.values)
           /\ s = RowHead(g) \o ValueWords(g.values)
  <2>1. Len(s) = 5 + 2 * k + 2 * j
    BY <1>6, Zenon
  <2>2. Len(s) % 2 = 1
    BY <1>3, <2>1, Zenon
  <2> QED BY <1>4, <1>6, <2>2, Zenon
<1>7. CASE /\ g.values # <<>> /\ Len(g.values) <= Len(g.order)
           /\ Len(s) = 6 + 2 * Len(g.order) + 2 * Len(g.values)
           /\ s = Append(RowHead(g) \o ValueWords(g.values), Plain("COMMA"))
  <2>1. Len(s) = 6 + 2 * k + 2 * j
    BY <1>7, Zenon
  <2>2. Len(s) % 2 = 0
    BY <1>3, <2>1, Zenon
  <2> QED BY <1>4, <1>7, <2>2, Zenon
<1> QED BY <1>5, <1>6, <1>7, Zenon DEF ValuesRead

(* A value that fits leads on. *)
LEMMA ValueStep ==
  ASSUME NEW s \in Seq(Tok), NEW t, IsToken(t), GotOK(got), got.is = "insert",
         Ordered(got), got.order # <<>>, Named(got), Fitting(got), ValuesRead(got, s),
         Len(s) % 2 = 0, ValueWord(t)
  PROVE  Advances(s, t)
<1> DEFINE k == Len(got.order)
           j == Len(got.values)
           v == Append(got.values, t)
           h == [got EXCEPT !.values = v]
           ok == /\ t.type \in Literals
                 /\ j + 1 <= k => LiteralType[t.type] = Schema[got.table][got.order[j + 1]].type
<1>1. k \in Nat /\ j \in Nat /\ got.values \in Seq(Values)
  <2>1. got.order \in Seq(Nat) /\ got.values \in Seq(Values)
    BY GotParts
  <2> QED BY <2>1
<1>2. j + 1 > k <=> ~(j + 1 <= k)
  <2> HIDE DEF j, k
  <2> QED BY <1>1
<1>3. \/ ok /\ Go("insert values", h)
      \/ End(Is("SyntaxError")) \/ End(Is("TypeError")) \/ End(Is("crash"))
  BY <1>2, Zenon DEF ValueWord
<1>4. ASSUME ok PROVE Follows("insert values", h, s, t)
  <2>1. t \in Values
    BY <1>4 DEF IsToken
  <2>2. \/ got.values = <<>> /\ Len(s) = 6 + 2 * k /\ s = RowHead(got)
        \/ /\ got.values # <<>> /\ j <= k
           /\ Len(s) = 6 + 2 * k + 2 * j
           /\ s = Append(RowHead(got) \o ValueWords(got.values), Plain("COMMA"))
    BY ValueTurns
  <2>3. j <= k /\ Len(s) = 6 + 2 * k + 2 * j
    <3>1. got.values = <<>> => j = 0
      BY <1>1
    <3> HIDE DEF j, k
    <3>2. CASE got.values = <<>>
      <4>1. Len(s) = 6 + 2 * k
        BY <2>2, <3>2, Zenon
      <4> QED BY <1>1, <3>1, <3>2, <4>1
    <3>3. CASE got.values # <<>>
      BY <2>2, <3>3, Zenon
    <3> QED BY <3>2, <3>3
  <2>4. v \in Seq(Values) /\ v # <<>> /\ Len(v) = j + 1
    <3>1. v = Append(got.values, t)
      OBVIOUS
    <3> HIDE DEF v
    <3> QED BY <1>1, <2>1, <3>1, OneWordLonger
  <2>5. \A i \in DOMAIN v : v[i] = IF i = j + 1 THEN t ELSE got.values[i]
    BY <1>1, <2>1
  <2>6. \A i \in DOMAIN v : i = j + 1 \/ i \in DOMAIN got.values
    BY <1>1, <2>1
  <2>7. ValueAdds(RowHead(got), got.values, t)
    <3>1. RowHead(got) \in Seq(Tok)
      BY WordsType
    <3> QED BY <1>1, <2>1, <3>1, ValuesGrow
  <2>8. Append(s, t) = RowHead(got) \o ValueWords(v)
    BY <2>2, <2>7, Zenon DEF ValueAdds
  <2> HIDE DEF v
  <2>9. GotOK(h)
    <3>1. Len(v) <= k + 1
      <4> HIDE DEF j, k
      <4> QED BY <1>1, <2>3, <2>4
    <3> QED BY <2>4, <3>1, SetValues
  <2>10. /\ h.values = v /\ h.is = got.is /\ h.order = got.order /\ h.table = got.table
         /\ RowHead(h) = RowHead(got) /\ Ordered(h) /\ Named(h)
    BY ValuesApart
  <2> HIDE DEF h
  <2>11. Fitting(h)
    <3> SUFFICES ASSUME NEW i \in DOMAIN v, i <= k
                 PROVE  LiteralType[v[i].type] = Schema[got.table][got.order[i]].type
      BY <2>10, Zenon DEF Fitting
    <3>1. CASE i = j + 1
      <4>1. v[i] = t
        BY <2>5, <3>1
      <4>2. LiteralType[t.type] = Schema[got.table][got.order[j + 1]].type
        BY <1>4, <3>1, Zenon
      <4> QED BY <3>1, <4>1, <4>2, Zenon
    <3>2. CASE i # j + 1
      <4>1. v[i] = got.values[i] /\ i \in DOMAIN got.values
        BY <2>5, <2>6, <3>2, Zenon
      <4> QED BY <4>1, Zenon DEF Fitting
    <3> QED BY <3>1, <3>2
  <2>12. Len(Append(s, t)) = 5 + 2 * Len(h.order) + 2 * Len(h.values)
    <3>1. Len(Append(s, t)) = Len(s) + 1
      OBVIOUS
    <3>2. Len(h.order) = k /\ Len(h.values) = j + 1
      BY <2>4, <2>10
    <3> HIDE DEF j, k
    <3> QED BY <1>1, <2>3, <3>1, <3>2
  <2>13. ValuesRead(h, Append(s, t))
    BY <2>4, <2>8, <2>10, <2>12, Zenon DEF ValuesRead
  <2>14. InsertSaid("insert values", h, Append(s, t))
    BY <2>10, <2>11, <2>13, InsertSaidAt, Zenon
  <2>15. Said("insert values", h, Append(s, t))
    BY <2>14, SaidAgain, Zenon DEF InInsert
  <2> QED BY <2>9, <2>15, Zenon DEF Follows
<1> HIDE DEF ok, h
<1> QED BY <1>3, <1>4, EndsHere, Goes, Zenon

(* After a value. *)
CloseValues(t) ==
  Rule("insert values", t.type \in {"CLOSE_PAREN", "COMMA"},
       IF t.type = "COMMA" THEN "insert values" ELSE "semicolon", got)

(* A comma or a parenthesis behind a value. *)
LEMMA CloseValuesStep ==
  ASSUME NEW s \in Seq(Tok), NEW t, IsToken(t), GotOK(got), got.is = "insert",
         Ordered(got), got.order # <<>>, Named(got), Fitting(got), ValuesRead(got, s),
         Len(s) % 2 = 1, t.type = "COMMA" => Len(got.values) <= Len(got.order), CloseValues(t)
  PROVE  Advances(s, t)
<1> DEFINE k == Len(got.order)
           j == Len(got.values)
<1>1. k \in Nat /\ j \in Nat
  <2>1. got.order \in Seq(Nat) /\ got.values \in Seq(Values)
    BY GotParts
  <2> QED BY <2>1
<1>2. /\ t.type = "COMMA" => Go("insert values", got)
      /\ t.type = "CLOSE_PAREN" => Go("semicolon", got)
      /\ t.type \notin {"CLOSE_PAREN", "COMMA"} => End(Is("SyntaxError"))
  BY DEF CloseValues, Rule
<1>3. /\ got.values # <<>> /\ Len(s) = 5 + 2 * k + 2 * j
      /\ s = RowHead(got) \o ValueWords(got.values)
  BY ValueTurns
<1>4. ASSUME t.type = "COMMA" PROVE Follows("insert values", got, s, t)
  <2>1. t = Plain("COMMA")
    BY <1>4, PlainToken
  <2>2. Len(Append(s, t)) = 6 + 2 * k + 2 * j
    <3>1. Len(Append(s, t)) = Len(s) + 1
      OBVIOUS
    <3> HIDE DEF j, k
    <3> QED BY <1>1, <1>3, <3>1
  <2>3. Append(s, t) = Append(RowHead(got) \o ValueWords(got.values), Plain("COMMA"))
    BY <1>3, <2>1
  <2>4. ValuesRead(got, Append(s, t))
    BY <1>3, <1>4, <2>2, <2>3, Zenon DEF ValuesRead
  <2>5. InsertSaid("insert values", got, Append(s, t))
    BY <2>4, InsertSaidAt, Zenon
  <2>6. Said("insert values", got, Append(s, t))
    BY <2>5, SaidAgain, Zenon DEF InInsert
  <2> QED BY <2>6, Zenon DEF Follows
<1>5. ASSUME t.type = "CLOSE_PAREN" PROVE Follows("semicolon", got, s, t)
  <2>1. t = Plain("CLOSE_PAREN")
    BY <1>5, PlainToken
  <2>2. Append(s, t) = Append(RowHead(got) \o ValueWords(got.values), Plain("CLOSE_PAREN"))
    BY <1>3, <2>1
  <2>3. Whole(got, Append(s, t))
    BY <1>3, <2>2, Zenon DEF Whole
  <2> QED BY <2>3, SaidAgain DEF Follows
<1> QED BY <1>2, <1>4, <1>5, EndsHere, Goes

(* INSERT, up to its semicolon. *)
LEMMA InsertStep ==
  ASSUME NEW s \in Seq(Tok), NEW t, IsToken(t), GotOK(got), Said(at, got, s), Index = Len(s),
         Bounded(t), InsertWord(t)
  PROVE  Advances(s, t)
<1>1. at \in InInsert => InsertSaid(at, got, s)
  BY SaidWhere
<1>2. CASE InsertHeadWord(t)
  BY <1>2, InsertHeadStep
<1>3. CASE BetweenWord(t)
  BY <1>3, BetweenStep
<1>4. CASE at = "insert names" /\ Index % 2 = 0 /\ ColumnWord(t)
  <2>1. InsertSaid("insert names", got, s)
    BY <1>1, <1>4, Zenon DEF InInsert
  <2>2. got.is = "insert" /\ got.values = <<>> /\ Ordered(got) /\ NamesRead(got, s)
    BY <2>1, InsertSaidAt, Zenon
  <2>3. Len(s) % 2 = 0 /\ ColumnWord(t)
    BY <1>4
  <2> QED BY <2>2, <2>3, ColumnStep
<1>5. CASE at = "insert names" /\ Index % 2 = 1 /\ CloseNames(t)
  <2>1. InsertSaid("insert names", got, s)
    BY <1>1, <1>5, Zenon DEF InInsert
  <2>2. got.is = "insert" /\ got.values = <<>> /\ Ordered(got) /\ NamesRead(got, s)
    BY <2>1, InsertSaidAt, Zenon
  <2>3. Len(s) % 2 = 1 /\ CloseNames(t)
    BY <1>5
  <2> QED BY <2>2, <2>3, CloseNamesStep
<1>6. CASE at = "insert values" /\ Index % 2 = 0 /\ ValueWord(t)
  <2>1. InsertSaid("insert values", got, s)
    BY <1>1, <1>6, Zenon DEF InInsert
  <2>2. /\ got.is = "insert" /\ Ordered(got) /\ got.order # <<>> /\ Named(got)
        /\ Fitting(got) /\ ValuesRead(got, s)
    BY <2>1, InsertSaidAt, Zenon
  <2>3. Len(s) % 2 = 0 /\ ValueWord(t)
    BY <1>6
  <2> QED BY <2>2, <2>3, ValueStep
<1>7. CASE Index % 2 = 1 /\ CloseValues(t)
  <2>1. at = "insert values"
    BY <1>7, Zenon DEF CloseValues, Rule
  <2>2. InsertSaid("insert values", got, s)
    BY <1>1, <2>1, Zenon DEF InInsert
  <2>3. /\ got.is = "insert" /\ Ordered(got) /\ got.order # <<>> /\ Named(got)
        /\ Fitting(got) /\ ValuesRead(got, s)
    BY <2>2, InsertSaidAt, Zenon
  <2>4. Len(s) % 2 = 1 /\ CloseValues(t)
    BY <1>7
  <2>5. t.type = "COMMA" => Len(got.values) <= Len(got.order)
    BY <2>1, Zenon DEF Bounded
  <2> QED BY <2>3, <2>4, <2>5, CloseValuesStep
<1> QED BY <1>2, <1>3, <1>4, <1>5, <1>6, <1>7, Zenon
         DEF InsertWord, InsertHeadWord, BetweenWord, CloseValues

----------------------------------------------------------------------------
(***************************************************************************)
(* The invariant.                                                          *)
(***************************************************************************)
(* The tokens read so far. *)
LEMMA LexedType ==
  ASSUME read \in Seq(Words)
  PROVE  Lexed \in Seq(Tok) /\ Len(Lexed) = Len(read)
<1> DEFINE j == Len(read)
           l == Lexed
<1>1. j \in Nat /\ DOMAIN read = 1 .. j /\ \A i \in 1 .. j : read[i] \in Words
  OBVIOUS
<1>2. l = [i \in DOMAIN read |-> Lex[read[i]]]
  BY DEF Lexed
<1>3. \A w \in Words : Lex[w] \in Tok
  BY TokenIs
<1> HIDE DEF j, l
<1>4. IsRow(l, j) /\ \A i \in 1 .. j : l[i] \in Tok
  BY <1>1, <1>2, <1>3 DEF IsRow
<1> QED BY <1>1, <1>4, RowIsSeq DEF l, j

(* One word more is one token more. *)
LEMMA LexedGrows ==
  ASSUME read \in Seq(Words), NEW w \in Words, read' = Append(read, w)
  PROVE  read' \in Seq(Words) /\ Lexed' = Append(Lexed, Lex[w])
<1> DEFINE j == Len(read)
           l == Lexed
           r == read'
           d == [i \in DOMAIN r |-> Lex[r[i]]]
           y == Lex[w]
<1>1. /\ j \in Nat /\ DOMAIN read = 1 .. j /\ r \in Seq(Words) /\ DOMAIN r = 1 .. j + 1
      /\ r[j + 1] = w /\ \A i \in 1 .. j : r[i] = read[i] /\ read[i] \in Words
  OBVIOUS
<1>2. l = [i \in DOMAIN read |-> Lex[read[i]]]
  BY DEF Lexed
<1>3. \A v \in Words : Lex[v] \in Tok
  BY TokenIs
<1> HIDE DEF j, l, r
<1>4. IsRow(l, j) /\ IsRow(d, j + 1)
  BY <1>1, <1>2 DEF IsRow
<1>5. \A i \in 1 .. j : l[i] \in Tok
  BY <1>1, <1>2, <1>3
<1>6. \A i \in 1 .. j : d[i] = l[i]
  <2>1. \A i \in 1 .. j : i \in 1 .. j + 1
    BY <1>1
  <2> QED BY <1>1, <1>2, <2>1
<1>7. d[j + 1] = y
  <2>1. j + 1 \in 1 .. j + 1
    BY <1>1
  <2> QED BY <1>1, <2>1
<1>8. y \in Tok
  BY <1>3
<1> HIDE DEF d, y
<1>9. OneLonger(Tok, j, l, y, d)
  BY <1>1, <1>4, <1>5, <1>6, <1>7, <1>8, Zenon DEF OneLonger
<1>10. d = Append(l, y)
  BY <1>9, RowGrows DEF Grown
<1>11. Lexed' = d
  BY DEF Lexed, d, r
<1> QED BY <1>1, <1>10, <1>11 DEF l, y, r

(* At the start nothing has been said. *)
LEMMA InitIInv == Init => IInv
<1> SUFFICES ASSUME Init PROVE IInv
  OBVIOUS
<1>1. read = <<>> /\ at = "first" /\ got = Nothing
  BY DEF Init
<1>2. Lexed = <<>>
  BY <1>1 DEF Lexed
<1>3. read \in Seq(Words)
  BY <1>1
<1>4. Said(at, got, Lexed)
  BY <1>1, <1>2, Zenon DEF Said
<1> QED BY <1>1, <1>3, <1>4, NothingOK DEF IInv

(* A word is read. *)
LEMMA ReadIInv ==
  ASSUME IInv, NEW w \in Words, Read(w)
  PROVE  IInv'
<1> DEFINE t == Lex[w]
           s == Lexed
<1>1. outcome = Reading /\ read' = Append(read, w) /\ read \in Seq(Words) /\ GotOK(got)
  BY DEF Read, IInv
<1>2. Said(at, got, s) /\ s \in Seq(Tok) /\ Index = Len(s)
  BY <1>1, LexedType DEF IInv, Index
<1>3. IsToken(t)
  BY TokenIs DEF IsToken
<1>4. read' \in Seq(Words) /\ Lexed' = Append(s, t)
  BY <1>1, LexedGrows
<1>5. \/ t.type \in Errors /\ End(Is(t.type))
      \/ /\ Bounded(t)
         /\ \/ FirstWord(t) \/ SelectWord(t) \/ CreateWord(t) \/ InsertWord(t)
            \/ DeleteWord(t) \/ DropWord(t) \/ ClauseWord(t) \/ Termination(t)
  BY DEF Read
<1> HIDE DEF s, t
<1>6. Advances(s, t)
  <2>1. CASE t.type \in Errors /\ End(Is(t.type))
    <3>1. t.type \in Errors \cup {"crash"}
      BY <2>1
    <3> QED BY <1>1, <2>1, <3>1, Ends
  <2>2. CASE Bounded(t) /\ FirstWord(t)
    BY <1>1, <1>2, <1>3, <2>2, FirstStep
  <2>3. CASE Bounded(t) /\ SelectWord(t)
    BY <1>1, <1>2, <1>3, <2>3, SelectStep
  <2>4. CASE Bounded(t) /\ CreateWord(t)
    BY <1>1, <1>2, <1>3, <2>4, CreateStep
  <2>5. CASE Bounded(t) /\ InsertWord(t)
    BY <1>1, <1>2, <1>3, <2>5, InsertStep
  <2>6. CASE Bounded(t) /\ DeleteWord(t)
    BY <1>1, <1>2, <1>3, <2>6, DeleteStep
  <2>7. CASE Bounded(t) /\ DropWord(t)
    BY <1>1, <1>2, <1>3, <2>7, DropStep
  <2>8. CASE Bounded(t) /\ ClauseWord(t)
    BY <1>1, <1>2, <1>3, <2>8, ClauseStep
  <2>9. CASE Bounded(t) /\ Termination(t)
    BY <1>1, <1>2, <1>3, <2>9, TerminationStep
  <2> QED BY <1>5, <2>1, <2>2, <2>3, <2>4, <2>5, <2>6, <2>7, <2>8, <2>9, Zenon
<1>7. GotOK(got') /\ (outcome' = Reading => Said(at', got', Lexed'))
  BY <1>4, <1>6 DEF Advances
<1> QED BY <1>4, <1>7 DEF IInv

(* What a whole statement says is one of the five kinds.                   *)
LEMMA WholeKind ==
  ASSUME NEW g, NEW s, Whole(g, s)
  PROVE  g.is \in Kinds
<1>1. g.is \in {"select", "delete", "drop", "create", "insert"}
  <2>1. Scanning(g) => g.is \in {"select", "delete"}
    BY Zenon DEF Scanning
  <2>2. Creating(g) => g.is = "create"
    BY Zenon DEF Creating
  <2> QED BY <2>1, <2>2, Zenon DEF Whole
<1> QED BY <1>1 DEF Kinds

(* What becomes of a line is told from what it was.                        *)
LEMMA CallIs ==
  ASSUME got.is \in Kinds
  PROVE  Call.is = got.is
<1>1. CASE got.is = "select"
  BY <1>1 DEF Call
<1>2. CASE got.is = "delete"
  BY <1>2 DEF Call
<1>3. CASE got.is = "create"
  BY <1>3 DEF Call
<1>4. CASE got.is = "insert"
  BY <1>4 DEF Call
<1>5. CASE got.is = "drop"
  BY <1>5 DEF Call
<1> QED BY <1>1, <1>2, <1>3, <1>4, <1>5 DEF Kinds

(* The line ends. *)
LEMMA EndIInv ==
  ASSUME IInv, EndOfLine
  PROVE  IInv'
<1>1. outcome = Reading /\ read' = read /\ at' = at /\ got' = got
  BY DEF EndOfLine
<1>2. read \in Seq(Words) /\ GotOK(got) /\ Said(at, got, Lexed)
  BY <1>1 DEF IInv
<1>3. \/ outcome' = Is("nothing") \/ outcome' = Is("SyntaxError")
      \/ outcome' = Is("ReferenceError") \/ outcome' = Is("crash")
      \/ at = "end" /\ outcome' = Call
  BY Zenon DEF EndOfLine
<1>4. outcome' # Reading
  <2>1. Reading.is = "reading"
    BY DEF Reading, Is
  <2>2. CASE \/ outcome' = Is("nothing") \/ outcome' = Is("SyntaxError")
             \/ outcome' = Is("ReferenceError") \/ outcome' = Is("crash")
    BY <2>1, <2>2 DEF Is
  <2>3. CASE at = "end" /\ outcome' = Call
    <3>1. \E w \in Seq(Tok) : Whole(got, w)
      BY <1>2, <2>3, SaidWhere
    <3>2. got.is \in Kinds
      BY <3>1, WholeKind
    <3>3. outcome'.is = got.is
      BY <2>3, <3>2, CallIs
    <3> QED BY <2>1, <3>2, <3>3 DEF Kinds
  <2> QED BY <1>3, <2>2, <2>3
<1> QED BY <1>1, <1>2, <1>4 DEF IInv

(* A line begins. *)
LEMMA NextLineIInv ==
  ASSUME NextLine
  PROVE  IInv'
<1>1. read' = <<>> /\ at' = "first" /\ got' = Nothing
  BY DEF NextLine
<1>2. Lexed' = <<>>
  BY <1>1 DEF Lexed
<1>3. read' \in Seq(Words)
  BY <1>1
<1>4. Said(at', got', Lexed')
  BY <1>1, <1>2, Zenon DEF Said
<1>5. GotOK(got')
  BY <1>1, NothingOK
<1> QED BY <1>3, <1>4, <1>5 DEF IInv

(* Nothing is lost of what was said, and nothing added.                    *)
LEMMA Invariant == Spec => []IInv
<1>1. IInv /\ [Next]_vars => IInv'
  <2> SUFFICES ASSUME IInv, [Next]_vars PROVE IInv'
    OBVIOUS
  <2>1. CASE \E w \in Words : Read(w)
    BY <2>1, ReadIInv
  <2>2. CASE EndOfLine
    BY <2>2, EndIInv
  <2>3. CASE NextLine
    BY <2>3, NextLineIInv
  <2>4. CASE UNCHANGED vars
    BY <2>4 DEF vars, IInv, Lexed
  <2> QED BY <2>1, <2>2, <2>3, <2>4 DEF Next
<1> QED BY <1>1, InitIInv, PTL DEF Spec

(***************************************************************************)
(* What the parser collects has its type: known tables, lists within       *)
(* their bound, columns of the table, and at most one value too many.      *)
(***************************************************************************)
THEOREM TypeCorrect == Spec => []TypeOK
<1>1. IInv => TypeOK
  <2> SUFFICES ASSUME IInv PROVE TypeOK
    OBVIOUS
  <2>1. read \in Seq(Words) /\ GotOK(got)
    BY DEF IInv
  <2>2. /\ got.table \in Names \cup {<<>>} /\ Len(got.names) <= MaxList
        /\ Len(got.columns) <= MaxList /\ Len(got.where) <= 3
        /\ Len(got.values) <= Len(got.order) + 1
        /\ got.is \in {"select", "insert", "delete"} => got.table \in DOMAIN Schema \cup {<<>>}
    BY <2>1 DEF GotOK, GotType
  <2>3. (\A k \in Range(got.order) : k \in DOMAIN Schema[got.table]) /\ IsInjective(got.order)
    <3>1. CASE got.order = <<>>
      BY <3>1 DEF Range, IsInjective
    <3>2. CASE got.order # <<>>
      <4>1. Ordered(got)
        BY <2>1, <3>2 DEF GotOK
      <4>2. got.order \in Seq(DOMAIN Schema[got.table]) /\ IsInjective(got.order)
        BY <4>1 DEF Ordered
      <4> DEFINE D == DOMAIN Schema[got.table]
                 o == got.order
      <4>3. o \in Seq(D)
        BY <4>2
      <4> HIDE DEF D, o
      <4>4. \A k \in Range(o) : k \in D
        BY <4>3 DEF Range
      <4> QED BY <4>2, <4>4 DEF D, o
    <3> QED BY <3>1, <3>2
  <2> QED BY <2>1, <2>2, <2>3 DEF TypeOK
<1> QED BY <1>1, Invariant, PTL

----------------------------------------------------------------------------
(***************************************************************************)
(* A whole statement is one of those promised.                             *)
(***************************************************************************)
(* The order in which sequences are joined does not matter.                *)
Joined(a, b, c) == (a \o b) \o c = a \o (b \o c)

(* Joining is associative. *)
LEMMA JoinedAnyhow ==
  ASSUME NEW T, NEW a \in Seq(T), NEW b \in Seq(T), NEW c \in Seq(T)
  PROVE  Joined(a, b, c)
<1> DEFINE d == (a \o b) \o c
           e == a \o (b \o c)
<1>1. /\ a \o b \in Seq(T) /\ Len(a \o b) = Len(a) + Len(b)
      /\ b \o c \in Seq(T) /\ Len(b \o c) = Len(b) + Len(c)
  BY ConcatProperties
<1>2. d \in Seq(T) /\ e \in Seq(T)
  BY <1>1, ConcatProperties
<1>3. Len(d) = Len(a) + Len(b) + Len(c) /\ Len(e) = Len(a) + Len(b) + Len(c)
  BY <1>1
<1>4. \A i \in 1 .. Len(d) : d[i] = e[i]
  BY <1>1, <1>3
<1> HIDE DEF d, e
<1>5. d = e
  BY <1>2, <1>3, <1>4, SeqEqual
<1> QED BY <1>5 DEF Joined, d, e

(* One, two or four words more. *)
EndsWith(a, x)       == Append(a, x) = a \o <<x>>
EndsWithTwo(a, x, y) == Append(Append(a, x), y) = a \o <<x, y>>
EndsWithFour(a, x, y, z, u) ==
  Append(Append(Append(Append(a, x), y), z), u) = a \o (<<x>> \o <<y, z, u>>)

(* Appended words are joined ones. *)
LEMMA MoreWords ==
  ASSUME NEW T, NEW a \in Seq(T), NEW x \in T, NEW y \in T, NEW z \in T, NEW u \in T
  PROVE  EndsWith(a, x) /\ EndsWithTwo(a, x, y) /\ EndsWithFour(a, x, y, z, u)
<1>1. \A b \in Seq(T), v \in T : Append(b, v) = b \o <<v>>
  BY AppendIsConcat
<1>2. <<x>> \in Seq(T) /\ Append(<<x>>, y) = <<x, y>>
  BY PairIs
<1>3. Adds(a, <<x>>, y) /\ AddsThree(a, <<x>>, y, z, u)
  BY <1>2, AppendConcat, AppendThree
<1>4. EndsWith(a, x)
  BY <1>1, Zenon DEF EndsWith
<1> QED BY <1>2, <1>3, <1>4, Zenon DEF EndsWith, EndsWithTwo, EndsWithFour, Adds, AddsThree

(* A list within its bound. *)
LEMMA InLists ==
  ASSUME NEW S, NEW l \in Seq(S), l # <<>>, Len(l) <= MaxList
  PROVE  l \in Lists(S)
<1>1. Len(l) \in 1 .. MaxList /\ l \in [1 .. Len(l) -> S]
  BY ListBound
<1> QED BY <1>1 DEF Lists

(* The clause. *)
LEMMA ClauseIs ==
  ASSUME NEW g, NEW s, ScanWhole(g, s), ScanHead(g) \in Seq(Tok)
  PROVE  g.where \in Clauses /\ s = ScanHead(g) \o Where(g.where)
<1> DEFINE a == ScanHead(g)
<1>1. a \in Seq(Tok)
  OBVIOUS
<1>2. CASE g.where = <<>> /\ s = ScanHead(g)
  <2>1. Where(g.where) = <<>>
    BY <1>2 DEF Where
  <2>2. g.where \in Clauses
    BY <1>2 DEF Clauses
  <2> HIDE DEF a
  <2>3. a \o <<>> = a
    BY <1>1, ConcatEmptySeq
  <2> QED BY <1>2, <2>1, <2>2, <2>3 DEF a
<1>3. ASSUME NEW n \in Names, NEW op \in Operators, NEW v \in Values,
             g.where = <<Ident(n), Plain(op), v>>,
             s = Append(Append(Append(Append(ScanHead(g), Plain("WHERE")), Ident(n)), Plain(op)), v)
      PROVE  g.where \in Clauses /\ s = ScanHead(g) \o Where(g.where)
  <2>1. Plain("WHERE") \in Tok /\ Ident(n) \in Tok /\ Plain(op) \in Tok /\ v \in Tok
    BY PlainTok DEF Tok
  <2> HIDE DEF a
  <2>2. EndsWithFour(a, Plain("WHERE"), Ident(n), Plain(op), v)
    BY <1>1, <2>1, MoreWords
  <2>3. g.where # <<>>
    BY <1>3
  <2>4. Where(g.where) = <<Plain("WHERE")>> \o <<Ident(n), Plain(op), v>>
    BY <1>3, <2>3, Zenon DEF Where
  <2>5. g.where \in Clauses
    BY <1>3 DEF Clauses
  <2> QED BY <1>3, <2>2, <2>4, <2>5, Zenon DEF EndsWithFour, a
<1> QED BY <1>2, <1>3, Zenon DEF ScanWhole

(* What is asked, with the tokens it is asked with.                        *)
Asked(s) == [tokens |-> s \o <<Plain("SEMICOLON")>>, call |-> Call]

(* A whole DELETE is promised. *)
LEMMA DeleteMeant ==
  ASSUME NEW s \in Seq(Tok), GotOK(got), got.is = "delete", Scanning(got), ScanWhole(got, s)
  PROVE  Asked(s) \in Promised
<1>1. got.table \in DOMAIN Schema /\ got.table \in Names
  BY Tables, Zenon DEF Scanning
<1>2. ScanHead(got) = <<Plain("DELETE"), Plain("FROM"), Ident(got.table)>>
  BY DEF ScanHead
<1>3. ScanHead(got) \in Seq(Tok)
  <2>1. Plain("DELETE") \in Tok /\ Plain("FROM") \in Tok /\ Ident(got.table) \in Tok
    BY <1>1, PlainTok DEF Tok
  <2> QED BY <1>2, <2>1
<1>4. got.where \in Clauses /\ s = ScanHead(got) \o Where(got.where)
  BY <1>3, ClauseIs
<1>5. Call = [is |-> "delete", table |-> got.table, where |-> got.where]
  BY DEF Call
<1>6. Asked(s) = Written(<<Plain("DELETE"), Plain("FROM"), Ident(got.table)>> \o Where(got.where),
                         [is |-> "delete", table |-> got.table, where |-> got.where])
  BY <1>2, <1>4, <1>5, Zenon DEF Asked, Written
<1>7. Asked(s) \in Deletes
  <2> DEFINE n == got.table
             c == got.where
  <2>1. n \in DOMAIN Schema /\ c \in Clauses
    BY <1>1, <1>4
  <2> HIDE DEF n, c
  <2>2. Written(<<Plain("DELETE"), Plain("FROM"), Ident(n)>> \o Where(c),
                [is |-> "delete", table |-> n, where |-> c]) \in Deletes
    BY <2>1, SMT DEF Deletes
  <2> QED BY <1>6, <2>2, Zenon DEF n, c
<1> QED BY <1>7, Zenon DEF Promised

(* The statements promised for one table. *)
SelectAll(t, c) ==
  SelectFrom(t, <<Plain("ASTERISK")>>, [k \in DOMAIN Schema[t] |-> Schema[t][k].name], c)
SelectOf(t, l, c) == SelectFrom(t, Idents(l), l, c)
SelectsOf(t) ==
  {SelectAll(t, c) : c \in Clauses} \cup {SelectOf(t, l, c) : l \in Lists(NamesIn(t)), c \in Clauses}

(* They are among those promised. *)
LEMMA SelectsAre ==
  ASSUME NEW t \in DOMAIN Schema, NEW c \in Clauses
  PROVE  /\ SelectAll(t, c) \in Selects
         /\ \A l \in Lists(NamesIn(t)) : SelectOf(t, l, c) \in Selects
<1>1. Selects = UNION {SelectsOf(u) : u \in DOMAIN Schema}
  BY SMT DEF Selects, SelectsOf, SelectAll, SelectOf
<1>2. SelectsOf(t) \in {SelectsOf(u) : u \in DOMAIN Schema}
  BY Zenon
<1>3. SelectAll(t, c) \in SelectsOf(t)
  BY SMT DEF SelectsOf
<1>4. \A l \in Lists(NamesIn(t)) : SelectOf(t, l, c) \in SelectsOf(t)
  BY SMT DEF SelectsOf
<1> QED BY <1>1, <1>2, <1>3, <1>4, Zenon

(* A whole SELECT is promised. *)
LEMMA SelectMeant ==
  ASSUME NEW s \in Seq(Tok), GotOK(got), got.is = "select", Scanning(got), ScanWhole(got, s)
  PROVE  Asked(s) \in Promised
<1> DEFINE n == got.table
           c == got.where
           l == ListedNames(got)
           a == <<Plain("SELECT")>> \o l
           columns == IF got.all THEN AllNames ELSE got.names
<1>1. n \in DOMAIN Schema /\ n \in Names
  BY Tables, Zenon DEF Scanning
<1>2. got.all \/ (got.names # <<>> /\ Range(got.names) \subseteq NamesIn(n))
  BY Zenon DEF Scanning
<1>3. Plain("SELECT") \in Tok /\ Plain("FROM") \in Tok /\ Ident(n) \in Tok /\ Plain("ASTERISK") \in Tok
  BY <1>1, PlainTok DEF Tok
<1>4. l \in Seq(Tok)
  <2>1. <<Plain("ASTERISK")>> \in Seq(Tok)
    BY <1>3
  <2>2. Idents(got.names) \in Seq(Tok)
    <3>1. got.names \in Seq(Names)
      BY GotParts
    <3>2. <<>> \in Seq(Tok)
      OBVIOUS
    <3> QED BY <1>1, <3>1, <3>2, IdentsGrow
  <2> QED BY <2>1, <2>2 DEF ListedNames
<1>5. a \in Seq(Tok)
  <2>1. <<Plain("SELECT")>> \in Seq(Tok)
    BY <1>3
  <2> HIDE DEF l
  <2> QED BY <1>4, <2>1, ConcatProperties
<1>6. ScanHead(got) = Append(Append(a, Plain("FROM")), Ident(n))
  BY DEF ScanHead
<1> HIDE DEF a
<1>7. ScanHead(got) = a \o <<Plain("FROM"), Ident(n)>>
  <2>1. EndsWithTwo(a, Plain("FROM"), Ident(n))
    BY <1>3, <1>5, MoreWords
  <2> QED BY <1>6, <2>1, Zenon DEF EndsWithTwo
<1>8. ScanHead(got) \in Seq(Tok)
  <2> HIDE DEF n
  <2> QED BY <1>3, <1>5, <1>6
<1>9. c \in Clauses /\ s = ScanHead(got) \o Where(c)
  BY <1>8, ClauseIs
<1>10. Call = [is |-> "select", table |-> n, where |-> c, columns |-> columns]
  BY DEF Call
<1> HIDE DEF columns, c, l
<1>11. Asked(s) = SelectFrom(n, l, columns, c)
  <2>1. Call = [is |-> "select", table |-> n, columns |-> columns, where |-> c]
    BY <1>10
  <2>2. s = <<Plain("SELECT")>> \o l \o <<Plain("FROM"), Ident(n)>> \o Where(c)
    BY <1>7, <1>9, Zenon DEF a
  <2> QED BY <2>1, <2>2, Zenon DEF Asked, SelectFrom, Written
<1>12. Asked(s) \in Selects
  <2>1. CASE got.all
    <3>1. l = <<Plain("ASTERISK")>>
      BY <2>1, Zenon DEF l, ListedNames
    <3>2. columns = [k \in DOMAIN Schema[n] |-> Schema[n][k].name]
      BY <2>1, Zenon DEF columns, AllNames
    <3>3. Asked(s) = SelectAll(n, c)
      BY <1>11, <3>1, <3>2, Zenon DEF SelectAll
    <3> HIDE DEF n
    <3>4. SelectAll(n, c) \in Selects
      BY <1>1, <1>9, SelectsAre
    <3> QED BY <3>3, <3>4
  <2>2. CASE ~got.all
    <3>1. l = Idents(got.names) /\ columns = got.names
      BY <2>2, Zenon DEF l, ListedNames, columns
    <3>2. got.names \in Lists(NamesIn(n))
      <4> DEFINE m == got.names
                 S == NamesIn(n)
      <4>1. m \in Seq(Names) /\ m # <<>> /\ Len(m) <= MaxList
        BY <1>2, <2>2, GotParts DEF GotOK
      <4>2. Range(m) \subseteq S
        BY <1>2, <2>2, Zenon
      <4> HIDE DEF m, S
      <4>3. \A i \in 1 .. Len(m) : m[i] \in S
        BY <4>1, <4>2 DEF Range
      <4>4. m \in Seq(S)
        BY <4>1, <4>3
      <4>5. m \in Lists(S)
        BY <4>1, <4>4, InLists
      <4> QED BY <4>5 DEF m, S
    <3>3. Asked(s) = SelectOf(n, got.names, c)
      BY <1>11, <3>1, Zenon DEF SelectOf
    <3> HIDE DEF n
    <3>4. SelectOf(n, got.names, c) \in Selects
      BY <1>1, <1>9, <3>2, SelectsAre
    <3> QED BY <3>3, <3>4
  <2> QED BY <2>1, <2>2
<1> QED BY <1>12, Zenon DEF Promised

(* A whole DROP is promised. *)
LEMMA DropMeant ==
  ASSUME NEW s, got.is = "drop", Known(got.table),
         s = <<Plain("DROP"), Plain("TABLE"), Ident(got.table)>>
  PROVE  Asked(s) \in Promised
<1>1. Call = [is |-> "drop", table |-> got.table]
  BY DEF Call
<1>2. Asked(s) = Written(<<Plain("DROP"), Plain("TABLE"), Ident(got.table)>>,
                         [is |-> "drop", table |-> got.table])
  BY <1>1, Zenon DEF Asked, Written
<1>3. Asked(s) \in Drops
  BY <1>2, Zenon DEF Drops, Known
<1> QED BY <1>3, Zenon DEF Promised

(* A list in parentheses, behind a head. *)
InParen(a, x, y) == Append(Append(a, Plain("OPEN_PAREN")) \o x, Plain("CLOSE_PAREN")) = a \o y

(* Words appended with their parentheses. *)
LEMMA ParenIs ==
  ASSUME NEW a \in Seq(Tok), NEW x \in Seq(Tok)
  PROVE  InParen(a, x, Paren(x)) /\ Paren(x) \in Seq(Tok)
<1> DEFINE o == <<Plain("OPEN_PAREN")>>
           c == <<Plain("CLOSE_PAREN")>>
<1>1. o \in Seq(Tok) /\ c \in Seq(Tok) /\ Plain("OPEN_PAREN") \in Tok /\ Plain("CLOSE_PAREN") \in Tok
  BY PlainTok
<1>2. Append(a, Plain("OPEN_PAREN")) = a \o o
  BY <1>1, MoreWords DEF EndsWith
<1>3. Paren(x) = (o \o x) \o c
  BY DEF Paren
<1>4. a \o o \in Seq(Tok) /\ o \o x \in Seq(Tok) /\ (a \o o) \o x \in Seq(Tok)
  <2> HIDE DEF o
  <2> QED BY <1>1, ConcatProperties
<1>5. Append((a \o o) \o x, Plain("CLOSE_PAREN")) = ((a \o o) \o x) \o c
  BY <1>1, <1>4, MoreWords DEF EndsWith
<1> HIDE DEF o, c
<1>6. Joined(a, o, x) /\ Joined(a, o \o x, c)
  BY <1>1, <1>4, JoinedAnyhow
<1>7. (o \o x) \o c \in Seq(Tok)
  BY <1>1, <1>4, ConcatProperties
<1> QED BY <1>2, <1>3, <1>5, <1>6, <1>7, Zenon DEF InParen, Joined

(* A whole CREATE is promised. *)
LEMMA CreateMeant ==
  ASSUME NEW s \in Seq(Tok), GotOK(got), Creating(got), NEW l \in ColumnLists, l # <<>>,
         got.columns = ColumnsOf(l),
         s = Append(CreateHead(got) \o ColumnWords(l), Plain("CLOSE_PAREN"))
  PROVE  Asked(s) \in Promised
<1> DEFINE n == got.table
           a == <<Plain("CREATE"), Plain("TABLE"), Ident(n)>>
           x == ColumnWords(l)
<1>1. got.is = "create" /\ n \in Names \ DOMAIN Schema
  BY Zenon DEF Creating
<1>2. Plain("CREATE") \in Tok /\ Plain("TABLE") \in Tok /\ Ident(n) \in Tok /\ Plain("OPEN_PAREN") \in Tok
  BY <1>1, PlainTok DEF Tok
<1>3. CreateHead(got) = Append(a, Plain("OPEN_PAREN")) /\ a \in Seq(Tok)
  BY <1>2, FourAre DEF CreateHead
<1>4. l \in Seq(Names \X Types) /\ l \in Lists(Names \X Types)
  <2> DEFINE S == Names \X Types
  <2>1. l \in Seq(S) /\ Len(l) <= MaxList
    BY DEF ColumnLists
  <2> HIDE DEF S
  <2>2. l \in Lists(S)
    BY <2>1, InLists
  <2> QED BY <2>1, <2>2 DEF S
<1>5. x \in Seq(Tok)
  <2>1. <<>> \in Seq(Tok)
    OBVIOUS
  <2>2. \E ty : ty \in Types
    BY DEF Types
  <2> QED BY <1>1, <1>4, <2>1, <2>2, ColumnsGrow
<1> HIDE DEF a
<1>6. s = a \o Paren(x)
  <2> HIDE DEF x
  <2>1. InParen(a, x, Paren(x))
    BY <1>3, <1>5, ParenIs
  <2> QED BY <1>3, <2>1, Zenon DEF InParen, x
<1>7. Call = [is |-> "create", table |-> n, columns |-> got.columns]
  BY <1>1 DEF Call
<1>8. got.columns = [i \in DOMAIN l |-> LET c == Column(l[i][1], DataTypeOf[l[i][2]])
                                        IN  IF i = 1 THEN Key(c) ELSE NoKey(c)]
  BY DEF ColumnsOf, ColumnAt
<1>9. x = ListOf([i \in DOMAIN l |-> <<Ident(l[i][1]), Plain(l[i][2])>>])
  BY DEF ColumnWords
<1> HIDE DEF x
<1>10. Asked(s) =
         Written(<<Plain("CREATE"), Plain("TABLE"), Ident(n)>>
                   \o Paren(ListOf([i \in DOMAIN l |-> <<Ident(l[i][1]), Plain(l[i][2])>>])),
                 [is |-> "create", table |-> n,
                  columns |-> [i \in DOMAIN l |->
                                 LET c == Column(l[i][1], DataTypeOf[l[i][2]])
                                 IN  IF i = 1 THEN Key(c) ELSE NoKey(c)]])
  BY <1>6, <1>7, <1>8, <1>9, Zenon DEF Asked, Written, a
<1>11. Asked(s) \in Creates
  <2> HIDE DEF n
  <2> DEFINE F(u, k) ==
         Written(<<Plain("CREATE"), Plain("TABLE"), Ident(u)>>
                   \o Paren(ListOf([i \in DOMAIN k |-> <<Ident(k[i][1]), Plain(k[i][2])>>])),
                 [is |-> "create", table |-> u,
                  columns |-> [i \in DOMAIN k |->
                                 LET c == Column(k[i][1], DataTypeOf[k[i][2]])
                                 IN  IF i = 1 THEN Key(c) ELSE NoKey(c)]])
             All == {F(u, k) : u \in Names \ DOMAIN Schema, k \in Lists(Names \X Types)}
  <2>1. Creates = All
    BY DEF Creates
  <2>2. Asked(s) = F(n, l)
    BY <1>10
  <2> HIDE DEF F
  <2>3. F(n, l) \in All
    BY <1>1, <1>4, SMT
  <2> HIDE DEF All
  <2> QED BY <2>1, <2>2, <2>3, Zenon
<1> QED BY <1>11, Zenon DEF Promised

----------------------------------------------------------------------------
(***************************************************************************)
(* The row of an INSERT.                                                   *)
(***************************************************************************)
(* Every column once: an order of the columns.                             *)
LEMMA OrderIs ==
  ASSUME NEW n \in Nat, NEW o \in Seq(1 .. n), IsInjective(o), Range(o) = 1 .. n
  PROVE  Len(o) = n /\ o \in Orders(n)
<1> DEFINE m == Len(o)
<1>1. m \in Nat /\ o \in [1 .. m -> 1 .. n]
  OBVIOUS
<1>2. \A i, j \in 1 .. m : o[i] = o[j] => i = j
  BY <1>1 DEF IsInjective
<1>3. \A k \in 1 .. n : \E i \in 1 .. m : o[i] = k
  BY <1>1 DEF Range
<1> HIDE DEF m
<1>4. ExistsBijection(1 .. m, 1 .. n)
  <2>1. o \in Bijection(1 .. m, 1 .. n)
    BY <1>1, <1>2, <1>3 DEF Bijection, Injection, Surjection
  <2> QED BY <2>1 DEF ExistsBijection
<1>5. Cardinality(1 .. n) = m
  BY <1>1, <1>4, FS_CountingElements
<1>6. Cardinality(1 .. n) = n
  <2>1. Cardinality(1 .. n) = IF 1 > n THEN 0 ELSE n - 1 + 1
    BY FS_Interval
  <2> QED BY <2>1
<1>7. m = n
  BY <1>5, <1>6
<1> QED BY <1>1, <1>2, <1>7 DEF Orders, m

(* What an order of the columns and the values for them make: a row of     *)
(* the table, each value in the column named at its place.                 *)
Whose(o, k)    == CHOOSE j \in DOMAIN o : o[j] = k
RowOf(o, v)    == [k \in DOMAIN o |-> v[Whose(o, k)]]
Placed(o, v, r) == \A i \in DOMAIN o : r[o[i]] = v[i]

(* Each column has its value, and each value its column. *)
LEMMA RowIs ==
  ASSUME NEW n \in Nat, NEW o \in Seq(1 .. n), IsInjective(o), Range(o) = 1 .. n, Len(o) = n,
         NEW v \in Seq(Values), Len(v) = n
  PROVE  /\ \A k \in 1 .. n : Whose(o, k) \in 1 .. n /\ o[Whose(o, k)] = k
         /\ RowOf(o, v) \in [1 .. n -> Values]
         /\ Placed(o, v, RowOf(o, v))
<1>1. DOMAIN o = 1 .. n /\ DOMAIN v = 1 .. n /\ \A i \in 1 .. n : o[i] \in 1 .. n /\ v[i] \in Values
  OBVIOUS
<1>2. \A i, j \in 1 .. n : o[i] = o[j] => i = j
  BY <1>1 DEF IsInjective
<1>3. \A k \in 1 .. n : \E i \in 1 .. n : o[i] = k
  BY <1>1 DEF Range
<1>4. \A k \in 1 .. n : Whose(o, k) \in 1 .. n /\ o[Whose(o, k)] = k
  BY <1>1, <1>3, Zenon DEF Whose
<1>5. \A i \in 1 .. n : Whose(o, o[i]) = i
  BY <1>1, <1>2, <1>4
<1>6. RowOf(o, v) = [k \in 1 .. n |-> v[Whose(o, k)]]
  BY <1>1 DEF RowOf
<1>7. RowOf(o, v) \in [1 .. n -> Values]
  BY <1>1, <1>4, <1>6
<1>8. Placed(o, v, RowOf(o, v))
  BY <1>1, <1>5, <1>6 DEF Placed
<1> QED BY <1>4, <1>7, <1>8

(* A table whose every column is the last of its name has no two of one    *)
(* name.                                                                   *)
LEMMA NamesDiffer ==
  ASSUME NEW t \in DOMAIN Schema, \A k \in DOMAIN Schema[t] : LastNamed(t, k)
  PROVE  Distinct(t)
<1>1. DOMAIN Schema[t] = 1 .. Len(Schema[t]) /\ Len(Schema[t]) \in Nat
  BY Tables
<1>2. \A i, j \in DOMAIN Schema[t] : Schema[t][i].name = Schema[t][j].name => i <= j /\ j <= i
  BY Zenon DEF LastNamed
<1> QED BY <1>1, <1>2 DEF Distinct

(* The row handed over. *)
RowMeant(r) ==
  /\ got.order \in Orders(Len(Schema[got.table]))
  /\ r \in RowsOf(got.table)
  /\ Distinct(got.table)
  /\ Placed(got.order, got.values, r)
  /\ DOMAIN got.order = DOMAIN got.values

(* ordered_columns builds that row. *)
LEMMA OrderedColumnsAre ==
  ASSUME GotOK(got), Named(got), Fitting(got), Len(got.values) = Len(got.order)
  PROVE  RowMeant(OrderedColumns)
<1> DEFINE t == got.table
           o == got.order
           v == got.values
           n == Len(Schema[t])
<1>1. t \in DOMAIN Schema /\ DOMAIN Schema[t] = 1 .. n /\ n \in Nat
  BY Tables DEF Named, Ordered
<1>2. /\ o \in Seq(DOMAIN Schema[t]) /\ IsInjective(o) /\ Range(o) = DOMAIN Schema[t]
      /\ \A i \in DOMAIN o : LastNamed(t, o[i])
  BY Zenon DEF Named, Ordered
<1>3. v \in Seq(Values) /\ Len(v) = Len(o)
  BY GotParts
<1>4. \A i \in DOMAIN v : i <= Len(o) => LiteralType[v[i].type] = Schema[t][o[i]].type
  BY Zenon DEF Fitting
<1>5. OrderedColumns =
        [k \in DOMAIN o |-> IF Whose(o, k) <= Len(v) THEN v[Whose(o, k)] ELSE Garbage]
  BY DEF OrderedColumns, Whose
<1> HIDE DEF n, o, v
<1>6. o \in Seq(1 .. n) /\ Range(o) = 1 .. n
  BY <1>1, <1>2
<1> HIDE DEF t
<1>7. Len(o) = n /\ o \in Orders(n)
  BY <1>1, <1>2, <1>6, OrderIs
<1>8. /\ \A k \in 1 .. n : Whose(o, k) \in 1 .. n /\ o[Whose(o, k)] = k
      /\ RowOf(o, v) \in [1 .. n -> Values]
      /\ Placed(o, v, RowOf(o, v))
  <2>1. Len(v) = n
    BY <1>3, <1>7
  <2> QED BY <1>1, <1>2, <1>3, <1>6, <1>7, <2>1, RowIs
<1>9. DOMAIN o = 1 .. n /\ DOMAIN v = 1 .. n /\ Len(v) = n
  BY <1>3, <1>6, <1>7
<1>10. RowOf(o, v) = [k \in 1 .. n |-> v[Whose(o, k)]]
  BY <1>9 DEF RowOf
<1>11. OrderedColumns = RowOf(o, v)
  <2>1. \A k \in 1 .. n : Whose(o, k) <= Len(v)
    BY <1>1, <1>8, <1>9
  <2> QED BY <1>5, <1>9, <1>10, <2>1
<1>12. \A k \in DOMAIN Schema[t] : LiteralType[RowOf(o, v)[k].type] = Schema[t][k].type
  <2> SUFFICES ASSUME NEW k \in 1 .. n PROVE LiteralType[RowOf(o, v)[k].type] = Schema[t][k].type
    BY <1>1
  <2> DEFINE i == Whose(o, k)
  <2>1. i \in 1 .. n /\ o[i] = k /\ RowOf(o, v)[k] = v[i]
    BY <1>8, <1>10
  <2> HIDE DEF i
  <2>2. i \in DOMAIN v /\ i <= Len(o)
    BY <1>1, <1>7, <1>9, <2>1
  <2>3. LiteralType[v[i].type] = Schema[t][o[i]].type
    BY <1>4, <2>2
  <2> QED BY <2>1, <2>3
<1>13. RowOf(o, v) \in RowsOf(t)
  <2>1. RowOf(o, v) \in [DOMAIN Schema[t] -> Values]
    BY <1>1, <1>8
  <2> QED BY <1>12, <2>1, Zenon DEF RowsOf
<1>14. Distinct(t)
  <2>1. \A k \in DOMAIN Schema[t] : LastNamed(t, k)
    <3> SUFFICES ASSUME NEW k \in 1 .. n PROVE LastNamed(t, k)
      BY <1>1
    <3>1. Whose(o, k) \in DOMAIN o /\ o[Whose(o, k)] = k
      BY <1>8, <1>9
    <3> QED BY <1>2, <3>1
  <2> QED BY <1>1, <2>1, NamesDiffer
<1>15. Placed(o, v, OrderedColumns) /\ OrderedColumns \in RowsOf(t)
  BY <1>8, <1>11, <1>13
<1>16. DOMAIN o = DOMAIN v
  BY <1>9
<1> QED BY <1>7, <1>14, <1>15, <1>16, Zenon DEF RowMeant, n, o, v, t

(* The statements promised for one table. *)
InsertWords(t, l, v) ==
  <<Plain("INSERT"), Plain("INTO"), Ident(t)>> \o Paren(l) \o <<Plain("VALUES")>> \o Paren(v)
InsertOf(t, p, r) ==
  Written(InsertWords(t, Idents([i \in DOMAIN p |-> Schema[t][p[i]].name]),
                      ListOf([i \in DOMAIN p |-> <<r[p[i]]>>])),
          [is |-> "insert", table |-> t, row |-> r])
InsertsOf(t) == {InsertOf(t, p, r) : p \in Orders(Len(Schema[t])), r \in RowsOf(t)}

(* They are among those promised. *)
LEMMA InsertsAre ==
  ASSUME NEW t \in DOMAIN Schema, Distinct(t), NEW p \in Orders(Len(Schema[t])), NEW r \in RowsOf(t)
  PROVE  InsertOf(t, p, r) \in Inserts
<1>1. Inserts = UNION {InsertsOf(u) : u \in {u \in DOMAIN Schema : Distinct(u)}}
  BY SMT DEF Inserts, InsertsOf, InsertOf, InsertWords
<1>2. InsertsOf(t) \in {InsertsOf(u) : u \in {u \in DOMAIN Schema : Distinct(u)}}
  BY Zenon
<1>3. InsertOf(t, p, r) \in InsertsOf(t)
  BY SMT DEF InsertsOf
<1> QED BY <1>1, <1>2, <1>3, Zenon

(* The names and the values of an INSERT, each in their parentheses.       *)
LEMMA InsertWordsAre ==
  ASSUME Ordered(got), NEW v \in Seq(Tok)
  PROVE  Append(RowHead(got) \o v, Plain("CLOSE_PAREN"))
           = InsertWords(got.table, Idents(OrderNames(got)), v)
<1> DEFINE a == <<Plain("INSERT"), Plain("INTO"), Ident(got.table)>>
           l == Idents(OrderNames(got))
           b == a \o Paren(l)
           V == Plain("VALUES")
           c == b \o <<V>>
<1>1. got.table \in Names
  BY Tables, Zenon DEF Ordered
<1>2. Plain("INSERT") \in Tok /\ Plain("INTO") \in Tok /\ Ident(got.table) \in Tok
      /\ Plain("OPEN_PAREN") \in Tok /\ V \in Tok
  BY <1>1, PlainTok DEF Tok
<1>3. InsertHead(got) = Append(a, Plain("OPEN_PAREN")) /\ a \in Seq(Tok)
  BY <1>2, FourAre DEF InsertHead
<1>4. l \in Seq(Tok)
  <2>1. OrderNames(got) \in Seq(Names)
    BY NamesType
  <2>2. <<>> \in Seq(Tok)
    OBVIOUS
  <2> QED BY <1>1, <2>1, <2>2, IdentsGrow
<1> HIDE DEF a, l, V
<1>5. InParen(a, l, Paren(l)) /\ Paren(l) \in Seq(Tok)
  BY <1>3, <1>4, ParenIs
<1>6. b \in Seq(Tok)
  BY <1>3, <1>5, ConcatProperties
<1>7. <<V>> \in Seq(Tok)
  BY <1>2
<1>8. EndsWith(b, V)
  <2> HIDE DEF b
  <2> QED BY <1>2, <1>6, MoreWords
<1> HIDE DEF b
<1>9. c \in Seq(Tok)
  BY <1>6, <1>7, ConcatProperties
<1> HIDE DEF c
<1>10. InParen(c, v, Paren(v))
  BY <1>9, ParenIs
<1>11. RowHead(got) = Append(Append(Append(InsertHead(got) \o l, Plain("CLOSE_PAREN")), V), Plain("OPEN_PAREN"))
  BY Zenon DEF RowHead, OrderWords, l, V
<1>12. RowHead(got) = Append(c, Plain("OPEN_PAREN"))
  BY <1>3, <1>5, <1>8, <1>11, Zenon DEF InParen, EndsWith, b, c
<1>13. Append(RowHead(got) \o v, Plain("CLOSE_PAREN")) = c \o Paren(v)
  BY <1>10, <1>12, Zenon DEF InParen
<1> QED BY <1>13, Zenon DEF InsertWords, a, b, c, l, V

(* A whole INSERT is promised. *)
LEMMA InsertMeant ==
  ASSUME NEW s \in Seq(Tok), GotOK(got), got.is = "insert", Named(got), Fitting(got),
         Len(got.values) = Len(got.order), got.values # <<>>,
         s = Append(RowHead(got) \o ValueWords(got.values), Plain("CLOSE_PAREN"))
  PROVE  Asked(s) \in Promised
<1> DEFINE t == got.table
           o == got.order
           v == got.values
           r == OrderedColumns
<1>1. Ordered(got) /\ t \in DOMAIN Schema
  BY Zenon DEF Named, Ordered
<1>2. RowMeant(r)
  BY OrderedColumnsAre
<1>3. ValueWords(v) \in Seq(Tok)
  <2>1. v \in Seq(Values) /\ v # <<>>
    BY GotParts
  <2>2. <<>> \in Seq(Tok)
    OBVIOUS
  <2>3. v[1] \in Values
    <3> HIDE DEF v
    <3> QED BY <2>1
  <2> HIDE DEF v
  <2> QED BY <2>1, <2>2, <2>3, ValuesGrow
<1>4. s = InsertWords(t, Idents(OrderNames(got)), ValueWords(v))
  <2> DEFINE w == ValueWords(v)
  <2> HIDE DEF w
  <2>1. w \in Seq(Tok)
    BY <1>3 DEF w
  <2>2. Append(RowHead(got) \o w, Plain("CLOSE_PAREN")) = InsertWords(t, Idents(OrderNames(got)), w)
    BY <1>1, <2>1, InsertWordsAre
  <2> QED BY <2>2, Zenon DEF w
<1>5. OrderNames(got) = [i \in DOMAIN o |-> Schema[t][o[i]].name]
  BY DEF OrderNames
<1>6. ValueWords(v) = ListOf([i \in DOMAIN o |-> <<r[o[i]]>>])
  <2>1. DOMAIN o = DOMAIN v /\ \A i \in DOMAIN o : r[o[i]] = v[i]
    BY <1>2, Zenon DEF RowMeant, Placed
  <2> HIDE DEF o, v, r
  <2>2. [i \in DOMAIN o |-> <<r[o[i]]>>] = [i \in DOMAIN v |-> <<v[i]>>]
    BY <2>1
  <2> QED BY <2>2, Zenon DEF ValueWords
<1>7. Call = [is |-> "insert", table |-> t, row |-> r]
  BY DEF Call
<1> HIDE DEF r
<1>8. Asked(s) = InsertOf(t, o, r)
  BY <1>4, <1>5, <1>6, <1>7, Zenon DEF Asked, InsertOf, Written
<1>9. o \in Orders(Len(Schema[t])) /\ r \in RowsOf(t) /\ Distinct(t)
  BY <1>2, Zenon DEF RowMeant
<1> HIDE DEF t, o
<1>10. InsertOf(t, o, r) \in Inserts
  BY <1>1, <1>9, InsertsAre
<1> QED BY <1>8, <1>10, Zenon DEF Promised

(* Whatever is said in whole is promised, and asked for what it says.      *)
LEMMA WholeIsMeant ==
  ASSUME NEW s \in Seq(Tok), GotOK(got), Whole(got, s), got.is = "drop" => Known(got.table),
         Len(got.values) = Len(got.order)
  PROVE  Asked(s) \in Promised
<1>1. CASE Scanning(got) /\ ScanWhole(got, s)
  <2>1. got.is = "select" \/ got.is = "delete"
    BY <1>1, Zenon DEF Scanning
  <2> QED BY <1>1, <2>1, SelectMeant, DeleteMeant
<1>2. CASE got.is = "drop" /\ s = <<Plain("DROP"), Plain("TABLE"), Ident(got.table)>>
  BY <1>2, DropMeant, Zenon
<1>3. CASE Creating(got) /\ \E l \in ColumnLists :
             /\ l # <<>> /\ got.columns = ColumnsOf(l)
             /\ s = Append(CreateHead(got) \o ColumnWords(l), Plain("CLOSE_PAREN"))
  BY <1>3, CreateMeant, Zenon
<1>4. CASE /\ got.is = "insert" /\ Named(got) /\ Fitting(got) /\ got.values # <<>>
           /\ s = Append(RowHead(got) \o ValueWords(got.values), Plain("CLOSE_PAREN"))
  BY <1>4, InsertMeant, Zenon
<1> QED BY <1>1, <1>2, <1>3, <1>4, Zenon DEF Whole

(* A line that ends.                                                       *)
LEMMA EndMeant ==
  ASSUME IInv, EndOfLine
  PROVE  UnderstoodIsMeant'
<1> DEFINE S == Plain("SEMICOLON")
<1> SUFFICES ASSUME Understood(outcome'), Len(got'.values) = Len(got'.order)
             PROVE  [tokens |-> Lexed', call |-> outcome'] \in Promised
  BY DEF UnderstoodIsMeant
<1>1. outcome = Reading /\ read' = read /\ got' = got
  BY DEF EndOfLine
<1>2. read \in Seq(Words) /\ GotOK(got) /\ Said(at, got, Lexed)
  BY <1>1 DEF IInv
<1>3. \/ outcome' = Is("nothing") \/ outcome' = Is("SyntaxError")
      \/ outcome' = Is("ReferenceError") \/ outcome' = Is("crash")
      \/ at = "end" /\ outcome' = Call /\ (got.is = "drop" => Known(got.table))
  BY Zenon DEF EndOfLine
<1>4. at = "end" /\ outcome' = Call /\ (got.is = "drop" => Known(got.table))
  <2>1. \A x \in {"nothing", "SyntaxError", "ReferenceError", "crash"} : ~Understood(Is(x))
    BY DEF Understood, Is
  <2> QED BY <1>3, <2>1
<1>5. \E w \in Seq(Tok) : Whole(got, w) /\ Lexed = Append(w, S)
  BY <1>2, <1>4, SaidWhere
<1>6. PICK w \in Seq(Tok) : Whole(got, w) /\ Lexed = Append(w, S)
  BY <1>5
<1>7. S \in Tok
  BY PlainTok
<1> HIDE DEF S
<1>8. Lexed = w \o <<S>>
  <2>1. EndsWith(w, S)
    BY <1>7, MoreWords
  <2> QED BY <1>6, <2>1, Zenon DEF EndsWith
<1>9. Lexed' = Lexed
  BY <1>1 DEF Lexed
<1>10. [tokens |-> Lexed', call |-> outcome'] = Asked(w)
  BY <1>4, <1>8, <1>9, Zenon DEF Asked, S
<1>11. Asked(w) \in Promised
  BY <1>1, <1>2, <1>4, <1>6, WholeIsMeant
<1> QED BY <1>10, <1>11, Zenon

(* A line that is read on, or read anew, asks for nothing yet.             *)
LEMMA ReadingMeansNothing ==
  ASSUME NEW w \in Words, Read(w)
  PROVE  ~Understood(outcome')
<1> DEFINE t == Lex[w]
           Ended == \E e \in Errors \cup {"crash"} : End(Is(e))
<1>1. outcome = Reading
  BY DEF Read
<1>2. outcome' = outcome \/ \E e \in Errors \cup {"crash"} : outcome' = Is(e)
  <2>1. {"SyntaxError", "ReferenceError", "LogicError", "TypeError"} \subseteq Errors
    BY DEF Errors
  <2> DEFINE Stays == outcome' = outcome
             Falls == \E e \in Errors \cup {"crash"} : outcome' = Is(e)
  <2>2. \A e \in Errors \cup {"crash"} : End(Is(e)) => Falls
    BY Zenon DEF End
  <2>3. \A q, g : Go(q, g) => Stays
    BY Zenon DEF Go
  <2> HIDE DEF Stays, Falls, t
  <2>4. \A p, ok, q, g : Rule(p, ok, q, g) => Stays \/ Falls
    BY <2>1, <2>2, <2>3, Zenon DEF Rule
  <2>5. \A p, ok, q : TableName(p, t, ok, q) => Stays \/ Falls
    BY <2>1, <2>2, <2>3, Zenon DEF TableName
  <2>6. ColumnWord(t) \/ CloseNames(t) => Stays \/ Falls
    BY <2>1, <2>2, <2>3, Zenon DEF ColumnWord, CloseNames
  <2>7. ValueWord(t) => Stays \/ Falls
    BY <2>1, <2>2, <2>3, Zenon DEF ValueWord
  <2>8. t.type \in Errors /\ End(Is(t.type)) => Stays \/ Falls
    BY <2>2, Zenon
  <2>9. FirstWord(t) \/ SelectWord(t) => Stays \/ Falls
    BY <2>4, <2>5, Zenon DEF FirstWord, SelectWord
  <2>10. CreateWord(t) => Stays \/ Falls
    BY <2>1, <2>2, <2>3, <2>4, Zenon DEF CreateWord
  <2>11. InsertWord(t) => Stays \/ Falls
    BY <2>4, <2>5, <2>6, <2>7, Zenon DEF InsertWord
  <2>12. DeleteWord(t) \/ DropWord(t) \/ ClauseWord(t) \/ Termination(t) => Stays \/ Falls
    BY <2>4, <2>5, Zenon DEF DeleteWord, DropWord, ClauseWord, Termination
  <2>13. Stays \/ Falls
    BY <2>8, <2>9, <2>10, <2>11, <2>12, Zenon DEF Read, t
  <2> QED BY <2>13, Zenon DEF Stays, Falls
<1>3. ~Understood(Reading)
  BY DEF Understood, Reading, Is
<1>4. \A e \in Errors \cup {"crash"} : ~Understood(Is(e))
  BY DEF Errors, Understood, Is
<1> QED BY <1>1, <1>2, <1>3, <1>4, Zenon

(***************************************************************************)
(* A statement that reaches the memory layer with one value for each       *)
(* column is one of the statements promised and asks for what it says:     *)
(* for every vocabulary, tables and length of lists, the columns in the    *)
(* order written with their types and the first one the key, each value in *)
(* the column named at its place.                                          *)
(***************************************************************************)
THEOREM UnderstoodMeant == Spec => []UnderstoodIsMeant
<1>1. ~Understood(Reading)
  BY DEF Understood, Reading, Is
<1>2. Init => UnderstoodIsMeant
  <2>1. Init => outcome = Reading
    BY DEF Init
  <2> QED BY <1>1, <2>1, Zenon DEF UnderstoodIsMeant
<1>3. IInv /\ UnderstoodIsMeant /\ [Next]_vars => UnderstoodIsMeant'
  <2> SUFFICES ASSUME IInv, UnderstoodIsMeant, [Next]_vars PROVE UnderstoodIsMeant'
    OBVIOUS
  <2>1. ASSUME NEW w \in Words, Read(w) PROVE UnderstoodIsMeant'
    <3>1. ~Understood(outcome')
      BY <2>1, ReadingMeansNothing
    <3> QED BY <3>1, Zenon DEF UnderstoodIsMeant
  <2>2. CASE EndOfLine
    BY <2>2, EndMeant
  <2>3. CASE NextLine
    <3>1. outcome' = Reading
      BY <2>3 DEF NextLine
    <3> QED BY <1>1, <3>1, Zenon DEF UnderstoodIsMeant
  <2>4. CASE UNCHANGED vars
    BY <2>4 DEF vars, UnderstoodIsMeant, Lexed
  <2> QED BY <2>1, <2>2, <2>3, <2>4 DEF Next
<1> QED BY <1>2, <1>3, Invariant, PTL DEF Spec

----------------------------------------------------------------------------
----------------------------------------------------------------------------
(***************************************************************************)
(* How a line is cut into words: positions in a text.                      *)
(***************************************************************************)
(* Where a string ends: at the next quote, or behind the text.             *)
LEMMA StringEnds ==
  ASSUME NEW T, NEW t \in Seq(T), NEW i \in 1 .. Len(t)
  PROVE  /\ EndOfString(t, i) \in i + 1 .. Len(t) + 1
         /\ \A j \in i + 1 .. EndOfString(t, i) - 1 : t[j] # Quote
         /\ EndOfString(t, i) <= Len(t) => t[EndOfString(t, i)] = Quote
<1> DEFINE there == {j \in i + 1 .. Len(t) : t[j] = Quote}
           e == EndOfString(t, i)
<1>1. e = IF there = {} THEN Len(t) + 1 ELSE Min(there)
  BY DEF EndOfString, First
<1>2. Len(t) \in Nat /\ i \in Nat /\ i <= Len(t)
  OBVIOUS
<1>3. CASE there = {}
  BY <1>1, <1>2, <1>3
<1>4. CASE there # {}
  <2>1. there \in SUBSET Nat
    BY <1>2
  <2> HIDE DEF there
  <2>2. \E m \in there : \A n \in there : m <= n
    BY <1>4, <2>1, LeastOf
  <2>3. e \in there /\ \A n \in there : e <= n
    BY <1>1, <1>4, <2>2, Zenon DEF Min
  <2> HIDE DEF e
  <2>4. e \in i + 1 .. Len(t) /\ t[e] = Quote
    BY <2>3 DEF there
  <2>5. ASSUME NEW j \in i + 1 .. e - 1 PROVE t[j] # Quote
    <3>1. j \in i + 1 .. Len(t) /\ ~(e <= j)
      BY <1>2, <2>4
    <3> QED BY <2>3, <3>1 DEF there
  <2>6. e \in i + 1 .. Len(t) + 1
    BY <1>2, <2>4
  <2> QED BY <2>4, <2>5, <2>6 DEF e
<1> QED BY <1>3, <1>4

Ending(c) == c = Space \/ c \in Special

(* Where any other word ends: before the next space or special character.  *)
LEMMA WordEnds ==
  ASSUME NEW T, NEW t \in Seq(T), NEW i \in 1 .. Len(t)
  PROVE  /\ EndOfWord(t, i) \in i .. Len(t) + 1
         /\ \A j \in i .. EndOfWord(t, i) - 1 : ~Ending(t[j])
         /\ EndOfWord(t, i) <= Len(t) => Ending(t[EndOfWord(t, i)])
<1> DEFINE there == {j \in i .. Len(t) : Ending(t[j])}
           e == EndOfWord(t, i)
<1>1. e = IF there = {} THEN Len(t) + 1 ELSE Min(there)
  BY DEF EndOfWord, First, Ending
<1>2. Len(t) \in Nat /\ i \in Nat /\ i <= Len(t)
  OBVIOUS
<1>3. CASE there = {}
  BY <1>1, <1>2, <1>3
<1>4. CASE there # {}
  <2>1. there \in SUBSET Nat
    BY <1>2
  <2> HIDE DEF there
  <2>2. \E m \in there : \A n \in there : m <= n
    BY <1>4, <2>1, LeastOf
  <2>3. e \in there /\ \A n \in there : e <= n
    BY <1>1, <1>4, <2>2, Zenon DEF Min
  <2> HIDE DEF e
  <2>4. e \in i .. Len(t) /\ Ending(t[e])
    BY <2>3 DEF there
  <2>5. ASSUME NEW j \in i .. e - 1 PROVE ~Ending(t[j])
    <3>1. j \in i .. Len(t) /\ ~(e <= j)
      BY <1>2, <2>4
    <3> QED BY <2>3, <3>1 DEF there
  <2>6. e \in i .. Len(t) + 1
    BY <1>2, <2>4
  <2> QED BY <2>4, <2>5, <2>6 DEF e
<1> QED BY <1>3, <1>4

(* A word ends where it begins or later. *)
LEMMA EndsLater ==
  ASSUME NEW T, NEW t \in Seq(T), NEW i \in 1 .. Len(t), t[i] # Space
  PROVE  WordEnd(t, i) \in i .. Len(t) + 1
<1>1. Len(t) \in Nat /\ i \in Nat /\ i <= Len(t)
  OBVIOUS
<1>2. CASE t[i] = Quote
  <2>1. WordEnd(t, i) = EndOfString(t, i)
    BY <1>2 DEF WordEnd
  <2>2. EndOfString(t, i) \in i + 1 .. Len(t) + 1
    BY StringEnds
  <2> QED BY <1>1, <2>1, <2>2
<1>3. CASE t[i] # Quote /\ t[i] \in Special
  <2>1. WordEnd(t, i) \in {i, i + 1} /\ (WordEnd(t, i) = i + 1 => i < Len(t))
    BY <1>1, <1>3 DEF WordEnd
  <2> QED BY <1>1, <2>1
<1>4. CASE t[i] # Quote /\ t[i] \notin Special
  <2>1. "<" \in Special /\ ">" \in Special
    BY DEF Special
  <2>2. WordEnd(t, i) = EndOfWord(t, i) - 1
    BY <1>4, <2>1 DEF WordEnd
  <2>3. /\ EndOfWord(t, i) \in i .. Len(t) + 1
        /\ EndOfWord(t, i) <= Len(t) => Ending(t[EndOfWord(t, i)])
    BY WordEnds
  <2>4. EndOfWord(t, i) # i
    BY <1>1, <1>4, <2>3 DEF Ending
  <2> QED BY <1>1, <2>2, <2>3, <2>4
<1> QED BY <1>2, <1>3, <1>4

(* Split is defined: the words from each position on.                      *)
WordsFrom(t, f, i) ==
  IF i > Len(t) THEN <<>>
  ELSE IF t[i] = Space THEN f[i + 1]
  ELSE IF WordEnd(t, i) > Len(t) THEN <<Unterminated>>
  ELSE <<SubSeq(t, i, WordEnd(t, i))>> \o f[WordEnd(t, i) + 1]

IsSplit(t, f) == f = [i \in 1 .. Len(t) + 2 |-> WordsFrom(t, f, i)]

Alike(t, f, g, i) == WordsFrom(t, f, i) = WordsFrom(t, g, i)

(* The words from a position on depend on later positions only.            *)
LEMMA FromLater ==
  ASSUME NEW T, NEW t \in Seq(T), NEW f, NEW g, NEW i \in 1 .. Len(t) + 2,
         \A j \in i + 1 .. Len(t) + 2 : f[j] = g[j]
  PROVE  Alike(t, f, g, i)
<1>1. Len(t) \in Nat /\ i \in Nat /\ i <= Len(t) + 2
  OBVIOUS
<1>2. CASE i > Len(t)
  BY <1>2, Zenon DEF Alike, WordsFrom
<1>3. CASE ~(i > Len(t)) /\ t[i] = Space
  <2>1. i + 1 \in i + 1 .. Len(t) + 2
    BY <1>1, <1>3
  <2> QED BY <1>3, <2>1, Zenon DEF Alike, WordsFrom
<1>4. CASE ~(i > Len(t)) /\ t[i] # Space
  <2> DEFINE e == WordEnd(t, i)
  <2>1. e \in i .. Len(t) + 1
    <3>1. i \in 1 .. Len(t)
      BY <1>1, <1>4
    <3> QED BY <1>4, <3>1, EndsLater
  <2> HIDE DEF e
  <2>2. e + 1 \in i + 1 .. Len(t) + 2
    BY <1>1, <2>1
  <2>3. f[e + 1] = g[e + 1]
    BY <2>2
  <2> QED BY <1>4, <2>3, Zenon DEF Alike, WordsFrom, e
<1> QED BY <1>2, <1>3, <1>4

(* There is a function of the positions that says what is left at each: if *)
(* it failed from some position on, take the last one where it does.       *)
LEMMA SplitExists ==
  ASSUME NEW T, NEW t \in Seq(T)
  PROVE  \E f : IsSplit(t, f)
<1> DEFINE N == Len(t) + 2
           P(m) == \E f : f = [i \in N - m + 1 .. N |-> WordsFrom(t, f, i)]
           Bad == {m \in 0 .. N : ~P(m)}
<1>0. N \in Nat
  OBVIOUS
<1>1. ASSUME Bad # {} PROVE FALSE
  <2>1. PICK m \in Bad : \A k \in Bad : m <= k
    <3>1. Bad \in SUBSET Nat
      OBVIOUS
    <3> HIDE DEF Bad
    <3> QED BY <1>1, <3>1, LeastOf
  <2>2. m \in Nat /\ m <= N /\ ~P(m)
    OBVIOUS
  <2>3. P(0)
    <3> DEFINE f == [i \in N - 0 + 1 .. N |-> WordsFrom(t, t, i)]
    <3>1. f = [i \in N - 0 + 1 .. N |-> WordsFrom(t, f, i)]
      <4>1. N - 0 + 1 .. N = {}
        BY <1>0
      <4> QED BY <4>1
    <3> HIDE DEF f
    <3> QED BY <3>1
  <2>4. ASSUME m # 0 PROVE FALSE
    <3>1. m - 1 \in 0 .. N /\ ~(m <= m - 1)
      BY <2>2, <2>4
    <3>2. P(m - 1)
      <4>1. m - 1 \notin Bad
        <5> HIDE DEF Bad, N
        <5> QED BY <2>1, <3>1
      <4> QED BY <3>1, <4>1
    <3>3. PICK f : f = [i \in N - (m - 1) + 1 .. N |-> WordsFrom(t, f, i)]
      BY <3>2
    <3> DEFINE g == [i \in N - m + 1 .. N |-> WordsFrom(t, f, i)]
    <3> HIDE DEF P, Bad
    <3>4. \A j \in N - (m - 1) + 1 .. N : f[j] = WordsFrom(t, f, j)
      <4> HIDE DEF N
      <4> QED BY <3>3, Zenon
    <3>5. \A j \in N - (m - 1) + 1 .. N : g[j] = f[j]
      <4>1. \A j \in N - (m - 1) + 1 .. N : j \in N - m + 1 .. N
        BY <1>0, <2>2
      <4> HIDE DEF N
      <4>2. \A j \in N - m + 1 .. N : g[j] = WordsFrom(t, f, j)
        BY Zenon
      <4> QED BY <3>4, <4>1, <4>2, Zenon
    <3>6. \A i \in N - m + 1 .. N : Alike(t, f, g, i)
      <4> SUFFICES ASSUME NEW i \in N - m + 1 .. N PROVE Alike(t, f, g, i)
        OBVIOUS
      <4>1. i \in 1 .. N /\ \A j \in i + 1 .. N : j \in N - (m - 1) + 1 .. N
        BY <1>0, <2>2
      <4>2. \A j \in i + 1 .. N : f[j] = g[j]
        <5> HIDE DEF g, N
        <5> QED BY <3>5, <4>1, Zenon
      <4> HIDE DEF g
      <4> QED BY <4>1, <4>2, FromLater
    <3>7. g = [i \in N - m + 1 .. N |-> WordsFrom(t, g, i)]
      <4>1. g = [i \in N - m + 1 .. N |-> WordsFrom(t, f, i)]
        BY Zenon
      <4>2. \A i \in N - m + 1 .. N : WordsFrom(t, f, i) = WordsFrom(t, g, i)
        <5> HIDE DEF g, N
        <5> QED BY <3>6, Zenon DEF Alike
      <4> HIDE DEF g, N
      <4> QED BY <4>1, <4>2
    <3> QED BY <2>2, <3>7, Zenon DEF P
  <2> QED BY <2>2, <2>3, <2>4
<1>2. P(N)
  <2>1. N \in 0 .. N
    BY <1>0
  <2> HIDE DEF P
  <2> QED BY <1>1, <2>1
<1>3. N - N + 1 = 1
  BY <1>0
<1> HIDE DEF N
<1>4. \E f : f = [i \in 1 .. N |-> WordsFrom(t, f, i)]
  BY <1>2, <1>3, Zenon
<1> QED BY <1>4, Zenon DEF IsSplit, N

(* Split is that function at the first position.                           *)
LEMMA SplitIs ==
  ASSUME NEW T, NEW t \in Seq(T)
  PROVE  \E f : Split(t) = f[1] /\ \A i \in 1 .. Len(t) + 2 : f[i] = WordsFrom(t, f, i)
<1> DEFINE f == CHOOSE f : f = [i \in 1 .. Len(t) + 2 |->
                                  IF i > Len(t) THEN <<>>
                                  ELSE IF t[i] = Space THEN f[i + 1]
                                  ELSE IF WordEnd(t, i) > Len(t) THEN <<Unterminated>>
                                  ELSE <<SubSeq(t, i, WordEnd(t, i))>> \o f[WordEnd(t, i) + 1]]
<1>1. Split(t) = f[1]
  BY DEF Split
<1>2. \E g : IsSplit(t, g)
  BY SplitExists
<1>3. \E g : g = [i \in 1 .. Len(t) + 2 |->
                    IF i > Len(t) THEN <<>>
                    ELSE IF t[i] = Space THEN g[i + 1]
                    ELSE IF WordEnd(t, i) > Len(t) THEN <<Unterminated>>
                    ELSE <<SubSeq(t, i, WordEnd(t, i))>> \o g[WordEnd(t, i) + 1]]
  BY <1>2, Zenon DEF IsSplit, WordsFrom
<1>4. f = [i \in 1 .. Len(t) + 2 |->
             IF i > Len(t) THEN <<>>
             ELSE IF t[i] = Space THEN f[i + 1]
             ELSE IF WordEnd(t, i) > Len(t) THEN <<Unterminated>>
             ELSE <<SubSeq(t, i, WordEnd(t, i))>> \o f[WordEnd(t, i) + 1]]
  BY <1>3, Zenon
<1> HIDE DEF f
<1>5. f = [i \in 1 .. Len(t) + 2 |-> WordsFrom(t, f, i)]
  BY <1>4, Zenon DEF WordsFrom
<1>6. \A i \in 1 .. Len(t) + 2 : f[i] = WordsFrom(t, f, i)
  BY <1>5, Zenon
<1> QED BY <1>1, <1>6

(* Spaces and quotes are no special characters. *)
LEMMA NotSpecial ==
  /\ Space \notin Special /\ Quote \notin Special /\ Space # Quote
  /\ {"<", ">", "="} \subseteq Special
BY Zenon DEF Space, Quote, Special

(* A word that stands in a text at position i, and what may stand behind   *)
(* it: GrowTogether, told from the first symbol of the second word.        *)
At(t, i, w) ==
  /\ i + Len(w) <= Len(t) + 1
  /\ \A j \in 1 .. Len(w) : t[i + j - 1] = w[j]

Closed(w) == w # <<>> /\ w[1] # Space /\ WordEnd(w, 1) = Len(w)

GrowWith(w, c) ==
  \/ w[1] \notin Special \cup {Quote} /\ c \notin Special
  \/ w \in {<<"<">>, <<">">>} /\ c = "="

Parted(t, w, k) == k <= Len(t) => t[k] = Space \/ ~GrowWith(w, t[k])

(* A word ends in a text where it ends alone, unless it grows.             *)
LEMMA EndsInText ==
  ASSUME NEW T, NEW t \in Seq(T), NEW w \in Seq(T), NEW i \in 1 .. Len(t),
         Closed(w), At(t, i, w), Parted(t, w, i + Len(w))
  PROVE  WordEnd(t, i) = i + Len(w) - 1 /\ SubSeq(t, i, i + Len(w) - 1) = w
<1> DEFINE n == Len(w)
<1>1. /\ n \in Nat /\ n >= 1 /\ Len(t) \in Nat /\ i \in Nat /\ i >= 1 /\ i <= Len(t)
      /\ w[1] # Space /\ WordEnd(w, 1) = n /\ 1 \in 1 .. Len(w)
  BY DEF Closed
<1>2. i + n <= Len(t) + 1 /\ \A j \in 1 .. n : t[i + j - 1] = w[j]
  BY DEF At
<1>3. t[i] = w[1]
  <2>1. i + 1 - 1 = i
    BY <1>1
  <2> QED BY <1>1, <1>2, <2>1
<1>4. \A k \in i .. i + n - 1 : k - i + 1 \in 1 .. n /\ t[k] = w[k - i + 1]
  <2> SUFFICES ASSUME NEW k \in i .. i + n - 1 PROVE k - i + 1 \in 1 .. n /\ t[k] = w[k - i + 1]
    OBVIOUS
  <2>1. k - i + 1 \in 1 .. n /\ i + (k - i + 1) - 1 = k
    BY <1>1
  <2> QED BY <1>2, <2>1
<1>5. WordEnd(t, i) = i + n - 1
  <2>1. CASE w[1] = Quote
    <3> DEFINE e == EndOfString(t, i)
    <3>1. WordEnd(t, i) = e /\ EndOfString(w, 1) = n
      BY <1>1, <1>3, <2>1 DEF WordEnd
    <3>2. /\ n \in 2 .. n + 1 /\ w[n] = Quote
          /\ \A j \in 2 .. n - 1 : w[j] # Quote
      <4> HIDE DEF n
      <4>1. /\ EndOfString(w, 1) \in 1 + 1 .. Len(w) + 1
            /\ \A j \in 1 + 1 .. EndOfString(w, 1) - 1 : w[j] # Quote
            /\ EndOfString(w, 1) <= Len(w) => w[EndOfString(w, 1)] = Quote
        BY <1>1, StringEnds
      <4> QED BY <1>1, <3>1, <4>1 DEF n
    <3>3. /\ e \in i + 1 .. Len(t) + 1
          /\ \A j \in i + 1 .. e - 1 : t[j] # Quote
          /\ e <= Len(t) => t[e] = Quote
      BY StringEnds
    <3> HIDE DEF e, n
    <3>4. ASSUME e < i + n - 1 PROVE FALSE
      <4>1. e \in i .. i + n - 1 /\ e <= Len(t) /\ e - i + 1 \in 2 .. n - 1
        BY <1>1, <1>2, <3>2, <3>3, <3>4
      <4> QED BY <1>4, <3>2, <3>3, <4>1
    <3>5. ASSUME e > i + n - 1 PROVE FALSE
      <4> DEFINE k == i + n - 1
      <4>1. k \in i + 1 .. e - 1 /\ k \in i .. i + n - 1 /\ k - i + 1 = n
        BY <1>1, <3>2, <3>3, <3>5
      <4> HIDE DEF k
      <4>2. t[k] = w[n]
        BY <1>4, <4>1
      <4> QED BY <3>2, <3>3, <4>1, <4>2
    <3>6. e = i + n - 1
      BY <1>1, <3>3, <3>4, <3>5
    <3> QED BY <3>1, <3>6
  <2>2. CASE w[1] # Quote /\ w[1] \in Special
    <3>1. WordEnd(w, 1) = IF w[1] \in {"<", ">"} /\ 1 < n /\ w[1 + 1] = "=" THEN 2 ELSE 1
      BY <2>2 DEF WordEnd
    <3>2. WordEnd(t, i) = IF t[i] \in {"<", ">"} /\ i < Len(t) /\ t[i + 1] = "=" THEN i + 1 ELSE i
      BY <1>3, <2>2 DEF WordEnd
    <3> HIDE DEF n
    <3>3. CASE w[1] \in {"<", ">"} /\ 1 < n /\ w[1 + 1] = "="
      <4>1. n = 2 /\ i < Len(t)
        BY <1>1, <1>2, <3>1, <3>3
      <4>2. t[i + 1] = w[2]
        <5>1. i + 1 \in i .. i + n - 1 /\ i + 1 - i + 1 = 2
          BY <1>1, <4>1
        <5> QED BY <1>4, <5>1
      <4>3. 1 + 1 = 2
        OBVIOUS
      <4>4. WordEnd(t, i) = i + 1
        BY <1>3, <3>2, <3>3, <4>1, <4>2, <4>3, Zenon
      <4> QED BY <1>1, <4>1, <4>4
    <3>4. CASE ~(w[1] \in {"<", ">"} /\ 1 < n /\ w[1 + 1] = "=")
      <4>1. n = 1
        BY <1>1, <3>1, <3>4
      <4>2. ~(t[i] \in {"<", ">"} /\ i < Len(t) /\ t[i + 1] = "=")
        <5> SUFFICES ASSUME t[i] \in {"<", ">"}, i < Len(t), t[i + 1] = "=" PROVE FALSE
          OBVIOUS
        <5>1. w = <<w[1]>>
          BY <4>1 DEF n
        <5>2. w \in {<<"<">>, <<">">>}
          BY <1>3, <5>1, Zenon
        <5>3. i + Len(w) = i + 1 /\ i + 1 <= Len(t)
          BY <1>1, <4>1 DEF n
        <5>4. t[i + 1] = Space \/ ~GrowWith(w, t[i + 1])
          BY <5>3, Zenon DEF Parted
        <5>5. GrowWith(w, t[i + 1])
          BY <5>2, Zenon DEF GrowWith
        <5>6. t[i + 1] \in Special
          BY NotSpecial
        <5> QED BY <5>4, <5>5, <5>6, NotSpecial, Zenon
      <4>3. WordEnd(t, i) = i
        BY <3>2, <4>2, Zenon
      <4> QED BY <1>1, <4>1, <4>3
    <3> QED BY <3>3, <3>4
  <2>3. CASE w[1] # Quote /\ w[1] \notin Special
    <3> DEFINE e == EndOfWord(t, i)
    <3>1. w[1] # "<" /\ w[1] # ">" /\ t[i] # "<" /\ t[i] # ">"
      BY <1>3, <2>3, NotSpecial
    <3>2. WordEnd(t, i) = e - 1 /\ WordEnd(w, 1) = EndOfWord(w, 1) - 1
      BY <1>3, <2>3, <3>1 DEF WordEnd
    <3>3. \A j \in 1 .. n : ~Ending(w[j])
      <4> HIDE DEF n
      <4>1. EndOfWord(w, 1) \in 1 .. Len(w) + 1 /\ \A j \in 1 .. EndOfWord(w, 1) - 1 : ~Ending(w[j])
        BY <1>1, WordEnds
      <4> QED BY <1>1, <3>2, <4>1 DEF n
    <3>4. /\ e \in i .. Len(t) + 1
          /\ \A j \in i .. e - 1 : ~Ending(t[j])
          /\ e <= Len(t) => Ending(t[e])
      BY WordEnds
    <3> HIDE DEF e
    <3>5. i + n <= Len(t) => Ending(t[i + n])
      <4> SUFFICES ASSUME i + n <= Len(t) PROVE Ending(t[i + n])
        OBVIOUS
      <4>1. t[i + n] = Space \/ ~GrowWith(w, t[i + n])
        BY Zenon DEF Parted
      <4> QED BY <2>3, <4>1, Zenon DEF GrowWith, Ending
    <3> HIDE DEF n
    <3>6. ASSUME e < i + n PROVE FALSE
      <4>1. e \in i .. i + n - 1 /\ e <= Len(t)
        BY <1>1, <1>2, <3>4, <3>6
      <4>2. t[e] = w[e - i + 1] /\ e - i + 1 \in 1 .. n
        BY <1>4, <4>1
      <4> QED BY <3>3, <3>4, <4>1, <4>2
    <3>7. ASSUME e > i + n PROVE FALSE
      <4>1. i + n \in i .. e - 1 /\ i + n <= Len(t)
        BY <1>1, <3>4, <3>7
      <4> QED BY <3>4, <3>5, <4>1
    <3>8. e = i + n
      BY <1>1, <3>4, <3>6, <3>7
    <3> QED BY <1>1, <3>2, <3>8
  <2> QED BY <2>1, <2>2, <2>3
<1>6. SubSeq(t, i, i + n - 1) = w
  <2> DEFINE u == SubSeq(t, i, i + n - 1)
  <2>1. i + n - 1 <= Len(t)
    BY <1>1, <1>2
  <2>2. u \in Seq(T) /\ Len(u) = n /\ \A j \in 1 .. n : u[j] = t[i + j - 1]
    <3> HIDE DEF n
    <3> QED BY <1>1, <2>1
  <2> HIDE DEF u
  <2>3. \A j \in 1 .. Len(u) : u[j] = w[j]
    BY <1>2, <2>2
  <2> QED BY <2>2, <2>3, SeqEqual DEF u
<1> QED BY <1>5, <1>6

(***************************************************************************)
(* A text laid out: ws[k] ends at e[k], and only spaces are between.       *)
(***************************************************************************)
Stands(t, ws, e, k) ==
  /\ e[k - 1] + Len(ws[k]) <= e[k] /\ e[k] <= Len(t)
  /\ At(t, e[k] - Len(ws[k]) + 1, ws[k])
  /\ Parted(t, ws[k], e[k] + 1)
  /\ \A i \in e[k - 1] + 1 .. e[k] - Len(ws[k]) : t[i] = Space

Laid(t, ws, e) ==
  /\ e \in [0 .. Len(ws) -> Nat] /\ e[0] = 0 /\ e[Len(ws)] <= Len(t)
  /\ \A k \in 1 .. Len(ws) : Stands(t, ws, e, k)
  /\ \A i \in e[Len(ws)] + 1 .. Len(t) : t[i] = Space

IsWords(t, f) == \A i \in 1 .. Len(t) + 2 : f[i] = WordsFrom(t, f, i)

(* Spaces are passed over. *)
LEMMA SpacesSkipped ==
  ASSUME NEW T, NEW t \in Seq(T), NEW f, IsWords(t, f),
         NEW a \in Nat, NEW b \in Nat, 1 <= a, a <= b, b <= Len(t) + 1,
         \A i \in a .. b - 1 : t[i] = Space
  PROVE  f[a] = f[b]
<1> DEFINE Bad == {d \in 0 .. b - a : f[b - d] # f[b]}
<1>1. ASSUME Bad # {} PROVE FALSE
  <2>1. PICK d \in Bad : \A k \in Bad : d <= k
    <3>1. Bad \in SUBSET Nat
      OBVIOUS
    <3> HIDE DEF Bad
    <3> QED BY <1>1, <3>1, LeastOf
  <2>2. d \in 0 .. b - a /\ f[b - d] # f[b]
    OBVIOUS
  <2>3. d # 0
    <3>1. b - 0 = b
      OBVIOUS
    <3> QED BY <2>2, <3>1
  <2>4. d - 1 \in 0 .. b - a /\ ~(d <= d - 1)
    BY <2>2, <2>3
  <2>5. f[b - (d - 1)] = f[b]
    <3>1. d - 1 \notin Bad
      <4> HIDE DEF Bad
      <4> QED BY <2>1, <2>4
    <3> QED BY <2>4, <3>1
  <2> DEFINE i == b - d
  <2>6. i \in a .. b - 1 /\ i + 1 = b - (d - 1) /\ i \in 1 .. Len(t) + 2 /\ ~(i > Len(t))
    BY <2>2, <2>3
  <2> HIDE DEF i
  <2>7. f[i] = WordsFrom(t, f, i) /\ t[i] = Space
    BY <2>6 DEF IsWords
  <2>8. f[i] = f[i + 1]
    BY <2>6, <2>7, Zenon DEF WordsFrom
  <2> QED BY <2>2, <2>5, <2>6, <2>8 DEF i
<1>2. \A d \in 0 .. b - a : f[b - d] = f[b]
  BY <1>1
<1> DEFINE c == b - a
<1>3. c \in 0 .. b - a /\ b - c = a
  OBVIOUS
<1> HIDE DEF c
<1> QED BY <1>2, <1>3

(* The words behind the k-th. *)
Rest(ws, k) == SubSeq(ws, k + 1, Len(ws))

(* One of them is the next word and the words behind that.                 *)
LEMMA RestIs ==
  ASSUME NEW T, NEW ws \in Seq(T)
  PROVE  /\ Rest(ws, 0) = ws /\ Rest(ws, Len(ws)) = <<>>
         /\ \A k \in 1 .. Len(ws) : Rest(ws, k - 1) = <<ws[k]>> \o Rest(ws, k)
<1>1. Rest(ws, 0) = ws
  <2>1. SubSeq(ws, 1, Len(ws)) \in Seq(T) /\ Len(SubSeq(ws, 1, Len(ws))) = Len(ws)
        /\ \A i \in 1 .. Len(ws) : SubSeq(ws, 1, Len(ws))[i] = ws[i]
    OBVIOUS
  <2>2. SubSeq(ws, 1, Len(ws)) = ws
    BY <2>1, SeqEqual
  <2>3. 0 + 1 = 1
    OBVIOUS
  <2> QED BY <2>2, <2>3 DEF Rest
<1>2. Rest(ws, Len(ws)) = <<>>
  BY DEF Rest
<1>3. ASSUME NEW k \in 1 .. Len(ws) PROVE Rest(ws, k - 1) = <<ws[k]>> \o Rest(ws, k)
  <2> DEFINE u == SubSeq(ws, k - 1 + 1, Len(ws))
             x == SubSeq(ws, k + 1, Len(ws))
             v == <<ws[k]>> \o x
  <2>1. k \in Nat /\ Len(ws) \in Nat /\ k >= 1 /\ k <= Len(ws) /\ k - 1 + 1 = k /\ ws[k] \in T
    OBVIOUS
  <2>2. /\ u \in Seq(T) /\ Len(u) = Len(ws) - k + 1
        /\ \A i \in 1 .. Len(ws) - k + 1 : u[i] = ws[k + i - 1]
    BY <2>1
  <2>3. /\ x \in Seq(T) /\ Len(x) = Len(ws) - k
        /\ \A i \in 1 .. Len(ws) - k : x[i] = ws[k + 1 + i - 1]
    BY <2>1
  <2>4. <<ws[k]>> \in Seq(T) /\ Len(<<ws[k]>>) = 1 /\ <<ws[k]>>[1] = ws[k]
    BY <2>1
  <2> HIDE DEF x
  <2>5. v \in Seq(T) /\ Len(v) = Len(ws) - k + 1 /\ v[1] = ws[k]
        /\ \A i \in 2 .. Len(ws) - k + 1 : v[i] = x[i - 1]
    BY <2>1, <2>3, <2>4
  <2> HIDE DEF u, v
  <2>6. \A i \in 1 .. Len(u) : u[i] = v[i]
    <3> SUFFICES ASSUME NEW i \in 1 .. Len(ws) - k + 1 PROVE u[i] = v[i]
      BY <2>2
    <3>1. CASE i = 1
      <4>1. k + 1 - 1 = k /\ u[1] = ws[k + 1 - 1]
        BY <2>1, <2>2, <3>1
      <4> QED BY <2>5, <3>1, <4>1
    <3>2. CASE i # 1
      <4>1. i - 1 \in 1 .. Len(ws) - k /\ k + 1 + (i - 1) - 1 = k + i - 1 /\ i \in 2 .. Len(ws) - k + 1
        BY <2>1, <3>2
      <4> QED BY <2>2, <2>3, <2>5, <4>1
    <3> QED BY <3>1, <3>2
  <2>7. u = v
    BY <2>2, <2>5, <2>6, SeqEqual
  <2> QED BY <2>7 DEF Rest, u, v, x
<1> QED BY <1>1, <1>2, <1>3

(* A text that is laid out is cut into its words.                          *)
LEMMA SplitLaid ==
  ASSUME NEW T, NEW t \in Seq(T), NEW ws \in Seq(Seq(T)), NEW e, Laid(t, ws, e),
         \A k \in 1 .. Len(ws) : Closed(ws[k])
  PROVE  Split(t) = ws
<1> DEFINE n == Len(ws)
<1>1. PICK f : Split(t) = f[1] /\ IsWords(t, f)
  BY SplitIs DEF IsWords
<1>2. /\ n \in Nat /\ Len(t) \in Nat /\ e[0] = 0 /\ e[n] <= Len(t)
      /\ \A k \in 0 .. n : e[k] \in Nat
      /\ \A i \in e[n] + 1 .. Len(t) : t[i] = Space
  <2>1. n \in Nat /\ Len(t) \in Nat
    OBVIOUS
  <2>2. /\ e \in [0 .. n -> Nat] /\ e[0] = 0 /\ e[n] <= Len(t)
        /\ \A i \in e[n] + 1 .. Len(t) : t[i] = Space
    BY Zenon DEF Laid
  <2> HIDE DEF n
  <2>3. \A k \in 0 .. n : e[k] \in Nat
    BY <2>2
  <2> QED BY <2>1, <2>2, <2>3
<1>3. f[e[n] + 1] = Rest(ws, n)
  <2>1. f[e[n] + 1] = f[Len(t) + 1]
    <3> DEFINE a == e[n] + 1
               b == Len(t) + 1
    <3>1. a \in Nat /\ b \in Nat /\ 1 <= a /\ a <= b /\ b <= Len(t) + 1 /\ b - 1 = Len(t)
      BY <1>2
    <3>2. \A i \in a .. b - 1 : t[i] = Space
      BY <1>2, <3>1
    <3> HIDE DEF a, b
    <3>3. f[a] = f[b]
      BY <1>1, <3>1, <3>2, SpacesSkipped
    <3> QED BY <3>3 DEF a, b
  <2>2. f[Len(t) + 1] = WordsFrom(t, f, Len(t) + 1) /\ Len(t) + 1 > Len(t)
    BY <1>1, <1>2 DEF IsWords
  <2>3. f[Len(t) + 1] = <<>>
    BY <2>2, Zenon DEF WordsFrom
  <2> QED BY <2>1, <2>3, RestIs
<1>4. ASSUME NEW k \in 1 .. n, f[e[k] + 1] = Rest(ws, k)
      PROVE  f[e[k - 1] + 1] = Rest(ws, k - 1)
  <2> DEFINE w == ws[k]
             E == e[k]
             D == e[k - 1]
             p == E - Len(w) + 1
  <2>1. w \in Seq(T) /\ Closed(w) /\ Stands(t, ws, e, k)
    <3>1. Stands(t, ws, e, k)
      BY Zenon DEF Laid
    <3> QED BY <3>1
  <2>2. /\ E \in Nat /\ D \in Nat /\ Len(w) \in Nat /\ Len(w) >= 1
        /\ D + Len(w) <= E /\ E <= Len(t)
    <3>1. k \in 0 .. n /\ k - 1 \in 0 .. n
      BY <1>2
    <3>2. w # <<>>
      BY <2>1 DEF Closed
    <3> QED BY <1>2, <2>1, <3>1, <3>2 DEF Stands
  <2>3. At(t, p, w) /\ Parted(t, w, E + 1) /\ \A i \in D + 1 .. E - Len(w) : t[i] = Space
    BY <2>1, Zenon DEF Stands
  <2> HIDE DEF w, D, E
  <2>4. /\ p \in Nat /\ 1 <= p /\ p <= Len(t) /\ p + Len(w) = E + 1 /\ p + Len(w) - 1 = E
        /\ p - 1 = E - Len(w) /\ D + 1 <= p
    BY <1>2, <2>2
  <2> HIDE DEF p
  <2>5. f[D + 1] = f[p]
    <3> DEFINE a == D + 1
    <3>1. a \in Nat /\ 1 <= a /\ a <= p /\ p <= Len(t) + 1
      BY <1>2, <2>2, <2>4
    <3>2. \A i \in a .. p - 1 : t[i] = Space
      BY <2>3, <2>4
    <3> HIDE DEF a
    <3>3. f[a] = f[p]
      BY <1>1, <2>4, <3>1, <3>2, SpacesSkipped
    <3> QED BY <3>3 DEF a
  <2>6. WordEnd(t, p) = E /\ SubSeq(t, p, E) = w
    <3>1. Parted(t, w, p + Len(w)) /\ p \in 1 .. Len(t)
      BY <2>3, <2>4
    <3>2. WordEnd(t, p) = p + Len(w) - 1 /\ SubSeq(t, p, p + Len(w) - 1) = w
      BY <2>1, <2>3, <3>1, EndsInText
    <3> QED BY <2>4, <3>2
  <2>7. t[p] # Space
    <3>1. t[p + 1 - 1] = w[1] /\ p + 1 - 1 = p
      BY <2>2, <2>3, <2>4 DEF At
    <3> QED BY <2>1, <3>1 DEF Closed
  <2>8. f[p] = WordsFrom(t, f, p)
    <3>1. p \in 1 .. Len(t) + 2
      BY <1>2, <2>4
    <3> QED BY <1>1, <3>1 DEF IsWords
  <2>9. f[p] = <<w>> \o f[E + 1]
    <3>1. ~(p > Len(t)) /\ ~(WordEnd(t, p) > Len(t))
      BY <1>2, <2>2, <2>4, <2>6
    <3> QED BY <2>6, <2>7, <2>8, <3>1, Zenon DEF WordsFrom
  <2>10. Rest(ws, k - 1) = <<w>> \o Rest(ws, k)
    BY RestIs DEF w
  <2> QED BY <1>4, <2>5, <2>9, <2>10, Zenon DEF D, E
<1>5. f[e[0] + 1] = Rest(ws, 0)
  <2> DEFINE Good(k) == f[e[k] + 1] = Rest(ws, k)
             Bad == {d \in 0 .. n : ~Good(n - d)}
  <2>1. Good(n) /\ \A k \in 1 .. n : Good(k) => Good(k - 1)
    BY <1>3, <1>4
  <2> HIDE DEF Good, n
  <2>2. ASSUME Bad # {} PROVE FALSE
    <3>1. PICK d \in Bad : \A k \in Bad : d <= k
      <4>1. Bad \in SUBSET Nat
        OBVIOUS
      <4> HIDE DEF Bad
      <4> QED BY <2>2, <4>1, LeastOf
    <3>2. d \in 0 .. n /\ ~Good(n - d)
      OBVIOUS
    <3>3. d # 0
      <4>1. n - 0 = n
        BY <1>2
      <4> QED BY <2>1, <3>2, <4>1
    <3>4. d - 1 \in 0 .. n /\ ~(d <= d - 1)
      BY <1>2, <3>2, <3>3
    <3>5. Good(n - (d - 1))
      <4>1. d - 1 \notin Bad
        <5> HIDE DEF Bad
        <5> QED BY <3>1, <3>4
      <4> QED BY <3>4, <4>1
    <3>6. n - (d - 1) \in 1 .. n /\ n - (d - 1) - 1 = n - d
      BY <1>2, <3>2, <3>3
    <3> QED BY <2>1, <3>2, <3>5, <3>6
  <2>3. n \in 0 .. n /\ n - n = 0
    BY <1>2
  <2>4. Good(0)
    BY <2>2, <2>3
  <2> QED BY <2>4 DEF Good
<1>6. f[1] = Rest(ws, 0)
  <2>1. e[0] + 1 = 1
    BY <1>2
  <2> QED BY <1>5, <2>1
<1> QED BY <1>1, <1>6, RestIs

(* A word with a spaces before it, and some behind.                        *)
Padded(x, a, w) ==
  /\ a + Len(w) <= Len(x)
  /\ \A i \in 1 .. a : x[i] = Space
  /\ \A j \in 1 .. Len(w) : x[a + j] = w[j]
  /\ \A i \in a + Len(w) + 1 .. Len(x) : x[i] = Space

LaidOut(t, ws) == \E e : Laid(t, ws, e)

(* One more word is laid out behind the others. *)
LEMMA LaidGrows ==
  ASSUME NEW T, NEW t \in Seq(T), NEW ws \in Seq(Seq(T)), LaidOut(t, ws),
         \A k \in 1 .. Len(ws) : ws[k] # <<>>, NEW w \in Seq(T), w # <<>>, NEW x \in Seq(T), NEW a \in Nat, Padded(x, a, w),
         ws # <<>> /\ a = 0 => ~GrowWith(ws[Len(ws)], w[1])
  PROVE  LaidOut(t \o x, Append(ws, w))
<1> DEFINE n == Len(ws)
           N == Len(t)
           m == Len(w)
           u == t \o x
           vs == Append(ws, w)
<1>1. PICK e : Laid(t, ws, e)
  BY DEF LaidOut
<1> DEFINE d == [k \in 0 .. n + 1 |-> IF k <= n THEN e[k] ELSE N + a + m]
<1>2. /\ n \in Nat /\ N \in Nat /\ m \in Nat /\ m >= 1 /\ (ws = <<>> <=> n = 0)
      /\ Len(vs) = n + 1 /\ vs[n + 1] = w /\ \A k \in 1 .. n : vs[k] = ws[k] /\ ws[k] \in Seq(T)
  OBVIOUS
<1>3. /\ u \in Seq(T) /\ Len(u) = N + Len(x) /\ Len(x) \in Nat
      /\ \A i \in 1 .. N : u[i] = t[i]
      /\ \A i \in 1 .. Len(x) : u[N + i] = x[i]
  OBVIOUS
<1>4. /\ a + m <= Len(x)
      /\ \A i \in 1 .. a : x[i] = Space
      /\ \A j \in 1 .. m : x[a + j] = w[j]
      /\ \A i \in a + m + 1 .. Len(x) : x[i] = Space
  BY Zenon DEF Padded
<1>5. /\ e \in [0 .. n -> Nat] /\ e[0] = 0 /\ e[n] <= N
      /\ \A k \in 1 .. n : Stands(t, ws, e, k)
      /\ \A i \in e[n] + 1 .. N : t[i] = Space
  BY <1>1, Zenon DEF Laid
<1>51. \A k \in 0 .. n : e[k] \in Nat
  <2>1. e \in [0 .. n -> Nat]
    BY <1>5
  <2> HIDE DEF n
  <2> QED BY <2>1
<1>6. ws # <<>> /\ a = 0 => ~GrowWith(ws[n], w[1])
  OBVIOUS
<1> HIDE DEF n, N, m, u, vs
<1>7. /\ d \in [0 .. n + 1 -> Nat] /\ \A k \in 0 .. n : d[k] = e[k]
      /\ d[n + 1] = N + a + m
  BY <1>2, <1>5
<1> HIDE DEF d
<1>8. d[0] = 0 /\ d[n] = e[n] /\ d[n + 1] <= Len(u)
  <2>1. 0 \in 0 .. n /\ n \in 0 .. n
    BY <1>2
  <2> QED BY <1>2, <1>3, <1>4, <1>5, <1>7, <2>1
<1>9. \A i \in N + 1 .. N + a : u[i] = Space
  <2> SUFFICES ASSUME NEW i \in N + 1 .. N + a PROVE u[i] = Space
    OBVIOUS
  <2>1. i - N \in 1 .. a /\ i - N \in 1 .. Len(x) /\ N + (i - N) = i
    BY <1>2, <1>3, <1>4
  <2> QED BY <1>3, <1>4, <2>1
<1>10. \A i \in d[n + 1] + 1 .. Len(u) : u[i] = Space
  <2> SUFFICES ASSUME NEW i \in N + a + m + 1 .. Len(u) PROVE u[i] = Space
    BY <1>7
  <2>1. i - N \in a + m + 1 .. Len(x) /\ i - N \in 1 .. Len(x) /\ N + (i - N) = i
    BY <1>2, <1>3, <1>4
  <2> QED BY <1>3, <1>4, <2>1
<1>11. \A j \in 1 .. m : u[N + a + 1 + j - 1] = w[j]
  <2> SUFFICES ASSUME NEW j \in 1 .. m PROVE u[N + a + 1 + j - 1] = w[j]
    OBVIOUS
  <2>1. a + j \in 1 .. Len(x) /\ N + (a + j) = N + a + 1 + j - 1
    BY <1>2, <1>3, <1>4
  <2> QED BY <1>3, <1>4, <2>1
<1>12. Stands(u, vs, d, n + 1)
  <2>1. d[n + 1 - 1] = e[n] /\ e[n] \in Nat
    <3>1. n + 1 - 1 = n /\ n \in 0 .. n
      BY <1>2
    <3> QED BY <1>5, <1>8, <3>1
  <2> DEFINE E == e[n]
  <2>2. E \in Nat /\ E <= N
    BY <1>5, <2>1
  <2> HIDE DEF E
  <2>3. E + m <= N + a + m /\ N + a + m <= Len(u) /\ N + a + m - m = N + a /\ N + a + m - m + 1 = N + a + 1
    BY <1>2, <1>3, <1>4, <2>2
  <2>4. At(u, N + a + 1, w)
    <3>1. N + a + 1 + m <= Len(u) + 1
      <4>1. Len(u) \in Nat
        BY <1>2, <1>3
      <4> QED BY <1>2, <2>3, <4>1
    <3> QED BY <1>11, <3>1 DEF At, m
  <2>5. Parted(u, w, N + a + m + 1)
    <3>1. N + a + m + 1 <= Len(u) => u[N + a + m + 1] = Space
      <4>1. N + a + m + 1 <= Len(u) => N + a + m + 1 \in N + a + m + 1 .. Len(u)
        BY <1>2, <1>3
      <4> QED BY <1>7, <1>10, <4>1
    <3> QED BY <3>1, Zenon DEF Parted
  <2>6. \A i \in E + 1 .. N + a : u[i] = Space
    <3> SUFFICES ASSUME NEW i \in E + 1 .. N + a PROVE u[i] = Space
      OBVIOUS
    <3>1. CASE i <= N
      <4>1. i \in E + 1 .. N /\ i \in 1 .. N
        BY <1>2, <2>2, <3>1
      <4> QED BY <1>3, <1>5, <4>1 DEF E
    <3>2. CASE ~(i <= N)
      <4>1. i \in N + 1 .. N + a
        BY <1>2, <2>2, <3>2
      <4> QED BY <1>9, <4>1
    <3> QED BY <3>1, <3>2
  <2> DEFINE G == N + a + m
  <2>7. d[n + 1 - 1] = E /\ d[n + 1] = G /\ vs[n + 1] = w /\ Len(w) = m
    BY <1>2, <1>7, <2>1 DEF E, m
  <2>8. E + m <= G /\ G <= Len(u) /\ G - m = N + a /\ G - m + 1 = N + a + 1
    BY <1>2, <2>2, <2>3
  <2>9. Parted(u, w, G + 1)
    BY <2>5
  <2> HIDE DEF G
  <2>10. At(u, G - m + 1, w) /\ \A i \in E + 1 .. G - m : u[i] = Space
    BY <2>4, <2>6, <2>8
  <2> DEFINE k == n + 1
  <2>11. d[k - 1] = E /\ d[k] = G /\ vs[k] = w
    BY <1>2, <2>7
  <2> HIDE DEF k
  <2>12. Stands(u, vs, d, k)
    BY <2>7, <2>8, <2>9, <2>10, <2>11 DEF Stands
  <2> QED BY <2>12 DEF k
<1>13. ASSUME NEW k \in 1 .. n PROVE Stands(u, vs, d, k)
  <2> DEFINE D == e[k - 1]
             E == e[k]
             v == ws[k]
             l == Len(v)
  <2>1. k - 1 \in 0 .. n /\ k \in 0 .. n /\ d[k - 1] = D /\ d[k] = E /\ vs[k] = v /\ v \in Seq(T)
    BY <1>2, <1>7
  <2>2. D \in Nat /\ E \in Nat /\ l \in Nat
    BY <1>51, <2>1
  <2>3. /\ D + l <= E /\ E <= N /\ At(t, E - l + 1, v) /\ Parted(t, v, E + 1)
        /\ \A i \in D + 1 .. E - l : t[i] = Space
    BY <1>5, Zenon DEF Stands, N
  <2> HIDE DEF v
  <2>5. l = Len(v)
    OBVIOUS
  <2> HIDE DEF D, E, l
  <2>6. At(u, E - l + 1, v)
    <3>1. E - l + 1 + l <= N + 1 /\ \A j \in 1 .. l : t[E - l + 1 + j - 1] = v[j]
      BY <2>3, <2>5 DEF At, N
    <3>2. \A j \in 1 .. l : E - l + 1 + j - 1 \in 1 .. N
      BY <1>2, <2>2, <2>3
    <3>3. \A j \in 1 .. l : u[E - l + 1 + j - 1] = v[j]
      BY <1>3, <3>1, <3>2
    <3>4. E - l + 1 + l <= Len(u) + 1
      BY <1>2, <1>3, <2>2, <3>1
    <3> QED BY <2>5, <3>3, <3>4 DEF At
  <2>7. \A i \in D + 1 .. E - l : u[i] = Space
    <3>1. \A i \in D + 1 .. E - l : i \in 1 .. N
      BY <1>2, <2>2, <2>3
    <3> QED BY <1>3, <2>3, <3>1
  <2>8. Parted(u, v, E + 1)
    <3> SUFFICES ASSUME E + 1 <= Len(u) PROVE u[E + 1] = Space \/ ~GrowWith(v, u[E + 1])
      BY Zenon DEF Parted
    <3>1. CASE E < N
      <4>1. E + 1 \in 1 .. N /\ E + 1 <= N
        BY <1>2, <2>2, <3>1
      <4>2. t[E + 1] = Space \/ ~GrowWith(v, t[E + 1])
        BY <2>3, <4>1 DEF Parted, N
      <4> QED BY <1>3, <4>1, <4>2
    <3>2. CASE E = N /\ a # 0
      <4>1. E + 1 \in N + 1 .. N + a
        BY <1>2, <2>2, <3>2
      <4> QED BY <1>9, <4>1
    <3>3. CASE E = N /\ a = 0
      <4>1. k = n
        <5>1. CASE k < n
          <6>1. k + 1 \in 1 .. n /\ k + 1 - 1 = k
            BY <1>2, <5>1
          <6>2. Stands(t, ws, e, k + 1)
            BY <1>5, <6>1
          <6>3. e[k] + Len(ws[k + 1]) <= e[k + 1] /\ e[k + 1] <= N
            BY <6>1, <6>2 DEF Stands, N
          <6>4. ws[k + 1] \in Seq(T) /\ Len(ws[k + 1]) \in Nat /\ e[k + 1] \in Nat
            <7>1. k + 1 \in 0 .. n
              BY <6>1
            <7>2. e[k + 1] \in Nat
              BY <1>51, <7>1
            <7>3. ws[k + 1] \in Seq(T)
              BY <1>2, <6>1
            <7> QED BY <7>2, <7>3
          <6>5. ws[k + 1] # <<>>
            BY <6>1 DEF n
          <6>6. Len(ws[k + 1]) # 0
            BY <6>4, <6>5
          <6>7. e[k] = N
            BY <3>3 DEF E
          <6> DEFINE L == Len(ws[k + 1])
                     F == e[k + 1]
          <6>8. N + L <= F /\ F <= N /\ L \in Nat /\ F \in Nat /\ L # 0
            BY <6>3, <6>4, <6>6, <6>7
          <6> HIDE DEF L, F
          <6> QED BY <1>2, <6>8
        <5> QED BY <1>2, <5>1
      <4>2. ~GrowWith(v, w[1])
        BY <1>2, <1>6, <3>3, <4>1 DEF v
      <4>3. u[E + 1] = w[1]
        <5>1. 1 \in 1 .. m /\ N + a + 1 + 1 - 1 = E + 1
          BY <1>2, <2>2, <3>3
        <5> QED BY <1>11, <5>1
      <4> QED BY <4>2, <4>3
    <3> QED BY <1>2, <2>2, <2>3, <3>1, <3>2, <3>3
  <2>9. E <= Len(u)
    BY <1>2, <1>3, <2>2, <2>3
  <2> QED BY <2>1, <2>3, <2>5, <2>6, <2>7, <2>8, <2>9 DEF Stands
<1>14. \A k \in 1 .. n + 1 : Stands(u, vs, d, k)
  <2>1. \A k \in 1 .. n + 1 : k \in 1 .. n \/ k = n + 1
    BY <1>2
  <2> QED BY <1>12, <1>13, <2>1
<1>15. Laid(u, vs, d)
  BY <1>2, <1>7, <1>8, <1>10, <1>14 DEF Laid
<1> QED BY <1>15 DEF LaidOut, u, vs

(***************************************************************************)
(* The two texts a line is written as, word by word.                       *)
(***************************************************************************)
Symbols == (UNION {Range(w) : w \in Words}) \cup {Space}

TightWord(r, i) ==
  IF i > 1 /\ GrowTogether(r[i - 1], r[i]) THEN <<Space>> \o r[i] ELSE r[i]
LooseWord(r, i) == <<Space>> \o r[i] \o <<Space>>

TightWords(r) == [i \in DOMAIN r |-> TightWord(r, i)]
LooseWords(r) == [i \in DOMAIN r |-> LooseWord(r, i)]

(* A word begins with no space and is not over before its end.             *)
LEMMA OneWord ==
  ASSUME NEW w \in Words
  PROVE  w \in Seq(Range(w)) /\ w # <<>> /\ w[1] # Space /\ WordEnd(w, 1) >= Len(w)
<1> DEFINE R == Range(w)
           n == Len(w)
<1>1. w \in Seq(R) /\ w # <<>>
  BY Spelling
<1> HIDE DEF R
<1>2. n \in Nat /\ n >= 1 /\ 1 \in 1 .. Len(w)
  BY <1>1
<1>3. CASE n = 1 /\ w[1] \in Special
  <2>1. w[1] # Space
    BY <1>3, NotSpecial, Zenon
  <2>2. WordEnd(w, 1) >= n
    <3>1. WordEnd(w, 1) \in 1 .. Len(w) + 1
      BY <1>1, <1>2, <2>1, EndsLater
    <3> QED BY <1>2, <1>3, <3>1
  <2> QED BY <1>1, <2>1, <2>2 DEF R
<1>4. CASE w \in {<<"<", "=">>, <<">", "=">>}
  <2>1. n = 2 /\ w[1] \in {"<", ">"} /\ w[1 + 1] = "="
    BY <1>4
  <2>2. w[1] # Space /\ w[1] # Quote
    BY <2>1, NotSpecial, Zenon
  <2>3. WordEnd(w, 1) = 1 + 1
    <3>1. 1 < Len(w)
      BY <2>1
    <3> QED BY <2>1, <2>2, <3>1, Zenon DEF WordEnd
  <2>4. WordEnd(w, 1) >= n
    <3> HIDE DEF n
    <3> QED BY <2>1, <2>3
  <2> QED BY <1>1, <2>2, <2>4 DEF R
<1>5. CASE w[1] = Quote /\ \A i \in 2 .. n - 1 : w[i] # Quote
  <2> DEFINE e == EndOfString(w, 1)
  <2>1. WordEnd(w, 1) = e
    BY <1>5, Zenon DEF WordEnd
  <2>2. e \in 1 + 1 .. Len(w) + 1 /\ (e <= Len(w) => w[e] = Quote)
    BY <1>1, <1>2, StringEnds
  <2> HIDE DEF e
  <2>3. ASSUME e < n PROVE FALSE
    <3>1. e \in 2 .. n - 1 /\ e <= Len(w)
      BY <1>2, <2>2, <2>3
    <3> QED BY <1>5, <2>2, <3>1, Zenon
  <2>4. e >= n
    BY <1>2, <2>2, <2>3
  <2>5. w[1] # Space
    BY <1>5, NotSpecial, Zenon
  <2> QED BY <1>1, <2>1, <2>4, <2>5 DEF R
<1>6. CASE w[1] # Quote /\ R \cap (Special \cup {Space}) = {}
  <2>1. \A i \in 1 .. n : w[i] \in R
    BY <1>1
  <2>2. \A i \in 1 .. n : ~Ending(w[i])
    BY <1>6, <2>1, Zenon DEF Ending
  <2>3. w[1] # Space /\ w[1] \notin Special /\ w[1] # "<" /\ w[1] # ">"
    BY <1>2, <2>2, NotSpecial, Zenon DEF Ending
  <2> DEFINE e == EndOfWord(w, 1)
  <2>4. WordEnd(w, 1) = e - 1
    BY <1>6, <2>3 DEF WordEnd
  <2>5. e \in 1 .. Len(w) + 1 /\ (e <= Len(w) => Ending(w[e]))
    BY <1>1, <1>2, WordEnds
  <2> HIDE DEF e
  <2>6. ASSUME e <= n PROVE FALSE
    BY <2>2, <2>5, <2>6
  <2>7. e - 1 >= n
    BY <1>2, <2>5, <2>6
  <2> QED BY <1>1, <2>3, <2>4, <2>7 DEF R
<1>7. \/ n = 1 /\ w[1] \in Special
      \/ w \in {<<"<", "=">>, <<">", "=">>}
      \/ w[1] = Quote /\ \A i \in 2 .. n - 1 : w[i] # Quote
      \/ w[1] # Quote /\ R \cap (Special \cup {Space}) = {}
  BY Spelling, Zenon DEF R
<1> QED BY <1>3, <1>4, <1>5, <1>6, <1>7

(* Words are made of symbols, and begin with none that is a space.         *)
LEMMA WordsAre ==
  ASSUME NEW w \in Words
  PROVE  /\ w \in Seq(Symbols) /\ w # <<>> /\ w[1] # Space
         /\ WordEnd(w, 1) > Len(w) \/ Closed(w)
<1>1. w \in Seq(Range(w)) /\ w # <<>> /\ w[1] # Space /\ WordEnd(w, 1) >= Len(w)
  BY OneWord
<1>2. Range(w) \subseteq Symbols
  BY Zenon DEF Symbols
<1> DEFINE R == Range(w)
<1>3. w \in Seq(R) /\ R \subseteq Symbols
  BY <1>1, <1>2
<1> HIDE DEF R
<1>4. w \in Seq(Symbols)
  BY <1>3
<1>5. WordEnd(w, 1) \in 1 .. Len(w) + 1
  <2>1. 1 \in 1 .. Len(w)
    BY <1>1, <1>4
  <2> QED BY <1>1, <1>4, <2>1, EndsLater
<1>6. WordEnd(w, 1) > Len(w) \/ WordEnd(w, 1) = Len(w)
  BY <1>1, <1>4, <1>5
<1> QED BY <1>1, <1>4, <1>6 DEF Closed

(* Two texts, one behind the other.                                        *)
LEMMA TextsJoined ==
  ASSUME NEW T, NEW a \in Seq(T), NEW b \in Seq(T)
  PROVE  /\ a \o b \in Seq(T) /\ Len(a \o b) = Len(a) + Len(b)
         /\ \A i \in 1 .. Len(a) : (a \o b)[i] = a[i]
         /\ \A i \in 1 .. Len(b) : (a \o b)[Len(a) + i] = b[i]
OBVIOUS

(* A space is a symbol, and a word with spaces is padded.                  *)
LEMMA PaddedWords ==
  ASSUME NEW w \in Seq(Symbols)
  PROVE  /\ Padded(w, 0, w) /\ Padded(<<Space>> \o w, 1, w) /\ Padded(<<Space>> \o w \o <<Space>>, 1, w)
         /\ <<Space>> \o w \in Seq(Symbols) /\ <<Space>> \o w \o <<Space>> \in Seq(Symbols)
<1> DEFINE s == <<Space>>
           x == s \o w
           y == x \o s
           n == Len(w)
<1>1. Space \in Symbols
  <2> DEFINE U == UNION {Range(v) : v \in Words}
  <2>1. Symbols = U \cup {Space}
    BY DEF Symbols
  <2> HIDE DEF U
  <2> QED BY <2>1, Zenon
<1>2. s \in Seq(Symbols) /\ Len(s) = 1 /\ s[1] = Space
  <2> DEFINE z == Space
  <2>1. z \in Symbols
    BY <1>1
  <2> HIDE DEF z
  <2>2. <<z>> \in Seq(Symbols) /\ Len(<<z>>) = 1 /\ <<z>>[1] = z
    BY <2>1
  <2> QED BY <2>2, Zenon DEF z
<1>3. n \in Nat
  OBVIOUS
<1> HIDE DEF s
<1>4. /\ x \in Seq(Symbols) /\ Len(x) = Len(s) + n
      /\ \A i \in 1 .. Len(s) : x[i] = s[i]
      /\ \A i \in 1 .. n : x[Len(s) + i] = w[i]
  BY <1>2, TextsJoined
<1> HIDE DEF x
<1>5. /\ y \in Seq(Symbols) /\ Len(y) = Len(x) + Len(s)
      /\ \A i \in 1 .. Len(x) : y[i] = x[i]
      /\ \A i \in 1 .. Len(s) : y[Len(x) + i] = s[i]
  <2>1. x \in Seq(Symbols) /\ s \in Seq(Symbols)
    BY <1>2, <1>4
  <2> QED BY <2>1, TextsJoined
<1> HIDE DEF y, n
<1>6. Len(x) = n + 1 /\ x[1] = Space /\ \A j \in 1 .. n : x[1 + j] = w[j]
  <2>1. 1 \in 1 .. 1 /\ 1 + n = n + 1
    BY <1>3
  <2> QED BY <1>2, <1>4, <2>1, Zenon
<1>7. Len(y) = n + 2 /\ y[1] = Space /\ y[n + 2] = Space /\ \A j \in 1 .. n : y[1 + j] = w[j]
  <2>1. 1 \in 1 .. 1 /\ n + 1 + 1 = n + 2 /\ 1 \in 1 .. n + 1 /\ \A j \in 1 .. n : 1 + j \in 1 .. n + 1
    BY <1>3
  <2>2. y[1] = Space /\ \A j \in 1 .. n : y[1 + j] = w[j]
    BY <1>5, <1>6, <2>1, Zenon
  <2>3. y[n + 2] = Space
    <3>1. y[Len(x) + 1] = s[1]
      BY <1>2, <1>5, <2>1, Zenon
    <3> QED BY <1>2, <1>6, <2>1, <3>1, Zenon
  <2>4. Len(y) = n + 2
    BY <1>2, <1>5, <1>6, <2>1, Zenon
  <2> QED BY <2>2, <2>3, <2>4
<1>8. Padded(w, 0, w)
  <2>1. \A j \in 1 .. n : 0 + j = j
    BY <1>3
  <2>2. (\A i \in 1 .. 0 : w[i] = Space) /\ (\A i \in 0 + n + 1 .. n : w[i] = Space) /\ 0 + n <= n
    BY <1>3
  <2>3. \A j \in 1 .. n : w[0 + j] = w[j]
    BY <2>1, Zenon
  <2> QED BY <2>2, <2>3, Zenon DEF Padded, n
<1>9. Padded(x, 1, w)
  <2>1. 1 + n <= n + 1 /\ (\A i \in 1 .. 1 : i = 1) /\ \A i \in 1 + n + 1 .. n + 1 : FALSE
    BY <1>3
  <2> QED BY <1>6, <2>1, Zenon DEF Padded, n
<1>10. Padded(y, 1, w)
  <2>1. 1 + n <= n + 2 /\ (\A i \in 1 .. 1 : i = 1) /\ \A i \in 1 + n + 1 .. n + 2 : i = n + 2
    BY <1>3
  <2> QED BY <1>7, <2>1, Zenon DEF Padded, n
<1> QED BY <1>4, <1>5, <1>8, <1>9, <1>10, Zenon DEF x, y, s

(* The text of one word more. *)
LEMMA TextGrows ==
  ASSUME NEW n, NEW c, NEW x, NEW d, OneLonger(Seq(Symbols), n, c, x, d)
  PROVE  FlattenSeq(c) \in Seq(Symbols) /\ FlattenSeq(d) = FlattenSeq(c) \o x
<1>1. d = Append(c, x) /\ c \in Seq(Seq(Symbols)) /\ x \in Seq(Symbols)
  <2>1. Grown(c, x, d) /\ c \in Seq(Seq(Symbols)) /\ Len(c) = n
    BY RowGrows
  <2> QED BY <2>1 DEF Grown, OneLonger
<1>2. FlattenSeq(c) \in Seq(Symbols)
  BY <1>1, FlattenType
<1>3. FlattenSeq(Append(c, x)) = IF c = <<>> THEN x ELSE FlattenSeq(c) \o x
  BY <1>1, FlattenAppend
<1>4. CASE c = <<>>
  <2>1. FlattenSeq(c) = <<>>
    BY <1>4 DEF FlattenSeq
  <2>2. <<>> \o x = x
    BY <1>1, ConcatEmptySeq
  <2> QED BY <1>1, <1>2, <1>3, <1>4, <2>1, <2>2, Zenon
<1>5. CASE c # <<>>
  BY <1>1, <1>2, <1>3, <1>5, Zenon
<1> QED BY <1>4, <1>5

(* Both texts, when a word is read. *)
LEMMA TextsGrow ==
  ASSUME NEW r \in Seq(Words), NEW w \in Words
  PROVE  LET s == Append(r, w)
             k == Len(r) + 1
         IN  /\ OneLonger(Seq(Symbols), Len(r), TightWords(r), TightWord(s, k), TightWords(s))
             /\ OneLonger(Seq(Symbols), Len(r), LooseWords(r), LooseWord(s, k), LooseWords(s))
<1> DEFINE s == Append(r, w)
           n == Len(r)
<1>1. /\ n \in Nat /\ DOMAIN r = 1 .. n /\ DOMAIN s = 1 .. n + 1
      /\ \A i \in 1 .. n : s[i] = r[i]
      /\ \A i \in 1 .. n + 1 : s[i] \in Words
  OBVIOUS
<1> HIDE DEF n, s
<1>2. \A v \in Words : /\ v \in Seq(Symbols) /\ <<Space>> \o v \in Seq(Symbols)
                       /\ <<Space>> \o v \o <<Space>> \in Seq(Symbols)
  BY WordsAre, PaddedWords
<1>3. \A i \in 1 .. n + 1 : TightWord(s, i) \in Seq(Symbols) /\ LooseWord(s, i) \in Seq(Symbols)
  BY <1>1, <1>2, Zenon DEF TightWord, LooseWord
<1>4. \A i \in 1 .. n : TightWord(s, i) = TightWord(r, i) /\ LooseWord(s, i) = LooseWord(r, i)
  <2> SUFFICES ASSUME NEW i \in 1 .. n
               PROVE  TightWord(s, i) = TightWord(r, i) /\ LooseWord(s, i) = LooseWord(r, i)
    OBVIOUS
  <2>1. s[i] = r[i]
    BY <1>1
  <2>2. i > 1 => s[i - 1] = r[i - 1]
    <3>1. i > 1 => i - 1 \in 1 .. n
      BY <1>1
    <3> QED BY <1>1, <3>1
  <2> QED BY <2>1, <2>2, Zenon DEF TightWord, LooseWord
<1>5. n + 1 \in 1 .. n + 1 /\ \A i \in 1 .. n : i \in 1 .. n + 1
  BY <1>1
<1>6. TightWords(r) = [i \in 1 .. n |-> TightWord(r, i)] /\ TightWords(s) = [i \in 1 .. n + 1 |-> TightWord(s, i)]
  BY <1>1 DEF TightWords
<1>7. LooseWords(r) = [i \in 1 .. n |-> LooseWord(r, i)] /\ LooseWords(s) = [i \in 1 .. n + 1 |-> LooseWord(s, i)]
  BY <1>1 DEF LooseWords
<1>8. OneLonger(Seq(Symbols), n, TightWords(r), TightWord(s, n + 1), TightWords(s))
  <2> DEFINE c == TightWords(r)
             d == TightWords(s)
  <2>1. /\ \A i \in 1 .. n : c[i] = TightWord(r, i)
        /\ \A i \in 1 .. n + 1 : d[i] = TightWord(s, i)
    BY <1>6, Zenon
  <2>2. IsRow(c, n) /\ IsRow(d, n + 1)
    BY <1>6 DEF IsRow
  <2> HIDE DEF c, d
  <2>3. /\ \A i \in 1 .. n : c[i] \in Seq(Symbols) /\ d[i] = c[i]
        /\ d[n + 1] = TightWord(s, n + 1) /\ TightWord(s, n + 1) \in Seq(Symbols)
    BY <1>3, <1>4, <1>5, <2>1, Zenon
  <2>4. OneLonger(Seq(Symbols), n, c, TightWord(s, n + 1), d)
    BY <1>1, <2>2, <2>3, Zenon DEF OneLonger
  <2> QED BY <2>4 DEF c, d
<1>9. OneLonger(Seq(Symbols), n, LooseWords(r), LooseWord(s, n + 1), LooseWords(s))
  <2> DEFINE c == LooseWords(r)
             d == LooseWords(s)
  <2>1. /\ \A i \in 1 .. n : c[i] = LooseWord(r, i)
        /\ \A i \in 1 .. n + 1 : d[i] = LooseWord(s, i)
    BY <1>7, Zenon
  <2>2. IsRow(c, n) /\ IsRow(d, n + 1)
    BY <1>7 DEF IsRow
  <2> HIDE DEF c, d
  <2>3. /\ \A i \in 1 .. n : c[i] \in Seq(Symbols) /\ d[i] = c[i]
        /\ d[n + 1] = LooseWord(s, n + 1) /\ LooseWord(s, n + 1) \in Seq(Symbols)
    BY <1>3, <1>4, <1>5, <2>1, Zenon
  <2>4. OneLonger(Seq(Symbols), n, c, LooseWord(s, n + 1), d)
    BY <1>1, <2>2, <2>3, Zenon DEF OneLonger
  <2> QED BY <2>4 DEF c, d
<1> QED BY <1>8, <1>9 DEF n, s

(***************************************************************************)
(* Theorem: the words of a line are the same however it is spaced          *)
(* (SpacingIsFree).  Until a string is left open, every word read is       *)
(* closed, and both texts are laid out as the words.                       *)
(***************************************************************************)
SInv ==
  outcome.is # "ParseError" =>
    /\ \A k \in 1 .. Len(read) : Closed(read[k])
    /\ LaidOut(Tight, read) /\ LaidOut(Loose, read)

(* The texts are those of the words read.                                  *)
LEMMA TheTexts ==
  /\ Tight = FlattenSeq(TightWords(read)) /\ Loose = FlattenSeq(LooseWords(read))
  /\ Tight' = FlattenSeq(TightWords(read')) /\ Loose' = FlattenSeq(LooseWords(read'))
BY Zenon DEF Tight, Loose, TightWords, LooseWords, TightWord, LooseWord

(* No words and no text.                                                   *)
LEMMA NothingIsLaidOut ==
  /\ FlattenSeq(TightWords(<<>>)) = <<>> /\ FlattenSeq(LooseWords(<<>>)) = <<>>
  /\ LaidOut(<<>>, <<>>)
<1>1. TightWords(<<>>) = <<>> /\ LooseWords(<<>>) = <<>>
  BY DEF TightWords, LooseWords
<1>2. FlattenSeq(<<>>) = <<>>
  BY DEF FlattenSeq
<1>3. LaidOut(<<>>, <<>>)
  <2> DEFINE e == [k \in 0 .. 0 |-> 0]
             z == <<>>
  <2>1. Len(z) = 0
    OBVIOUS
  <2>2. e \in [0 .. 0 -> Nat] /\ e[0] = 0 /\ 0 <= 0
    OBVIOUS
  <2> HIDE DEF e, z
  <2>3. (\A k \in 1 .. 0 : FALSE) /\ \A i \in 0 + 1 .. 0 : FALSE
    OBVIOUS
  <2>4. (\A k \in 1 .. 0 : Stands(z, z, e, k)) /\ \A i \in 0 + 1 .. 0 : z[i] = Space
    BY <2>3, Zenon
  <2>5. Laid(z, z, e)
    BY <2>1, <2>2, <2>4, Zenon DEF Laid
  <2>6. LaidOut(z, z)
    BY <2>5, Zenon DEF LaidOut
  <2> QED BY <2>6 DEF z
<1> QED BY <1>1, <1>2, <1>3, Zenon

(* One more word, in both texts.                                           *)
LEMMA BothGrow ==
  ASSUME NEW r \in Seq(Words), NEW w \in Words,
         \A k \in 1 .. Len(r) : Closed(r[k])
  PROVE  /\ LaidOut(FlattenSeq(TightWords(r)), r) =>
              LaidOut(FlattenSeq(TightWords(Append(r, w))), Append(r, w))
         /\ LaidOut(FlattenSeq(LooseWords(r)), r) =>
              LaidOut(FlattenSeq(LooseWords(Append(r, w))), Append(r, w))
<1> DEFINE s == Append(r, w)
           n == Len(r)
           k == n + 1
           t == FlattenSeq(TightWords(r))
           l == FlattenSeq(LooseWords(r))
           x == TightWord(s, k)
           y == LooseWord(s, k)
<1>1. /\ n \in Nat /\ k \in Nat /\ s[k] = w /\ (r = <<>> <=> n = 0) /\ k - 1 = n
      /\ n > 0 => k > 1 /\ s[n] = r[n]
      /\ k > 1 => n > 0
      /\ \A i \in 1 .. n : r[i] \in Words
  OBVIOUS
<1>2. /\ OneLonger(Seq(Symbols), n, TightWords(r), x, TightWords(s))
      /\ OneLonger(Seq(Symbols), n, LooseWords(r), y, LooseWords(s))
  BY TextsGrow, Zenon
<1>3. /\ t \in Seq(Symbols) /\ FlattenSeq(TightWords(s)) = t \o x
      /\ l \in Seq(Symbols) /\ FlattenSeq(LooseWords(s)) = l \o y
  <2> HIDE DEF n, k, s, x, y
  <2> DEFINE c == TightWords(r)
             d == TightWords(s)
             p == LooseWords(r)
             q == LooseWords(s)
  <2> HIDE DEF c, d, p, q
  <2>1. OneLonger(Seq(Symbols), n, c, x, d) /\ OneLonger(Seq(Symbols), n, p, y, q)
    BY <1>2, Zenon DEF c, d, p, q
  <2>2. FlattenSeq(c) \in Seq(Symbols) /\ FlattenSeq(d) = FlattenSeq(c) \o x
    BY <2>1, TextGrows
  <2>3. FlattenSeq(p) \in Seq(Symbols) /\ FlattenSeq(q) = FlattenSeq(p) \o y
    BY <2>1, TextGrows
  <2> QED BY <2>2, <2>3, Zenon DEF c, d, p, q
<1>4. w \in Seq(Symbols) /\ w # <<>>
  BY WordsAre
<1>5. r \in Seq(Seq(Symbols))
  <2>1. \A v \in Words : v \in Seq(Symbols)
    BY WordsAre
  <2> DEFINE S == Seq(Symbols)
  <2>2. \A v \in Words : v \in S
    BY <2>1
  <2> HIDE DEF S
  <2>3. r \in Seq(S)
    BY <2>2
  <2> QED BY <2>3 DEF S
<1>6. \A i \in 1 .. n : r[i] # <<>>
  BY Zenon DEF Closed
<1>7. y = <<Space>> \o w \o <<Space>> /\ x = IF k > 1 /\ GrowTogether(s[k - 1], w) THEN <<Space>> \o w ELSE w
  BY <1>1, Zenon DEF LooseWord, TightWord
<1>8. /\ Padded(w, 0, w) /\ Padded(<<Space>> \o w, 1, w) /\ Padded(y, 1, w)
      /\ <<Space>> \o w \in Seq(Symbols) /\ y \in Seq(Symbols)
  BY <1>4, <1>7, PaddedWords, Zenon
<1> HIDE DEF n, k, s, t, l, x, y
<1>9. 0 \in Nat /\ 1 \in Nat /\ 1 # 0
  OBVIOUS
<1>10. ASSUME LaidOut(t, r) PROVE LaidOut(t \o x, s)
  <2>1. CASE k > 1 /\ GrowTogether(s[k - 1], w)
    <3>1. x = <<Space>> \o w
      BY <1>7, <2>1, Zenon
    <3>2. LaidOut(t \o x, Append(r, w))
      BY <1>3, <1>4, <1>5, <1>6, <1>8, <1>9, <1>10, <3>1, LaidGrows, Zenon DEF n
    <3> QED BY <3>2 DEF s
  <2>2. CASE ~(k > 1 /\ GrowTogether(s[k - 1], w))
    <3>1. x = w
      BY <1>7, <2>2, Zenon
    <3>2. r # <<>> => ~GrowWith(r[n], w[1])
      <4> SUFFICES ASSUME r # <<>> PROVE ~GrowWith(r[n], w[1])
        OBVIOUS
      <4>1. n > 0
        BY <1>1
      <4>2. s[k - 1] = r[n] /\ k > 1
        BY <1>1, <4>1, Zenon
      <4> QED BY <2>2, <4>2, Zenon DEF GrowTogether, GrowWith
    <3>3. LaidOut(t \o x, Append(r, w))
      BY <1>3, <1>4, <1>5, <1>6, <1>8, <1>9, <1>10, <3>1, <3>2, LaidGrows, Zenon DEF n
    <3> QED BY <3>3 DEF s
  <2> QED BY <2>1, <2>2
<1>11. ASSUME LaidOut(l, r) PROVE LaidOut(l \o y, s)
  <2>1. LaidOut(l \o y, Append(r, w))
    BY <1>3, <1>4, <1>5, <1>6, <1>8, <1>9, <1>11, LaidGrows, Zenon DEF n
  <2> QED BY <2>1 DEF s
<1>12. (LaidOut(t, r) => LaidOut(t \o x, s)) /\ (LaidOut(l, r) => LaidOut(l \o y, s))
  BY <1>10, <1>11
<1> QED BY <1>3, <1>12, Zenon DEF t, l, s

(* The texts and the words are made of symbols.                            *)
LEMMA TextsType ==
  ASSUME NEW r \in Seq(Words)
  PROVE  /\ FlattenSeq(TightWords(r)) \in Seq(Symbols) /\ FlattenSeq(LooseWords(r)) \in Seq(Symbols)
         /\ r \in Seq(Seq(Symbols))
<1> DEFINE S == Seq(Symbols)
           n == Len(r)
<1>1. \A v \in Words : v \in S /\ <<Space>> \o v \in S /\ <<Space>> \o v \o <<Space>> \in S
  BY WordsAre, PaddedWords
<1>2. n \in Nat /\ DOMAIN r = 1 .. n /\ \A i \in 1 .. n : r[i] \in Words
  OBVIOUS
<1>3. \A i \in 1 .. n : TightWord(r, i) \in S /\ LooseWord(r, i) \in S
  BY <1>1, <1>2, Zenon DEF TightWord, LooseWord
<1>4. TightWords(r) = [i \in 1 .. n |-> TightWord(r, i)] /\ LooseWords(r) = [i \in 1 .. n |-> LooseWord(r, i)]
  BY <1>2, Zenon DEF TightWords, LooseWords
<1> HIDE DEF S
<1>5. r \in Seq(S)
  BY <1>1
<1>6. TightWords(r) \in Seq(S) /\ LooseWords(r) \in Seq(S)
  <2> HIDE DEF n
  <2>1. TightWords(r) \in Seq(S)
    BY <1>2, <1>3, <1>4
  <2>2. LooseWords(r) \in Seq(S)
    BY <1>2, <1>3, <1>4
  <2> QED BY <2>1, <2>2
<1>7. FlattenSeq(TightWords(r)) \in Seq(Symbols)
  BY <1>6, FlattenType DEF S
<1>8. FlattenSeq(LooseWords(r)) \in Seq(Symbols)
  BY <1>6, FlattenType DEF S
<1> QED BY <1>5, <1>7, <1>8 DEF S

(* A word that is a string left open is no word.                           *)
LEMMA OpenString ==
  ASSUME NEW w \in Words
  PROVE  Closed(w) \/ Lex[w] = Plain("ParseError")
<1>1. /\ w \in Seq(Symbols) /\ w # <<>> /\ w[1] # Space
      /\ WordEnd(w, 1) > Len(w) \/ Closed(w)
  BY WordsAre
<1>2. CASE WordEnd(w, 1) > Len(w)
  <2>1. PICK f : Split(w) = f[1] /\ \A i \in 1 .. Len(w) + 2 : f[i] = WordsFrom(w, f, i)
    BY <1>1, SplitIs
  <2>2. 1 \in 1 .. Len(w) + 2 /\ ~(1 > Len(w))
    BY <1>1
  <2>3. f[1] = <<Unterminated>>
    BY <1>1, <1>2, <2>1, <2>2, Zenon DEF WordsFrom
  <2>4. Unterminated \in Range(Split(w))
    <3> DEFINE z == Unterminated
    <3>1. 1 \in DOMAIN <<z>> /\ <<z>>[1] = z
      OBVIOUS
    <3>2. z \in Range(<<z>>)
      BY <3>1, Zenon DEF Range
    <3> QED BY <2>1, <2>3, <3>2, Zenon
  <2>5. Lex[w] = Plain("ParseError")
    BY <2>4, Zenon DEF Lex
  <2> QED BY <2>5
<1> QED BY <1>1, <1>2

(* A word read.                                                            *)
LEMMA ReadSpaced ==
  ASSUME read \in Seq(Words), SInv, NEW w \in Words, Read(w)
  PROVE  SInv'
<1>1. outcome = Reading /\ read' = Append(read, w)
  BY DEF Read
<1>2. outcome.is # "ParseError"
  BY <1>1 DEF Reading, Is
<1>3. /\ \A k \in 1 .. Len(read) : Closed(read[k])
      /\ LaidOut(Tight, read) /\ LaidOut(Loose, read)
  BY <1>2, Zenon DEF SInv
<1>4. LaidOut(Tight', read') /\ LaidOut(Loose', read')
  BY <1>1, <1>3, BothGrow, TheTexts, Zenon
<1>5. CASE Closed(w)
  <2>1. \A k \in 1 .. Len(read') : (k \in 1 .. Len(read) /\ read'[k] = read[k]) \/ read'[k] = w
    BY <1>1
  <2>2. \A k \in 1 .. Len(read') : Closed(read'[k])
    BY <1>3, <1>5, <2>1, Zenon
  <2> QED BY <1>4, <2>2, Zenon DEF SInv
<1>6. CASE ~Closed(w)
  <2>1. Lex[w] = Plain("ParseError")
    BY <1>6, OpenString
  <2>2. Lex[w].type = "ParseError"
    BY <2>1 DEF Plain
  <2>3. outcome' = Is("ParseError")
    BY <2>2, Zenon DEF Read, Errors, End
  <2>4. outcome'.is = "ParseError"
    BY <2>3 DEF Is
  <2> QED BY <2>4, Zenon DEF SInv
<1> QED BY <1>5, <1>6

(* No word read.                                                           *)
LEMMA NoneSpaced ==
  /\ read = <<>> => SInv
  /\ read' = <<>> => SInv'
<1>1. \A k \in 1 .. Len(<<>>) : FALSE
  OBVIOUS
<1>2. ASSUME read = <<>> PROVE SInv
  BY <1>1, <1>2, NothingIsLaidOut, TheTexts, Zenon DEF SInv
<1>3. ASSUME read' = <<>> PROVE SInv'
  BY <1>1, <1>3, NothingIsLaidOut, TheTexts, Zenon DEF SInv
<1> QED BY <1>2, <1>3

(* The words do not change: the line is not the one with a string open.    *)
LEMMA SameSpaced ==
  ASSUME SInv, read' = read, outcome'.is = "ParseError" \/ outcome.is # "ParseError"
  PROVE  SInv'
BY TheTexts, Zenon DEF SInv

(* SpacingIsFree: between words that would not grow together a space says  *)
(* nothing, and with spaces everywhere the words are the same.             *)
THEOREM SpacingFree == Spec => []SpacingIsFree
<1>1. Init => SInv
  BY NoneSpaced DEF Init
<1>2. IInv /\ SInv /\ [Next]_vars => SInv'
  <2> SUFFICES ASSUME IInv, SInv, [Next]_vars PROVE SInv'
    OBVIOUS
  <2>1. read \in Seq(Words)
    BY DEF IInv
  <2>2. ASSUME NEW w \in Words, Read(w) PROVE SInv'
    BY <2>1, <2>2, ReadSpaced
  <2>3. CASE EndOfLine
    <3>1. read' = read /\ outcome = Reading
      BY <2>3 DEF EndOfLine
    <3>2. outcome.is # "ParseError"
      BY <3>1 DEF Reading, Is
    <3> QED BY <3>1, <3>2, SameSpaced
  <2>4. CASE NextLine
    BY <2>4, NoneSpaced DEF NextLine
  <2>5. CASE UNCHANGED vars
    <3>1. read' = read /\ outcome' = outcome
      BY <2>5 DEF vars
    <3> QED BY <3>1, SameSpaced
  <2> QED BY <2>2, <2>3, <2>4, <2>5 DEF Next
<1>3. IInv /\ SInv => SpacingIsFree
  <2> SUFFICES ASSUME IInv, SInv, outcome.is # "ParseError"
               PROVE  Split(Tight) = read /\ Split(Loose) = read
    BY Zenon DEF SpacingIsFree
  <2>1. read \in Seq(Words)
    BY DEF IInv
  <2>2. /\ \A k \in 1 .. Len(read) : Closed(read[k])
        /\ LaidOut(Tight, read) /\ LaidOut(Loose, read)
    BY Zenon DEF SInv
  <2>3. Tight \in Seq(Symbols) /\ Loose \in Seq(Symbols) /\ read \in Seq(Seq(Symbols))
    BY <2>1, TextsType, TheTexts, Zenon
  <2>4. PICK d : Laid(Tight, read, d)
    BY <2>2, Zenon DEF LaidOut
  <2>5. PICK e : Laid(Loose, read, e)
    BY <2>2, Zenon DEF LaidOut
  <2>6. Split(Tight) = read
    BY <2>2, <2>3, <2>4, SplitLaid
  <2>7. Split(Loose) = read
    BY <2>2, <2>3, <2>5, SplitLaid
  <2> QED BY <2>6, <2>7
<1> QED BY <1>1, <1>2, <1>3, Invariant, PTL DEF Spec

=============================================================================
