------------------------ MODULE InsertSyntax_proofs ------------------------
(***************************************************************************)
(* Proofs about the parser of InsertSyntax, for statements of any number   *)
(* of rows, of any length and content: the rows that mysqldump writes are  *)
(* the rows that parse_insert_sql reads.                                   *)
(***************************************************************************)
EXTENDS InsertLexer_proofs

-----------------------------------------------------------------------------
(* Rows.                                                                   *)

Values == [type : Kinds \cup {"String", "Binary"}, text : Seq(Symbols)]

RowResults == [ok : BOOLEAN, values : Seq(Values), rest : Seq(Tokens)]

LEMMA WithValueIsRow ==
  ASSUME NEW value \in Values, NEW row \in RowResults
  PROVE  /\ WithValue(value, row) \in RowResults
         /\ WithValue(value, row)
              = [ok |-> row.ok, values |-> <<value>> \o row.values, rest |-> row.rest]
<1> DEFINE values == <<value>> \o row.values
<1>1. row.values \in Seq(Values) /\ row.ok \in BOOLEAN /\ row.rest \in Seq(Tokens)
  BY DEF RowResults
<1>2. values \in Seq(Values)
  BY <1>1, Prepended
<1>3. row = [ok |-> row.ok, values |-> row.values, rest |-> row.rest]
  BY DEF RowResults
<1>4. WithValue(value, row) = [row EXCEPT !.values = values]
  BY DEF WithValue
<1> HIDE DEF values
<1>5. [row EXCEPT !.values = values] = [ok |-> row.ok, values |-> values, rest |-> row.rest]
  BY <1>3
<1>6. [ok |-> row.ok, values |-> values, rest |-> row.rest] \in RowResults
  BY <1>1, <1>2 DEF RowResults
<1> QED BY <1>4, <1>5, <1>6 DEF values

LEMMA KindOfFirst ==
  ASSUME NEW tokens \in Seq(Tokens), KindAt(tokens, 1) # "None"
  PROVE  /\ tokens # <<>> /\ tokens[1] \in Tokens /\ KindAt(tokens, 1) = tokens[1].kind
         /\ tokens[1].kind \in Kinds /\ tokens[1].text \in Seq(Symbols)
         /\ After(1, tokens) \in Seq(Tokens) /\ Len(After(1, tokens)) = Len(tokens) - 1
<1>1. 1 \in DOMAIN tokens /\ KindAt(tokens, 1) = tokens[1].kind
  BY DEF KindAt
<1>2. tokens # <<>> /\ tokens[1] \in Tokens
  BY <1>1
<1>3. tokens[1].kind \in Kinds /\ tokens[1].text \in Seq(Symbols)
  BY <1>2 DEF Tokens
<1>4. After(1, tokens) \in Seq(Tokens) /\ Len(After(1, tokens)) = Len(tokens) - 1
  BY <1>2, Decomposed
<1> QED BY <1>1, <1>2, <1>3, <1>4

(* The parser ends a row or fails, or goes on behind a value and a comma. *)
EndsAt(tokens, binary, result) ==
  /\ result \in RowResults /\ Len(result.rest) <= Len(tokens)
  /\ \A g : RowAt(tokens, binary, g) = result

GoesOnAt(tokens, binary, rest, still, value) ==
  /\ rest \in Seq(Tokens) /\ still \in BOOLEAN /\ value \in Values
  /\ Len(rest) < Len(tokens)
  /\ \A g : RowAt(tokens, binary, g) = WithValue(value, g[<<rest, still>>])

LEMMA RowAtSteps ==
  ASSUME NEW tokens \in Seq(Tokens), NEW binary \in BOOLEAN
  PROVE  \/ \E result : EndsAt(tokens, binary, result)
         \/ \E rest, still, value : GoesOnAt(tokens, binary, rest, still, value)
<1> DEFINE kind == KindAt(tokens, 1)
<1>0. Len(tokens) \in Nat
  OBVIOUS
<1>1. CASE kind = "RightParen"
  <2> DEFINE result == [ok |-> TRUE, values |-> <<>>, rest |-> tokens]
  <2>1. result \in RowResults /\ Len(result.rest) <= Len(tokens)
    BY <1>0, EmptySeq DEF RowResults
  <2>2. \A g : RowAt(tokens, binary, g) = result
    BY <1>1 DEF RowAt
  <2> QED BY <2>1, <2>2 DEF EndsAt
<1>2. CASE kind \notin {"RightParen"} \cup ValueKinds
  <2> DEFINE result == [ok |-> FALSE, values |-> <<>>, rest |-> <<>>]
  <2>1. result \in RowResults /\ Len(result.rest) <= Len(tokens)
    BY <1>0, EmptySeq DEF RowResults
  <2>2. \A g : RowAt(tokens, binary, g) = result
    BY <1>2 DEF RowAt
  <2> QED BY <2>1, <2>2 DEF EndsAt
<1>3. CASE kind \in ValueKinds
  <2> DEFINE value == ValueAt(tokens, binary)
             still == binary /\ kind # "StringLiteral"
             type == IF kind # "StringLiteral" THEN kind
                     ELSE IF binary THEN "Binary" ELSE "String"
  <2>1. kind # "None" /\ kind # "RightParen"
    BY <1>3 DEF ValueKinds
  <2>2. tokens[1].text \in Seq(Symbols) /\ kind \in Kinds
        /\ After(1, tokens) \in Seq(Tokens) /\ Len(After(1, tokens)) = Len(tokens) - 1
    BY <2>1, KindOfFirst
  <2>3. value = [type |-> type, text |-> tokens[1].text]
    BY DEF ValueAt, InsertValue
  <2>4. value \in Values
    <3>1. type \in Kinds \cup {"String", "Binary"}
      BY <2>2
    <3> QED BY <2>2, <2>3, <3>1 DEF Values
  <2> HIDE DEF value
  <2>5. CASE KindAt(tokens, 2) = "Comma"
    <3>1. 2 \in 0 .. Len(tokens)
      BY <2>5 DEF KindAt
    <3>2. After(2, tokens) \in Seq(Tokens) /\ Len(After(2, tokens)) = Len(tokens) - 2
      BY <3>1, AfterIsText
    <3>3. \A g : RowAt(tokens, binary, g) = WithValue(value, g[<<After(2, tokens), still>>])
      BY <1>3, <2>1, <2>5 DEF RowAt, value
    <3>4. still \in BOOLEAN /\ Len(After(2, tokens)) < Len(tokens)
      BY <1>0, <3>2
    <3> QED BY <2>4, <3>2, <3>3, <3>4 DEF GoesOnAt
  <2>6. CASE KindAt(tokens, 2) # "Comma"
    <3> DEFINE result == [ok |-> TRUE, values |-> <<value>>, rest |-> After(1, tokens)]
    <3>1. result \in RowResults /\ Len(result.rest) <= Len(tokens)
      <4>1. <<value>> \in Seq(Values)
        BY <2>4
      <4> QED BY <1>0, <2>2, <4>1 DEF RowResults
    <3>2. \A g : RowAt(tokens, binary, g) = result
      BY <1>3, <2>1, <2>6 DEF RowAt, value
    <3> QED BY <3>1, <3>2 DEF EndsAt
  <2> QED BY <2>5, <2>6
<1> QED BY <1>1, <1>2, <1>3

RowEnds(tokens, prefixed, result) ==
  /\ result \in RowResults /\ Len(result.rest) <= Len(tokens)
  /\ \A g : RowOf(tokens, prefixed, g) = result

RowGoesOn(tokens, prefixed, rest, still, value) ==
  /\ rest \in Seq(Tokens) /\ still \in BOOLEAN /\ value \in Values
  /\ Len(rest) < Len(tokens)
  /\ \A g : RowOf(tokens, prefixed, g) = WithValue(value, g[<<rest, still>>])

LEMMA RowSteps ==
  ASSUME NEW tokens \in Seq(Tokens), NEW prefixed \in BOOLEAN
  PROVE  \/ \E result : RowEnds(tokens, prefixed, result)
         \/ \E rest, still, value : RowGoesOn(tokens, prefixed, rest, still, value)
<1>1. CASE KindAt(tokens, 1) = "BinaryPrefix"
  <2> DEFINE u == After(1, tokens)
  <2>1. u \in Seq(Tokens) /\ Len(u) = Len(tokens) - 1
    BY <1>1, KindOfFirst
  <2>2. \A g : RowOf(tokens, prefixed, g) = RowAt(u, TRUE, g)
    BY <1>1 DEF RowOf
  <2> HIDE DEF u
  <2>3. \A r \in Seq(Tokens) : /\ Len(r) <= Len(u) => Len(r) <= Len(tokens)
                               /\ Len(r) < Len(u) => Len(r) < Len(tokens)
    BY <2>1
  <2>4. ASSUME NEW result, EndsAt(u, TRUE, result) PROVE RowEnds(tokens, prefixed, result)
    <3>1. result \in RowResults /\ Len(result.rest) <= Len(u)
          /\ \A g : RowAt(u, TRUE, g) = result
      BY <2>4 DEF EndsAt
    <3>2. result.rest \in Seq(Tokens)
      BY <3>1 DEF RowResults
    <3>3. Len(result.rest) <= Len(tokens)
      BY <2>3, <3>1, <3>2
    <3> QED BY <2>2, <3>1, <3>3 DEF RowEnds
  <2>5. ASSUME NEW rest, NEW still, NEW value, GoesOnAt(u, TRUE, rest, still, value)
        PROVE  RowGoesOn(tokens, prefixed, rest, still, value)
    <3>1. rest \in Seq(Tokens) /\ Len(rest) < Len(tokens)
      BY <2>3, <2>5 DEF GoesOnAt
    <3> QED BY <2>2, <2>5, <3>1 DEF GoesOnAt, RowGoesOn
  <2> QED BY <2>1, <2>4, <2>5, RowAtSteps
<1>2. CASE KindAt(tokens, 1) # "BinaryPrefix"
  <2>1. \A g : RowOf(tokens, prefixed, g) = RowAt(tokens, prefixed, g)
    BY <1>2 DEF RowOf
  <2>2. \A result : EndsAt(tokens, prefixed, result) => RowEnds(tokens, prefixed, result)
    BY <2>1 DEF EndsAt, RowEnds
  <2>3. \A rest, still, value : GoesOnAt(tokens, prefixed, rest, still, value)
                                  => RowGoesOn(tokens, prefixed, rest, still, value)
    BY <2>1 DEF GoesOnAt, RowGoesOn
  <2> QED BY <2>2, <2>3, RowAtSteps
<1> QED BY <1>1, <1>2

LEMMA RowOfIsRow ==
  ASSUME NEW tokens \in Seq(Tokens), NEW prefixed \in BOOLEAN, NEW g,
         \A s \in Seq(Tokens) : Len(s) < Len(tokens) =>
           \A b \in BOOLEAN : g[<<s, b>>] \in RowResults
  PROVE  RowOf(tokens, prefixed, g) \in RowResults
<1>1. ASSUME NEW result, RowEnds(tokens, prefixed, result)
      PROVE  RowOf(tokens, prefixed, g) \in RowResults
  BY <1>1 DEF RowEnds
<1>2. ASSUME NEW rest, NEW still, NEW value, RowGoesOn(tokens, prefixed, rest, still, value)
      PROVE  RowOf(tokens, prefixed, g) \in RowResults
  <2>1. g[<<rest, still>>] \in RowResults /\ value \in Values
    BY <1>2 DEF RowGoesOn
  <2>2. WithValue(value, g[<<rest, still>>]) \in RowResults
    BY <2>1, WithValueIsRow
  <2> QED BY <1>2, <2>2 DEF RowGoesOn
<1> QED BY <1>1, <1>2, RowSteps

AgreeBelow(tokens, g, h) ==
  \A s \in Seq(Tokens) : Len(s) < Len(tokens) => \A b \in BOOLEAN : g[<<s, b>>] = h[<<s, b>>]

LEMMA RowOfFalls ==
  ASSUME NEW tokens \in Seq(Tokens), NEW prefixed \in BOOLEAN, NEW g, NEW h,
         AgreeBelow(tokens, g, h)
  PROVE  RowOf(tokens, prefixed, g) = RowOf(tokens, prefixed, h)
<1>1. ASSUME NEW result, RowEnds(tokens, prefixed, result)
      PROVE  RowOf(tokens, prefixed, g) = RowOf(tokens, prefixed, h)
  BY <1>1 DEF RowEnds
<1>2. ASSUME NEW rest, NEW still, NEW value, RowGoesOn(tokens, prefixed, rest, still, value)
      PROVE  RowOf(tokens, prefixed, g) = RowOf(tokens, prefixed, h)
  <2>1. g[<<rest, still>>] = h[<<rest, still>>]
    BY <1>2 DEF RowGoesOn, AgreeBelow
  <2> QED BY <1>2, <2>1 DEF RowGoesOn
<1> QED BY <1>1, <1>2, RowSteps

(* parse_row comes to an end on any tokens. *)
LEMMA RowDefined ==
  \A tokens \in Seq(Tokens), prefixed \in BOOLEAN :
    /\ Row[<<tokens, prefixed>>] = RowOf(tokens, prefixed, Row)
    /\ Row[<<tokens, prefixed>>] \in RowResults
<1> DEFINE D == Seq(Tokens) \X BOOLEAN
           V == RowResults
           rank == [at \in D |-> Len(at[1])]
           step == [g \in [D -> V] |-> [at \in D |-> RowOf(at[1], at[2], g)]]
<1>0. \A at \in D : at[1] \in Seq(Tokens) /\ at[2] \in BOOLEAN /\ at = <<at[1], at[2]>>
  OBVIOUS
<1>a. \A s \in Seq(Tokens), b \in BOOLEAN : <<s, b>> \in D /\ <<s, b>>[1] = s /\ <<s, b>>[2] = b
  OBVIOUS
<1>1. rank \in [D -> Nat] /\ \A at \in D : rank[at] = Len(at[1])
  BY <1>0
<1>b. \A s \in Seq(Tokens), b \in BOOLEAN : rank[<<s, b>>] = Len(s)
  <2> HIDE DEF D, rank
  <2> QED BY <1>1, <1>a
<1>2. step \in [[D -> V] -> [D -> V]]
  <2>1. ASSUME NEW g \in [D -> V], NEW at \in D PROVE RowOf(at[1], at[2], g) \in V
    <3>1. \A s \in Seq(Tokens), b \in BOOLEAN : g[<<s, b>>] \in RowResults
      BY <1>a
    <3> HIDE DEF D
    <3> QED BY <1>0, <3>1, RowOfIsRow
  <2> HIDE DEF D, V
  <2> QED BY <2>1
<1>3. Falls(D, V, rank, step)
  <2> SUFFICES ASSUME NEW g \in [D -> V], NEW h \in [D -> V], NEW at \in D,
                      \A r \in D : rank[r] < rank[at] => g[r] = h[r]
               PROVE  step[g][at] = step[h][at]
    BY DEF Falls
  <2>1. RowOf(at[1], at[2], g) = RowOf(at[1], at[2], h)
    <3> DEFINE tokens == at[1]
               prefixed == at[2]
    <3>1. tokens \in Seq(Tokens) /\ prefixed \in BOOLEAN /\ rank[at] = Len(tokens)
      BY <1>0, <1>1
    <3> HIDE DEF D, V, rank, step, tokens, prefixed
    <3>2. AgreeBelow(tokens, g, h)
      BY <1>a, <1>b, <3>1 DEF AgreeBelow
    <3>3. tokens \in Seq(Tokens) /\ prefixed \in BOOLEAN
      BY <3>1
    <3>4. RowOf(tokens, prefixed, g) = RowOf(tokens, prefixed, h)
      BY ONLY <3>2, <3>3, RowOfFalls
    <3> QED BY <3>4 DEF tokens, prefixed
  <2> QED BY <2>1
<1>4. V # {}
  <2>1. [ok |-> TRUE, values |-> <<>>, rest |-> <<>>] \in V
    BY EmptySeq DEF RowResults
  <2> QED BY <2>1
<1>5. PICK found \in [D -> V] : found = step[found]
  <2> HIDE DEF D, V, rank, step
  <2>1. WellDefined(D, V, rank, step)
    BY <1>1, <1>2, <1>3, <1>4 DEF WellDefined
  <2> QED BY <2>1, Recursion
<1>6. found = [at \in Seq(Tokens) \X BOOLEAN |-> RowOf(at[1], at[2], found)]
  BY <1>5
<1>7. Row = [at \in Seq(Tokens) \X BOOLEAN |-> RowOf(at[1], at[2], Row)]
  BY <1>6 DEF Row
<1> HIDE DEF D, rank, step
<1>8. ASSUME NEW s \in Seq(Tokens), NEW b \in BOOLEAN
      PROVE  Row[<<s, b>>] = RowOf(s, b, Row)
  BY <1>7
<1> DEFINE S == {at \in D : Row[at] \in V}
<1>9. ASSUME NEW at \in D, \A r \in D : rank[r] < rank[at] => r \in S PROVE at \in S
  <2> DEFINE tokens == at[1]
             prefixed == at[2]
  <2>1. tokens \in Seq(Tokens) /\ prefixed \in BOOLEAN /\ rank[at] = Len(tokens)
        /\ at = <<tokens, prefixed>>
    BY <1>0, <1>1
  <2> HIDE DEF tokens, prefixed
  <2>2. \A s \in Seq(Tokens), b \in BOOLEAN :
          Len(s) < Len(tokens) => Row[<<s, b>>] \in RowResults
    BY <1>a, <1>b, <1>9, <2>1
  <2>3. RowOf(tokens, prefixed, Row) \in V
    BY <2>1, <2>2, RowOfIsRow
  <2>4. Row[at] \in V
    BY <1>8, <2>1, <2>3
  <2> QED BY <2>4
<1>10. D \subseteq S
  <2> HIDE DEF V, S
  <2>1. Rises(D, rank, S)
    BY <1>1, <1>9 DEF Rises
  <2> QED BY <2>1, RankInduction
<1>11. ASSUME NEW s \in Seq(Tokens), NEW b \in BOOLEAN PROVE Row[<<s, b>>] \in RowResults
  BY <1>10, <1>a
<1> QED BY <1>8, <1>11

(* The parser goes forwards. *)
LEMMA RowAdvances ==
  ASSUME NEW tokens \in Seq(Tokens), NEW prefixed \in BOOLEAN
  PROVE  Len(Row[<<tokens, prefixed>>].rest) <= Len(tokens)
<1> DEFINE D == Seq(Tokens)
           rank == [s \in D |-> Len(s)]
           Shorter(s, b) == Len(Row[<<s, b>>].rest) <= Len(s)
           S == {s \in D : \A b \in BOOLEAN : Shorter(s, b)}
<1>1. rank \in [D -> Nat] /\ \A s \in D : rank[s] = Len(s)
  OBVIOUS
<1>2. ASSUME NEW s \in D, \A r \in D : rank[r] < rank[s] => r \in S PROVE s \in S
  <2> SUFFICES ASSUME NEW b \in BOOLEAN PROVE Shorter(s, b)
    OBVIOUS
  <2>1. Row[<<s, b>>] = RowOf(s, b, Row)
    BY RowDefined
  <2>2. ASSUME NEW result, RowEnds(s, b, result) PROVE Shorter(s, b)
    BY <2>1, <2>2 DEF RowEnds
  <2>3. ASSUME NEW rest, NEW still, NEW value, RowGoesOn(s, b, rest, still, value)
        PROVE  Shorter(s, b)
    <3>1. rest \in D /\ still \in BOOLEAN /\ value \in Values /\ Len(rest) < Len(s)
          /\ Row[<<s, b>>] = WithValue(value, Row[<<rest, still>>])
      BY <2>1, <2>3 DEF RowGoesOn
    <3>2. rest \in S
      BY <1>1, <1>2, <3>1
    <3>3. Len(Row[<<rest, still>>].rest) <= Len(rest)
      BY <3>1, <3>2
    <3>4. Row[<<rest, still>>] \in RowResults
      BY <3>1, RowDefined
    <3> DEFINE other == Row[<<rest, still>>]
    <3>5. other \in RowResults /\ Len(other.rest) <= Len(rest)
      BY <3>3, <3>4
    <3> HIDE DEF other
    <3>6. WithValue(value, other).rest = other.rest
      <4>1. value \in Values /\ other \in RowResults
        BY <3>1, <3>5
      <4>2. WithValue(value, other)
              = [ok |-> other.ok, values |-> <<value>> \o other.values, rest |-> other.rest]
        BY ONLY <4>1, WithValueIsRow
      <4> QED BY ONLY <4>2
    <3>7. other.rest \in Seq(Tokens)
      BY <3>5 DEF RowResults
    <3>8. Len(other.rest) <= Len(s)
      BY <3>1, <3>5, <3>7
    <3> QED BY <3>1, <3>6, <3>8 DEF other
  <2> QED BY <2>2, <2>3, RowSteps
<1>3. D \subseteq S
  <2> HIDE DEF D, rank, S
  <2>1. Rises(D, rank, S)
    BY <1>1, <1>2 DEF Rises
  <2> QED BY <2>1, RankInduction
<1> QED BY <1>3

-----------------------------------------------------------------------------
(* Statements.                                                             *)

RowsResults == [ok : BOOLEAN, rows : Seq(Seq(Values))]

WithRow(values, others) == [others EXCEPT !.rows = <<values>> \o @]

LEMMA WithRowIsRows ==
  ASSUME NEW values \in Seq(Values), NEW others \in RowsResults
  PROVE  /\ WithRow(values, others) \in RowsResults
         /\ WithRow(values, others) = [ok |-> others.ok, rows |-> <<values>> \o others.rows]
<1> DEFINE rows == <<values>> \o others.rows
<1>1. others.rows \in Seq(Seq(Values)) /\ others.ok \in BOOLEAN
  BY DEF RowsResults
<1>2. rows \in Seq(Seq(Values))
  BY <1>1, Prepended
<1>3. others = [ok |-> others.ok, rows |-> others.rows]
  BY DEF RowsResults
<1>4. WithRow(values, others) = [others EXCEPT !.rows = rows]
  BY DEF WithRow
<1> HIDE DEF rows
<1>5. [others EXCEPT !.rows = rows] = [ok |-> others.ok, rows |-> rows]
  BY <1>3
<1>6. [ok |-> others.ok, rows |-> rows] \in RowsResults
  BY <1>1, <1>2 DEF RowsResults
<1> QED BY <1>4, <1>5, <1>6 DEF rows

(* The parser ends a statement or fails, or goes on behind a row. *)
RowsEnd(tokens, result) == result \in RowsResults /\ \A g : RowsOf(tokens, g) = result

RowsGoOn(tokens, rest, values) ==
  /\ rest \in Seq(Tokens) /\ values \in Seq(Values)
  /\ Len(rest) < Len(tokens)
  /\ \A g : RowsOf(tokens, g) = WithRow(values, g[rest])

LEMMA RowsSteps ==
  ASSUME NEW tokens \in Seq(Tokens)
  PROVE  \/ \E result : RowsEnd(tokens, result)
         \/ \E rest, values : RowsGoOn(tokens, rest, values)
<1> DEFINE row == Row[<<tokens, FALSE>>]
           Closes == row.ok /\ KindAt(row.rest, 1) = "RightParen"
<1>1. row.ok \in BOOLEAN /\ row.values \in Seq(Values) /\ row.rest \in Seq(Tokens)
  BY RowDefined DEF RowResults
<1>2. Len(row.rest) <= Len(tokens)
  BY RowAdvances
<1>3. ASSUME \A g : RowsOf(tokens, g) = [ok |-> FALSE, rows |-> <<>>]
      PROVE  \E result : RowsEnd(tokens, result)
  <2>1. [ok |-> FALSE, rows |-> <<>>] \in RowsResults
    BY EmptySeq DEF RowsResults
  <2> QED BY <1>3, <2>1 DEF RowsEnd
<1>4. CASE ~Closes
  <2>1. \A g : RowsOf(tokens, g) = [ok |-> FALSE, rows |-> <<>>]
    BY <1>4 DEF RowsOf
  <2> QED BY <1>3, <2>1
<1>5. CASE Closes /\ KindAt(row.rest, 2) # "Comma"
  <2> DEFINE result == [ok |-> TRUE, rows |-> <<row.values>>]
  <2>1. result \in RowsResults
    <3>1. <<row.values>> \in Seq(Seq(Values))
      BY <1>1
    <3> QED BY <3>1 DEF RowsResults
  <2>2. \A g : RowsOf(tokens, g) = result
    BY <1>5 DEF RowsOf
  <2> QED BY <2>1, <2>2 DEF RowsEnd
<1>6. CASE Closes /\ KindAt(row.rest, 2) = "Comma" /\ KindAt(row.rest, 3) # "LeftParen"
  <2>1. \A g : RowsOf(tokens, g) = [ok |-> FALSE, rows |-> <<>>]
    BY <1>6 DEF RowsOf
  <2> QED BY <1>3, <2>1
<1>7. CASE Closes /\ KindAt(row.rest, 2) = "Comma" /\ KindAt(row.rest, 3) = "LeftParen"
  <2> DEFINE rest == After(3, row.rest)
  <2>1. \A g : RowsOf(tokens, g) = WithRow(row.values, g[rest])
    BY <1>7 DEF RowsOf, WithRow
  <2>2. rest \in Seq(Tokens) /\ Len(rest) < Len(tokens)
    <3> DEFINE u == row.rest
    <3>1. u \in Seq(Tokens) /\ Len(u) <= Len(tokens) /\ KindAt(u, 3) = "LeftParen"
      BY <1>1, <1>2, <1>7
    <3> HIDE DEF u
    <3>2. 3 \in 0 .. Len(u)
      BY <3>1 DEF KindAt
    <3>3. After(3, u) \in Seq(Tokens) /\ Len(After(3, u)) = Len(u) - 3
      BY <3>1, <3>2, AfterIsText
    <3>4. Len(u) \in Nat /\ Len(tokens) \in Nat
      BY <3>1
    <3> QED BY <3>1, <3>3, <3>4 DEF u
  <2> QED BY <1>1, <2>1, <2>2 DEF RowsGoOn
<1> QED BY <1>4, <1>5, <1>6, <1>7

LEMMA RowsOfIsRows ==
  ASSUME NEW tokens \in Seq(Tokens), NEW g,
         \A s \in Seq(Tokens) : Len(s) < Len(tokens) => g[s] \in RowsResults
  PROVE  RowsOf(tokens, g) \in RowsResults
<1>1. ASSUME NEW result, RowsEnd(tokens, result) PROVE RowsOf(tokens, g) \in RowsResults
  BY <1>1 DEF RowsEnd
<1>2. ASSUME NEW rest, NEW values, RowsGoOn(tokens, rest, values)
      PROVE  RowsOf(tokens, g) \in RowsResults
  <2>1. g[rest] \in RowsResults /\ values \in Seq(Values)
    BY <1>2 DEF RowsGoOn
  <2>2. WithRow(values, g[rest]) \in RowsResults
    BY <2>1, WithRowIsRows
  <2> QED BY <1>2, <2>2 DEF RowsGoOn
<1> QED BY <1>1, <1>2, RowsSteps

LEMMA RowsOfFalls ==
  ASSUME NEW tokens \in Seq(Tokens), NEW g, NEW h,
         \A s \in Seq(Tokens) : Len(s) < Len(tokens) => g[s] = h[s]
  PROVE  RowsOf(tokens, g) = RowsOf(tokens, h)
<1>1. ASSUME NEW result, RowsEnd(tokens, result) PROVE RowsOf(tokens, g) = RowsOf(tokens, h)
  BY <1>1 DEF RowsEnd
<1>2. ASSUME NEW rest, NEW values, RowsGoOn(tokens, rest, values)
      PROVE  RowsOf(tokens, g) = RowsOf(tokens, h)
  <2>1. g[rest] = h[rest]
    BY <1>2 DEF RowsGoOn
  <2> QED BY <1>2, <2>1 DEF RowsGoOn
<1> QED BY <1>1, <1>2, RowsSteps

(* parse_insert_sql comes to an end on any tokens. *)
LEMMA RowsDefined ==
  \A tokens \in Seq(Tokens) : Rows[tokens] = RowsOf(tokens, Rows)
<1> DEFINE D == Seq(Tokens)
           V == RowsResults
           rank == [s \in D |-> Len(s)]
           step == [g \in [D -> V] |-> [s \in D |-> RowsOf(s, g)]]
<1>1. rank \in [D -> Nat] /\ \A s \in D : rank[s] = Len(s)
  OBVIOUS
<1>2. step \in [[D -> V] -> [D -> V]]
  <2>1. \A g \in [D -> V] : \A s \in D : RowsOf(s, g) \in V
    BY RowsOfIsRows
  <2> HIDE DEF D, V
  <2> QED BY <2>1
<1>3. Falls(D, V, rank, step)
  <2> SUFFICES ASSUME NEW g \in [D -> V], NEW h \in [D -> V], NEW s \in D,
                      \A r \in D : rank[r] < rank[s] => g[r] = h[r]
               PROVE  step[g][s] = step[h][s]
    BY DEF Falls
  <2>1. RowsOf(s, g) = RowsOf(s, h)
    BY <1>1, RowsOfFalls
  <2> QED BY <2>1
<1>4. V # {}
  <2>1. [ok |-> TRUE, rows |-> <<>>] \in V
    BY EmptySeq DEF RowsResults
  <2> QED BY <2>1
<1>5. PICK found \in [D -> V] : found = step[found]
  <2> HIDE DEF D, V, rank, step
  <2>1. WellDefined(D, V, rank, step)
    BY <1>1, <1>2, <1>3, <1>4 DEF WellDefined
  <2> QED BY <2>1, Recursion
<1>6. found = [s \in Seq(Tokens) |-> RowsOf(s, found)]
  BY <1>5
<1>7. Rows = [s \in Seq(Tokens) |-> RowsOf(s, Rows)]
  BY <1>6 DEF Rows
<1> QED BY <1>7

-----------------------------------------------------------------------------
(* What mysqldump writes, token by token.                                  *)

(* The tokens of a value. *)
ValueTokens(value) ==
  CASE value.type = "String" -> <<Token("StringLiteral", value.text)>>
    [] value.type = "Binary" ->
         <<Token("BinaryPrefix", <<>>), Token("StringLiteral", value.text)>>
    [] value.type = "Number" -> <<Token("Number", value.text)>>
    [] value.type = "Null"   -> <<Token("Null", <<>>)>>
    [] value.type = "Hex"    -> <<Token("Number", <<"0">>), Token("Identifier", <<"xFF">>)>>

LEMMA WritableSorts ==
  ASSUME NEW value \in Writable
  PROVE  /\ value \in Values
         /\ value = InsertValue(value.type, value.text)
         /\ value.text \in Seq(Symbols)
         /\ \/ value.type = "String"
            \/ value.type = "Binary"
            \/ value.type = "Number" /\ \E c \in Numerals : value.text = <<c>>
            \/ value.type = "Null" /\ value.text = <<>>
<1>1. CASE value \in [type : {"String", "Binary"}, text : Seq(Symbols)]
  BY <1>1 DEF Values, InsertValue
<1>2. CASE value \in [type : {"Number"}, text : {<<c>> : c \in Numerals}]
  <2>1. PICK c \in Numerals : value.text = <<c>>
    BY <1>2
  <2>2. c \in Symbols
    BY SymbolsAssumption DEF SymbolsAssumption
  <2>3. value.text \in Seq(Symbols)
    BY <2>1, <2>2
  <2>4. value = [type |-> "Number", text |-> value.text]
    BY <1>2
  <2>5. value \in Values
    BY <2>3, <2>4 DEF Values, Kinds
  <2> QED BY <2>1, <2>3, <2>4, <2>5 DEF InsertValue
<1>3. CASE value \in [type : {"Null"}, text : { <<>> }]
  <2>1. value = [type |-> "Null", text |-> <<>>]
    BY <1>3
  <2>2. "Null" \in Kinds
    <3>1. "NULL" \in DOMAIN Keywords /\ Keywords["NULL"] = "Null"
      BY DEF Keywords
    <3> QED BY <3>1 DEF Kinds, Range
  <2>3. value \in Values
    BY <2>1, <2>2, EmptySeq DEF Values
  <2> QED BY <2>1, <2>3, EmptySeq DEF InsertValue
<1> QED BY <1>1, <1>2, <1>3 DEF Writable

(* The rows of dumps, without and with blobs in hexadecimal. *)
Full == Seq(Writable) \ { <<>> }
Filled == Seq(Dumpable) \ { <<>> }

(* Tokens other than those of errors. *)
Sound == {token \in Tokens : token.kind # "Error"}

LEMMA QuotedIsText == ASSUME NEW text \in Seq(Symbols) PROVE Quoted(text) \in Seq(Symbols)
<1> DEFINE q == "'"
           e == EscapedText(text)
<1>1. q \in Symbols /\ e \in Seq(Symbols)
  BY SymbolsAssumption, EscapedTextIsText DEF SymbolsAssumption, Special
<1>2. Quoted(text) = <<q>> \o e \o <<q>>
  BY DEF Quoted, EscapedText
<1> HIDE DEF q, e
<1>3. <<q>> \o e \o <<q>> \in Seq(Symbols)
  BY <1>1
<1> QED BY <1>2, <1>3

LEMMA SoundTokens ==
  ASSUME NEW text \in Seq(Symbols)
  PROVE  /\ Token("StringLiteral", text) \in Sound
         /\ Token("Number", text) \in Sound
         /\ Token("BinaryPrefix", <<>>) \in Sound
         /\ Token("Null", <<>>) \in Sound
<1>1. {"StringLiteral", "BinaryPrefix", "Number", "Null"} \subseteq Kinds
  <2>1. "NULL" \in DOMAIN Keywords /\ Keywords["NULL"] = "Null"
        /\ "_binary" \in DOMAIN Keywords /\ Keywords["_binary"] = "BinaryPrefix"
    BY DEF Keywords
  <2> QED BY <2>1 DEF Kinds, Range
<1> QED BY <1>1, EmptySeq DEF Token, Tokens, Sound

LEMMA KeywordRead ==
  /\ {"INSERT", "INTO", "VALUES", "NULL", "_binary"} \subseteq Plain
  /\ TokenOf("INSERT") = Token("Insert", <<>>)
  /\ TokenOf("INTO") = Token("Into", <<>>)
  /\ TokenOf("VALUES") = Token("Values", <<>>)
  /\ TokenOf("NULL") = Token("Null", <<>>)
  /\ TokenOf("_binary") = Token("BinaryPrefix", <<>>)
<1>1. DOMAIN Keywords = {"INSERT", "INTO", "VALUES", "NULL", "_binary"}
  BY DEF Keywords
<1>2. \A c \in DOMAIN Keywords : TokenOf(c) = Token(Keywords[c], <<>>)
  BY RunsAssumption, SortsApart DEF RunsAssumption, TokenOf, Word
<1>3. /\ Keywords["INSERT"] = "Insert" /\ Keywords["INTO"] = "Into"
      /\ Keywords["VALUES"] = "Values" /\ Keywords["NULL"] = "Null"
      /\ Keywords["_binary"] = "BinaryPrefix"
  BY DEF Keywords
<1> QED BY <1>1, <1>2, <1>3 DEF Plain

LEMMA PunctuationRead ==
  /\ {"(", ")", ",", ";", "backtick"} \subseteq Plain
  /\ TokenOf("(") = Token("LeftParen", <<>>)
  /\ TokenOf(")") = Token("RightParen", <<>>)
  /\ TokenOf(",") = Token("Comma", <<>>)
  /\ TokenOf(";") = Token("Semicolon", <<>>)
  /\ TokenOf("backtick") = Token("Backtick", <<>>)
<1>1. {"(", ")", ",", ";", "backtick"} \subseteq DOMAIN Punctuation
  BY DEF Punctuation
<1>2. /\ Punctuation["("] = "LeftParen" /\ Punctuation[")"] = "RightParen"
      /\ Punctuation[","] = "Comma" /\ Punctuation[";"] = "Semicolon"
      /\ Punctuation["backtick"] = "Backtick"
  BY DEF Punctuation
<1> QED BY <1>1, <1>2 DEF Plain, TokenOf

LEMMA PairBefore ==
  ASSUME NEW T, NEW c \in T, NEW d \in T, NEW s \in Seq(T)
  PROVE  <<c, d>> \o s = <<c>> \o (<<d>> \o s)
<1> DEFINE pair == <<c, d>>
           both == <<c>> \o <<d>>
<1>1. pair \in Seq(T) /\ Len(pair) = 2 /\ pair[1] = c /\ pair[2] = d
  OBVIOUS
<1>2. both \in Seq(T) /\ Len(both) = 2 /\ both[1] = c /\ both[2] = d
  OBVIOUS
<1>3. pair = both
  <2> HIDE DEF pair, both
  <2> QED BY <1>1, <1>2
<1> QED BY <1>3, ConcatAssociative

(* A value that is not followed by a quote is read back. *)
LEMMA ValueRead ==
  ASSUME NEW value \in Writable
  PROVE  /\ WrittenValue(value) \in Seq(Symbols)
         /\ ValueTokens(value) \in Seq(Sound)
         /\ \A s \in Seq(Symbols) : NoQuote(s) =>
              Tokenized[WrittenValue(value) \o s] = ValueTokens(value) \o Tokenized[s]
<1> DEFINE text == value.text
           read == Token("StringLiteral", text)
<1>1. text \in Seq(Symbols)
  BY WritableSorts
<1>2. read \in Sound /\ Sound \subseteq Tokens
  BY <1>1, SoundTokens DEF Sound
<1>3. Quoted(text) \in Seq(Symbols)
  BY <1>1, QuotedIsText
<1>4. CASE value.type = "String"
  <2>1. WrittenValue(value) = Quoted(text) /\ ValueTokens(value) = <<read>>
    BY <1>4 DEF WrittenValue, ValueTokens
  <2>2. \A s \in Seq(Symbols) : NoQuote(s) =>
          Tokenized[Quoted(text) \o s] = <<read>> \o Tokenized[s]
    BY <1>1, QuotedRead
  <2> HIDE DEF text, read
  <2> QED BY <1>2, <1>3, <2>1, <2>2
<1>5. CASE value.type = "Binary"
  <2> DEFINE prefix == "_binary"
             blank == " "
             prefixed == Token("BinaryPrefix", <<>>)
             q == Quoted(text)
  <2>1. WrittenValue(value) = <<prefix, blank>> \o q /\ ValueTokens(value) = <<prefixed, read>>
    BY <1>5 DEF WrittenValue, ValueTokens
  <2>2. prefix \in Symbols /\ blank \in Symbols /\ blank \in Blank
        /\ prefix \in Plain /\ TokenOf(prefix) = prefixed /\ prefixed \in Sound
    BY SymbolsAssumption, KeywordRead, EmptySeq, SoundTokens DEF SymbolsAssumption, Special, Blank, Keywords
  <2> HIDE DEF text, read, prefix, blank, prefixed, q
  <2>3. ASSUME NEW s \in Seq(Symbols), NoQuote(s)
        PROVE  Tokenized[(<<prefix, blank>> \o q) \o s] = <<prefixed, read>> \o Tokenized[s]
    <3>1. q \o s \in Seq(Symbols) /\ Tokenized[q \o s] = <<read>> \o Tokenized[s]
      BY <1>1, <2>3, QuotedRead DEF q, read
    <3> DEFINE u == q \o s
    <3> HIDE DEF u
    <3>2. u \in Seq(Symbols) /\ Tokenized[u] = <<read>> \o Tokenized[s]
      BY <3>1 DEF u
    <3>3. <<blank>> \o u \in Seq(Symbols) /\ Tokenized[<<blank>> \o u] = Tokenized[u]
      BY <2>2, <3>2, BlankRead
    <3>4. Tokenized[<<prefix>> \o (<<blank>> \o u)] = <<prefixed>> \o Tokenized[<<blank>> \o u]
      BY <2>2, <3>3, SymbolRead
    <3>5. <<prefix>> \o (<<blank>> \o u) = (<<prefix, blank>> \o q) \o s
      <4>0. prefix \in Symbols /\ blank \in Symbols /\ u \in Seq(Symbols)
        BY <2>2, <3>2
      <4>1. <<prefix, blank>> \o u = <<prefix>> \o (<<blank>> \o u)
        BY ONLY <4>0, PairBefore
      <4>2. <<prefix, blank>> \in Seq(Symbols) /\ q \in Seq(Symbols)
        BY <1>3, <2>2 DEF q
      <4>3. (<<prefix, blank>> \o q) \o s = <<prefix, blank>> \o u
        BY <4>2, ConcatAssociative DEF u
      <4> QED BY <4>1, <4>3
    <3> DEFINE m == Tokenized[s]
    <3>6. m \in Seq(Tokens) /\ prefixed \in Tokens /\ read \in Tokens
      BY <1>2, <2>2, TokenizedDefined
    <3> HIDE DEF m
    <3>7. <<prefixed, read>> \o m = <<prefixed>> \o (<<read>> \o m)
      BY ONLY <3>6, PairBefore
    <3> QED BY <3>2, <3>3, <3>4, <3>5, <3>7 DEF m
  <2>4. <<prefixed, read>> \in Seq(Sound)
    BY <1>2, <2>2
  <2>5. <<prefix, blank>> \o q \in Seq(Symbols)
    BY <1>3, <2>2 DEF q
  <2> QED BY <2>1, <2>3, <2>4, <2>5
<1>6. CASE value.type = "Number" /\ \E c \in Numerals : text = <<c>>
  <2>1. PICK c \in Numerals : text = <<c>>
    BY <1>6
  <2>2. c \in Plain /\ TokenOf(c) = Token("Number", <<c>>)
    BY SortsApart DEF Plain, TokenOf
  <2>3. WrittenValue(value) = <<c>> /\ ValueTokens(value) = <<TokenOf(c)>>
    BY <1>6, <2>1, <2>2 DEF WrittenValue, ValueTokens
  <2>4. TokenOf(c) \in Sound /\ <<c>> \in Seq(Symbols)
    BY <1>1, <2>1, <2>2, SoundTokens
  <2>5. <<TokenOf(c)>> \in Seq(Sound)
    BY <2>4
  <2>6. \A s \in Seq(Symbols) : Tokenized[<<c>> \o s] = <<TokenOf(c)>> \o Tokenized[s]
    BY <2>2, SymbolRead
  <2> QED BY <2>3, <2>4, <2>5, <2>6
<1>7. CASE value.type = "Null" /\ text = <<>>
  <2> DEFINE c == "NULL"
  <2>1. WrittenValue(value) = <<c>> /\ ValueTokens(value) = <<TokenOf(c)>>
    BY <1>7, KeywordRead DEF WrittenValue, ValueTokens
  <2>2. c \in Plain /\ c \in Symbols /\ TokenOf(c) \in Sound
    BY KeywordRead, SoundTokens, <1>1, SymbolsAssumption DEF SymbolsAssumption, Keywords
  <2> HIDE DEF c
  <2>3. <<c>> \in Seq(Symbols) /\ <<TokenOf(c)>> \in Seq(Sound)
    BY <2>2
  <2>4. \A s \in Seq(Symbols) : Tokenized[<<c>> \o s] = <<TokenOf(c)>> \o Tokenized[s]
    BY <2>2, SymbolRead
  <2> QED BY <2>1, <2>3, <2>4
<1> QED BY <1>4, <1>5, <1>6, <1>7, WritableSorts

LEMMA HexTokens == {Token("Number", <<"0">>), Token("Identifier", <<"xFF">>)} \subseteq Sound
<1> DEFINE c == "0"
           d == "xFF"
<1>1. c \in Symbols /\ d \in Symbols
  BY NumeralsAssumption, DumpedRowsAssumption, SymbolsAssumption
     DEF NumeralsAssumption, DumpedRowsAssumption, SymbolsAssumption
<1> HIDE DEF c, d
<1>2. <<c>> \in Seq(Symbols) /\ <<d>> \in Seq(Symbols)
  BY <1>1
<1>3. Token("Number", <<c>>) \in Sound /\ Token("Identifier", <<d>>) \in Sound
  BY <1>2 DEF Token, Tokens, Kinds, Sound
<1> QED BY <1>3 DEF c, d

(* A blob in hexadecimal is read as a number and a name. *)
LEMMA HexRead ==
  /\ WrittenValue(InsertValue("Hex", <<>>)) \in Seq(Symbols)
  /\ ValueTokens(InsertValue("Hex", <<>>)) \in Seq(Sound)
  /\ \A s \in Seq(Symbols) :
       Tokenized[WrittenValue(InsertValue("Hex", <<>>)) \o s]
         = ValueTokens(InsertValue("Hex", <<>>)) \o Tokenized[s]
<1> DEFINE c == "0"
           d == "xFF"
           number == Token("Number", <<"0">>)
           name == Token("Identifier", <<"xFF">>)
<1>1. c \in Numerals /\ d \in Names /\ c \in Symbols /\ d \in Symbols
  BY NumeralsAssumption, DumpedRowsAssumption, SymbolsAssumption
     DEF NumeralsAssumption, DumpedRowsAssumption, SymbolsAssumption
<1>2. c \in Plain /\ TokenOf(c) = number
  BY <1>1, SortsApart DEF Plain, TokenOf
<1>3. d \in Plain /\ TokenOf(d) = name
  BY <1>1, SortsApart, RunsAssumption DEF Plain, TokenOf, RunsAssumption, Special, Word
<1>4. number \in Sound /\ name \in Sound
  BY HexTokens
<1>5. /\ WrittenValue(InsertValue("Hex", <<>>)) = <<c, d>>
      /\ ValueTokens(InsertValue("Hex", <<>>)) = <<number, name>>
  BY DEF WrittenValue, ValueTokens, InsertValue
<1> HIDE DEF c, d, number, name
<1>6. <<c, d>> \in Seq(Symbols) /\ <<number, name>> \in Seq(Sound)
  BY <1>1, <1>4
<1>7. ASSUME NEW s \in Seq(Symbols)
      PROVE  Tokenized[<<c, d>> \o s] = <<number, name>> \o Tokenized[s]
  <2> DEFINE u == <<d>> \o s
             m == Tokenized[s]
  <2>1. u \in Seq(Symbols) /\ Tokenized[u] = <<name>> \o m
    BY <1>3, SymbolRead
  <2>2. m \in Seq(Tokens) /\ number \in Tokens /\ name \in Tokens
    BY <1>4, TokenizedDefined DEF Sound
  <2>3. <<c, d>> \o s = <<c>> \o u
    BY <1>1, PairBefore
  <2> HIDE DEF m, u
  <2>4. Tokenized[<<c>> \o u] = <<number>> \o Tokenized[u]
    BY <1>2, <2>1, SymbolRead
  <2>5. <<number, name>> \o m = <<number>> \o (<<name>> \o m)
    BY ONLY <2>2, PairBefore
  <2> QED BY <2>1, <2>3, <2>4, <2>5 DEF m
<1> QED BY <1>5, <1>6, <1>7

(* Whatever is dumped is a text, of tokens that are no errors. *)
LEMMA DumpedIsText ==
  ASSUME NEW value \in Dumpable
  PROVE  WrittenValue(value) \in Seq(Symbols) /\ ValueTokens(value) \in Seq(Sound)
BY ValueRead, HexRead DEF Dumpable

LEMMA Wider ==
  /\ Writable \subseteq Dumpable /\ Seq(Writable) \subseteq Seq(Dumpable)
  /\ Full \subseteq Filled /\ Seq(Full) \subseteq Seq(Filled)
<1>1. Writable \subseteq Dumpable
  BY DEF Dumpable
<1>2. Seq(Writable) \subseteq Seq(Dumpable)
  <2> HIDE DEF Writable, Dumpable
  <2> QED BY <1>1
<1>3. Full \subseteq Filled
  BY <1>2 DEF Full, Filled
<1>4. Seq(Full) \subseteq Seq(Filled)
  <2> HIDE DEF Full, Filled
  <2> QED BY <1>3
<1> QED BY <1>1, <1>2, <1>3, <1>4

-----------------------------------------------------------------------------
(* What the parser makes of these tokens.                                  *)

(* Two tokens and those behind them. *)
IsPair(t, x, y, s) ==
  /\ KindAt(t, 1) = x.kind /\ t[1] = x
  /\ KindAt(t, 2) = y.kind
  /\ After(1, t) = <<y>> \o s
  /\ After(2, t) = s

LEMMA PairRead ==
  ASSUME NEW x \in Tokens, NEW y \in Tokens, NEW s \in Seq(Tokens)
  PROVE  /\ <<x>> \o (<<y>> \o s) \in Seq(Tokens)
         /\ IsPair(<<x>> \o (<<y>> \o s), x, y, s)
<1> DEFINE r == <<y>> \o s
           t == <<x>> \o r
<1>1. r \in Seq(Tokens) /\ IsCons(r, y, s)
  BY Prepended
<1>2. t = <<x, y>> \o s
  BY PairBefore
<1>3. AreBefore(<<x, y>> \o s, x, y, s)
  BY TwoPrepended
<1> HIDE DEF r
<1>4. t \in Seq(Tokens) /\ IsCons(t, x, r)
  BY <1>1, Prepended
<1>5. Len(t) = Len(s) + 2 /\ t[1] = x /\ t[2] = y /\ After(2, t) = s
  <2>1. AreBefore(t, x, y, s)
    BY <1>2, <1>3
  <2> HIDE DEF t
  <2> QED BY <2>1 DEF AreBefore
<1> HIDE DEF t
<1>6. 1 \in DOMAIN t /\ 2 \in DOMAIN t
  BY <1>4, <1>5
<1>7. IsPair(t, x, y, s)
  BY <1>4, <1>5, <1>6 DEF IsCons, IsPair, KindAt, r
<1> QED BY <1>4, <1>7 DEF t, r

(* parse_value makes the value of the token. *)
Bears(token, binary, value) ==
  /\ token.kind \in ValueKinds
  /\ binary => token.kind = "StringLiteral"
  /\ value = InsertValue(value.type, token.text)
  /\ value.type = IF token.kind # "StringLiteral" THEN token.kind
                  ELSE IF binary THEN "Binary" ELSE "String"

(* The row that begins with the value, when the separator and m follow it. *)
BeginsWith(row, value, separator, m) ==
  /\ separator.kind = "Comma" => row = WithValue(value, Row[<<m, FALSE>>])
  /\ separator.kind = "RightParen" =>
       row = [ok |-> TRUE, values |-> <<value>>, rest |-> <<separator>> \o m]

LEMMA TokenParsed ==
  ASSUME NEW token \in Tokens, NEW separator \in Tokens, NEW m \in Seq(Tokens),
         NEW binary \in BOOLEAN, NEW value, Bears(token, binary, value)
  PROVE  /\ <<token>> \o (<<separator>> \o m) \in Seq(Tokens)
         /\ KindAt(<<token>> \o (<<separator>> \o m), 1) = token.kind
         /\ BeginsWith(RowAt(<<token>> \o (<<separator>> \o m), binary, Row),
                       value, separator, m)
<1> DEFINE t == <<token>> \o (<<separator>> \o m)
           r == <<separator>> \o m
<1>1. t \in Seq(Tokens) /\ IsPair(t, token, separator, m)
  BY PairRead
<1> HIDE DEF t, r
<1>2. /\ KindAt(t, 1) = token.kind /\ t[1] = token
      /\ KindAt(t, 2) = separator.kind
      /\ After(1, t) = r /\ After(2, t) = m
  BY <1>1 DEF IsPair, r
<1>3. token.kind # "RightParen" /\ (binary /\ token.kind # "StringLiteral") = FALSE
      /\ token.kind \in ValueKinds
  BY DEF ValueKinds, Bears
<1>4. ValueAt(t, binary) = value
  BY <1>2 DEF ValueAt, InsertValue, Bears
<1>5. CASE separator.kind = "Comma"
  <2>1. RowAt(t, binary, Row) = WithValue(value, Row[<<m, FALSE>>])
    BY <1>2, <1>3, <1>4, <1>5 DEF RowAt
  <2> QED BY <1>1, <1>2, <1>5, <2>1 DEF t, BeginsWith
<1>6. CASE separator.kind # "Comma"
  <2>1. RowAt(t, binary, Row) = [ok |-> TRUE, values |-> <<value>>, rest |-> r]
    BY <1>2, <1>3, <1>4, <1>6 DEF RowAt
  <2> QED BY <1>1, <1>2, <1>6, <2>1 DEF t, r, BeginsWith
<1> QED BY <1>5, <1>6

(* parse_row, at the tokens of a value. *)
LEMMA ValueParsed ==
  ASSUME NEW value \in Writable, NEW separator \in Tokens, NEW m \in Seq(Tokens)
  PROVE  BeginsWith(Row[<<ValueTokens(value) \o (<<separator>> \o m), FALSE>>],
                    value, separator, m)
<1> DEFINE r == <<separator>> \o m
           Parsed(row) == BeginsWith(row, value, separator, m)
<1>1. value = InsertValue(value.type, value.text) /\ value.text \in Seq(Symbols)
  BY WritableSorts
<1>2. r \in Seq(Tokens)
  BY Prepended
<1>3. ASSUME NEW kind \in ValueKinds, NEW binary \in BOOLEAN,
             Token(kind, value.text) \in Tokens, binary => kind = "StringLiteral",
             value.type = IF kind # "StringLiteral" THEN kind
                          ELSE IF binary THEN "Binary" ELSE "String"
      PROVE  LET t == <<Token(kind, value.text)>> \o r
             IN  t \in Seq(Tokens) /\ KindAt(t, 1) = kind /\ Parsed(RowAt(t, binary, Row))
  <2> DEFINE token == Token(kind, value.text)
  <2>1. token \in Tokens /\ token.kind = kind /\ token.text = value.text
    BY <1>3 DEF Token
  <2> HIDE DEF token
  <2>2. Bears(token, binary, value)
    BY <1>1, <1>3, <2>1 DEF Bears
  <2>3. /\ <<token>> \o r \in Seq(Tokens)
        /\ KindAt(<<token>> \o r, 1) = token.kind
        /\ Parsed(RowAt(<<token>> \o r, binary, Row))
    BY <2>1, <2>2, TokenParsed
  <2> QED BY <2>1, <2>3 DEF token
<1> HIDE DEF r, Parsed
<1>4. ASSUME NEW kind \in ValueKinds, kind # "BinaryPrefix", Token(kind, value.text) \in Tokens,
             value.type = IF kind # "StringLiteral" THEN kind ELSE "String"
      PROVE  Parsed(Row[<<(<<Token(kind, value.text)>> \o r), FALSE>>])
  <2> DEFINE t == <<Token(kind, value.text)>> \o r
  <2>1. t \in Seq(Tokens) /\ KindAt(t, 1) = kind /\ Parsed(RowAt(t, FALSE, Row))
    BY <1>3, <1>4
  <2> HIDE DEF t
  <2>2. Row[<<t, FALSE>>] = RowAt(t, FALSE, Row)
    BY <1>4, <2>1, RowDefined DEF RowOf
  <2> QED BY <2>1, <2>2 DEF t
<1>5. /\ Token("StringLiteral", value.text) \in Tokens
      /\ Token("Number", value.text) \in Tokens
      /\ Token("BinaryPrefix", <<>>) \in Tokens
      /\ Token("Null", <<>>) \in Tokens
  BY <1>1, SoundTokens DEF Sound
<1>6. CASE value.type = "String"
  <2>1. Parsed(Row[<<(<<Token("StringLiteral", value.text)>> \o r), FALSE>>])
    BY <1>4, <1>5, <1>6 DEF ValueKinds
  <2> QED BY <1>6, <2>1 DEF ValueTokens, Parsed, r
<1>7. CASE value.type = "Number"
  <2>1. Parsed(Row[<<(<<Token("Number", value.text)>> \o r), FALSE>>])
    BY <1>4, <1>5, <1>7 DEF ValueKinds
  <2> QED BY <1>7, <2>1 DEF ValueTokens, Parsed, r
<1>8. CASE value.type = "Null" /\ value.text = <<>>
  <2>1. Parsed(Row[<<(<<Token("Null", value.text)>> \o r), FALSE>>])
    BY <1>4, <1>5, <1>8 DEF ValueKinds
  <2> QED BY <1>8, <2>1 DEF ValueTokens, Parsed, r
<1>9. CASE value.type = "Binary"
  <2> DEFINE prefix == Token("BinaryPrefix", <<>>)
             token == Token("StringLiteral", value.text)
             t == <<token>> \o r
             u == <<prefix>> \o t
  <2>1. t \in Seq(Tokens) /\ Parsed(RowAt(t, TRUE, Row))
    BY <1>3, <1>5, <1>9 DEF ValueKinds
  <2>2. prefix \in Tokens /\ prefix.kind = "BinaryPrefix" /\ token \in Tokens
    BY <1>5 DEF Token
  <2>3. ValueTokens(value) = <<prefix, token>>
    BY <1>9 DEF ValueTokens
  <2> HIDE DEF t, prefix, token
  <2>4. u \in Seq(Tokens) /\ IsCons(u, prefix, t)
    BY <2>1, <2>2, Prepended
  <2> HIDE DEF u
  <2>5. KindAt(u, 1) = "BinaryPrefix" /\ After(1, u) = t
    <3>1. u \in Seq(Tokens) /\ u # <<>> /\ u[1] = prefix /\ After(1, u) = t
      BY <2>4 DEF IsCons
    <3>2. 1 \in DOMAIN u
      BY <3>1
    <3> QED BY <2>2, <3>1, <3>2 DEF KindAt
  <2>6. Row[<<u, FALSE>>] = RowAt(t, TRUE, Row)
    BY <2>4, <2>5, RowDefined DEF RowOf
  <2>7. <<prefix, token>> \o r = u
    BY <1>2, <2>2, PairBefore DEF u, t
  <2>8. Parsed(Row[<<(ValueTokens(value) \o r), FALSE>>])
    BY <2>1, <2>3, <2>6, <2>7
  <2> QED BY <2>8 DEF Parsed, r
<1> QED BY <1>6, <1>7, <1>8, <1>9, WritableSorts

-----------------------------------------------------------------------------
(* The text of a row and of the rows.                                      *)

LEMMA BuiltFrom ==
  ASSUME NEW T, NEW x \in T, NEW s \in Seq(T), NEW t \in Seq(T),
         Len(t) = Len(s) + 1, t[1] = x, \A i \in 1 .. Len(s) : t[i + 1] = s[i]
  PROVE  t = <<x>> \o s
<1> DEFINE r == <<x>> \o s
<1>1. r \in Seq(T) /\ IsCons(r, x, s)
  BY Prepended
<1> HIDE DEF r
<1>2. Len(r) = Len(s) + 1 /\ r[1] = x /\ \A i \in 1 .. Len(s) : r[i + 1] = s[i]
  BY <1>1 DEF IsCons
<1>3. \A i \in 1 .. Len(t) : t[i] = r[i]
  <2>1. ASSUME NEW i \in 1 .. Len(t), i # 1 PROVE t[i] = r[i]
    <3>1. i - 1 \in 1 .. Len(s) /\ (i - 1) + 1 = i
      BY <2>1
    <3> QED BY <1>2, <3>1
  <2> QED BY <1>2, <2>1
<1>4. t = r
  BY <1>1, <1>2, <1>3, SeqEqual
<1> QED BY <1>4 DEF r

(* The texts with the commas behind them. *)
WithCommas(texts) ==
  [i \in DOMAIN texts |-> texts[i] \o (IF i = Len(texts) THEN <<>> ELSE <<",">>)]

LEMMA WithCommasIsTexts ==
  ASSUME NEW texts \in Seq(Seq(Symbols))
  PROVE  /\ WithCommas(texts) \in Seq(Seq(Symbols))
         /\ Len(WithCommas(texts)) = Len(texts)
         /\ \A i \in 1 .. Len(texts) :
              WithCommas(texts)[i] = texts[i] \o (IF i = Len(texts) THEN <<>> ELSE <<",">>)
<1> DEFINE comma == ","
           end(i) == IF i = Len(texts) THEN <<>> ELSE <<comma>>
<1>1. comma \in Symbols
  BY SymbolsAssumption DEF SymbolsAssumption, Special, Punctuation
<1> HIDE DEF comma
<1>2. \A i \in 1 .. Len(texts) : end(i) \in Seq(Symbols) /\ texts[i] \in Seq(Symbols)
  BY <1>1, EmptySeq
<1>3. \A i \in 1 .. Len(texts) : texts[i] \o end(i) \in Seq(Symbols)
  <2> HIDE DEF end
  <2> QED BY <1>2, ConcatProperties
<1>4. WithCommas(texts) = [i \in 1 .. Len(texts) |-> texts[i] \o end(i)] /\ Len(texts) \in Nat
  <2>1. DOMAIN texts = 1 .. Len(texts) /\ Len(texts) \in Nat
    OBVIOUS
  <2>2. WithCommas(texts) = [i \in DOMAIN texts |-> texts[i] \o end(i)]
    BY DEF WithCommas, comma
  <2> HIDE DEF end
  <2> QED BY <2>1, <2>2
<1>5. \A i \in 1 .. Len(texts) : WithCommas(texts)[i] = texts[i] \o end(i)
  <2> HIDE DEF end
  <2> QED BY <1>4
<1> DEFINE w == WithCommas(texts)
<1>6. w \in Seq(Seq(Symbols)) /\ Len(w) = Len(texts)
  <2> HIDE DEF end
  <2> QED BY <1>3, <1>4
<1> QED BY <1>5, <1>6 DEF comma

LEMMA SeparatedSteps ==
  ASSUME NEW x \in Seq(Symbols), NEW texts \in Seq(Seq(Symbols))
  PROVE  /\ Separated(texts) \in Seq(Symbols)
         /\ Separated(<<x>>) = x
         /\ texts # <<>> => Separated(<<x>> \o texts) = x \o (<<",">> \o Separated(texts))
<1> DEFINE comma == <<",">>
           T == Seq(Symbols)
<1>0. comma \in T
  <2> DEFINE c == ","
  <2>1. c \in Symbols
    BY SymbolsAssumption DEF SymbolsAssumption, Special, Punctuation
  <2> HIDE DEF c
  <2>2. <<c>> \in Seq(Symbols)
    BY <2>1
  <2> QED BY <2>2 DEF c
<1>1. \A t : Separated(t) = FlattenSeq(WithCommas(t))
  BY DEF Separated, WithCommas
<1>2. WithCommas(texts) \in Seq(T) /\ Len(WithCommas(texts)) = Len(texts)
      /\ \A i \in 1 .. Len(texts) :
           WithCommas(texts)[i] = texts[i] \o (IF i = Len(texts) THEN <<>> ELSE comma)
  BY WithCommasIsTexts
<1>3. Separated(texts) \in Seq(Symbols)
  BY <1>1, <1>2, FlattenedIsText
<1>4. Separated(<<x>>) = x
  <2> DEFINE one == <<x>>
             w == WithCommas(one)
  <2>1. one \in Seq(T) /\ Len(one) = 1 /\ one[1] = x
    OBVIOUS
  <2> HIDE DEF one
  <2>2. w \in Seq(T) /\ Len(w) = 1 /\ w[1] = x \o <<>>
    <3>1. /\ w \in Seq(T) /\ Len(w) = Len(one)
          /\ \A i \in 1 .. Len(one) :
               w[i] = one[i] \o (IF i = Len(one) THEN <<>> ELSE <<",">>)
      BY <2>1, WithCommasIsTexts
    <3> HIDE DEF w, T
    <3>2. 1 \in 1 .. Len(one)
      BY <2>1
    <3>3. w[1] = one[1] \o <<>>
      BY <2>1, <3>1, <3>2
    <3> QED BY <2>1, <3>1, <3>3
  <2>3. x \o <<>> = x
    BY ConcatEmptySeq
  <2> HIDE DEF w
  <2>4. w = <<x>> \o <<>>
    <3> HIDE DEF T
    <3>1. <<>> \in Seq(T) /\ Len(<<>>) = 0 /\ x \in T
      BY EmptySeq DEF T
    <3>2. \A i \in 1 .. 0 : w[i + 1] = <<>>[i]
      OBVIOUS
    <3> QED BY <2>2, <2>3, <3>1, <3>2, BuiltFrom
  <2>5. FlattenSeq(<<x>> \o <<>>) = x \o FlattenSeq(<<>>)
    BY FlattenCons, EmptySeq
  <2>6. FlattenSeq(<<>>) = <<>>
    BY DEF FlattenSeq
  <2> QED BY <1>1, <2>3, <2>4, <2>5, <2>6 DEF w, one
<1>5. ASSUME texts # <<>> PROVE Separated(<<x>> \o texts) = x \o (comma \o Separated(texts))
  <2> DEFINE all == <<x>> \o texts
             w == WithCommas(all)
             v == WithCommas(texts)
             e == x \o comma
  <2>1. all \in Seq(T) /\ IsCons(all, x, texts)
    <3> HIDE DEF T
    <3>1. x \in T /\ texts \in Seq(T)
      BY DEF T
    <3> QED BY <3>1, Prepended
  <2> HIDE DEF all
  <2>2. Len(all) = Len(texts) + 1 /\ all[1] = x
        /\ \A i \in 1 .. Len(texts) : all[i + 1] = texts[i]
    BY <2>1 DEF IsCons
  <2>3. w \in Seq(T) /\ Len(w) = Len(all)
        /\ \A i \in 1 .. Len(all) : w[i] = all[i] \o (IF i = Len(all) THEN <<>> ELSE comma)
    BY <2>1, WithCommasIsTexts
  <2>4. Len(texts) \in Nat /\ Len(texts) # 0
    BY <1>5
  <2>5. e \in T
    <3> HIDE DEF comma
    <3> QED BY <1>0
  <2> HIDE DEF w, v, e, comma, T
  <2>6. w[1] = e
    <3>1. 1 \in 1 .. Len(all) /\ 1 # Len(all)
      BY <2>2, <2>4
    <3> QED BY <2>2, <2>3, <3>1 DEF e
  <2>7. \A i \in 1 .. Len(texts) : w[i + 1] = v[i]
    <3> SUFFICES ASSUME NEW i \in 1 .. Len(texts) PROVE w[i + 1] = v[i]
      OBVIOUS
    <3>1. i + 1 \in 1 .. Len(all) /\ (i + 1 = Len(all) <=> i = Len(texts))
      BY <2>2, <2>4
    <3>2. w[i + 1] = all[i + 1] \o (IF i + 1 = Len(all) THEN <<>> ELSE comma)
      BY <2>3, <3>1
    <3>3. v[i] = texts[i] \o (IF i = Len(texts) THEN <<>> ELSE comma)
      BY <1>2 DEF v
    <3>4. all[i + 1] = texts[i]
      BY <2>2
    <3> QED BY <3>1, <3>2, <3>3, <3>4
  <2>8. v \in Seq(T) /\ Len(v) = Len(texts)
    BY <1>2 DEF v
  <2>9. w = <<e>> \o v
    BY <2>2, <2>3, <2>5, <2>6, <2>7, <2>8, BuiltFrom
  <2>10. FlattenSeq(<<e>> \o v) = e \o FlattenSeq(v)
    BY <2>5, <2>8, FlattenCons DEF T
  <2>11. (x \o comma) \o FlattenSeq(v) = x \o (comma \o FlattenSeq(v))
    <3>1. FlattenSeq(v) \in Seq(Symbols)
      BY <1>1, <1>3 DEF v
    <3>2. comma \in Seq(Symbols)
      BY <1>0 DEF T
    <3> QED BY <3>1, <3>2, ConcatAssociative
  <2> QED BY <1>1, <2>9, <2>10, <2>11 DEF w, v, e, all
<1> QED BY <1>3, <1>4, <1>5

WrittenValues(row) == [i \in DOMAIN row |-> WrittenValue(row[i])]

LEMMA WrittenValuesSteps ==
  ASSUME NEW value \in Dumpable, NEW row \in Seq(Dumpable)
  PROVE  /\ WrittenValues(row) \in Seq(Seq(Symbols))
         /\ Len(WrittenValues(row)) = Len(row)
         /\ WrittenValues(<<value>> \o row) = <<WrittenValue(value)>> \o WrittenValues(row)
<1> DEFINE T == Seq(Symbols)
           all == <<value>> \o row
           w == WrittenValues(all)
           v == WrittenValues(row)
           x == WrittenValue(value)
<1>1. \A r \in Seq(Dumpable) :
        /\ WrittenValues(r) \in Seq(T) /\ Len(WrittenValues(r)) = Len(r)
        /\ \A i \in 1 .. Len(r) : WrittenValues(r)[i] = WrittenValue(r[i])
  <2> SUFFICES ASSUME NEW r \in Seq(Dumpable)
               PROVE  /\ WrittenValues(r) \in Seq(T) /\ Len(WrittenValues(r)) = Len(r)
                      /\ \A i \in 1 .. Len(r) : WrittenValues(r)[i] = WrittenValue(r[i])
    OBVIOUS
  <2>1. DOMAIN r = 1 .. Len(r) /\ Len(r) \in Nat /\ \A i \in 1 .. Len(r) : r[i] \in Dumpable
    OBVIOUS
  <2>2. \A i \in 1 .. Len(r) : WrittenValue(r[i]) \in T
    BY <2>1, DumpedIsText
  <2> HIDE DEF T
  <2> QED BY <2>1, <2>2 DEF WrittenValues
<1>2. all \in Seq(Dumpable) /\ IsCons(all, value, row)
  BY Prepended
<1> HIDE DEF all, T
<1>3. Len(all) = Len(row) + 1 /\ all[1] = value
      /\ \A i \in 1 .. Len(row) : all[i + 1] = row[i]
  BY <1>2 DEF IsCons
<1>4. /\ w \in Seq(T) /\ Len(w) = Len(all)
      /\ \A i \in 1 .. Len(all) : w[i] = WrittenValue(all[i])
  BY <1>1, <1>2
<1>5. /\ v \in Seq(T) /\ Len(v) = Len(row)
      /\ \A i \in 1 .. Len(row) : v[i] = WrittenValue(row[i])
  BY <1>1
<1>6. x \in T /\ Len(row) \in Nat
  BY DumpedIsText DEF T
<1> HIDE DEF w, v, x
<1>7. w[1] = x
  <2>1. 1 \in 1 .. Len(all)
    BY <1>3, <1>6
  <2> QED BY <1>3, <1>4, <2>1 DEF x
<1>8. ASSUME NEW i \in 1 .. Len(row) PROVE w[i + 1] = v[i]
  <2>1. i + 1 \in 1 .. Len(all)
    BY <1>3, <1>6
  <2>2. w[i + 1] = WrittenValue(all[i + 1])
    BY <1>4, <2>1
  <2> QED BY <1>3, <1>5, <2>2
<1>9. w = <<x>> \o v
  BY <1>3, <1>4, <1>5, <1>6, <1>7, <1>8, BuiltFrom
<1> QED BY <1>5, <1>9 DEF w, v, x, all, T

(* A text that follows the values of a row: its closing parenthesis and what is
   behind it. *)
Closed(row, s) == Separated(WrittenValues(row)) \o (<<")">> \o s)

LEMMA ClosedSteps ==
  ASSUME NEW value \in Dumpable, NEW row \in Seq(Dumpable), NEW s \in Seq(Symbols)
  PROVE  /\ Separated(WrittenValues(row)) \in Seq(Symbols)
         /\ Closed(row, s) \in Seq(Symbols)
         /\ Closed(<<value>>, s) = WrittenValue(value) \o (<<")">> \o s)
         /\ row # <<>> => Closed(<<value>> \o row, s)
                            = WrittenValue(value) \o (<<",">> \o Closed(row, s))
<1> DEFINE x == WrittenValue(value)
           w == WrittenValues(row)
           close == ")"
           comma == ","
           end == <<close>> \o s
<1>1. x \in Seq(Symbols)
  BY DumpedIsText
<1>2. w \in Seq(Seq(Symbols)) /\ Len(w) = Len(row)
  BY WrittenValuesSteps
<1>3. close \in Symbols /\ comma \in Symbols
  BY SymbolsAssumption DEF SymbolsAssumption, Special, Punctuation
<1> HIDE DEF close, comma
<1>4. end \in Seq(Symbols) /\ <<comma>> \in Seq(Symbols)
  BY <1>3
<1> HIDE DEF end, x, w
<1>5. Separated(w) \in Seq(Symbols) /\ Separated(<<x>>) = x
      /\ (w # <<>> => Separated(<<x>> \o w) = x \o (<<comma>> \o Separated(w)))
  BY <1>1, <1>2, SeparatedSteps DEF comma
<1>6. Closed(row, s) = Separated(w) \o end
  BY DEF Closed, w, end, close
<1>7. Closed(row, s) \in Seq(Symbols)
  BY <1>4, <1>5, <1>6, ConcatProperties
<1>8. Closed(<<value>>, s) = x \o end
  <2>1. <<>> \in Seq(Dumpable) /\ <<value>> \o <<>> = <<value>>
    BY EmptySeq, ConcatEmptySeq
  <2>2. WrittenValues(<<>>) \in Seq(Seq(Symbols)) /\ Len(WrittenValues(<<>>)) = Len(<<>>)
        /\ WrittenValues(<<value>> \o <<>>) = <<x>> \o WrittenValues(<<>>)
    BY <2>1, WrittenValuesSteps DEF x
  <2> DEFINE none == WrittenValues(<<>>)
  <2>3. none = <<>>
    <3>1. none \in Seq(Seq(Symbols)) /\ Len(none) = 0
      BY <2>2
    <3> HIDE DEF none
    <3> QED BY <3>1, EmptySeq
  <2>4. <<x>> \o <<>> = <<x>>
    <3>1. <<x>> \in Seq(Seq(Symbols))
      BY <1>1
    <3> QED BY <3>1, ConcatEmptySeq
  <2>5. WrittenValues(<<value>>) = <<x>>
    BY <2>1, <2>2, <2>3, <2>4
  <2> QED BY <1>5, <2>5 DEF Closed, end, close
<1>9. ASSUME row # <<>> PROVE Closed(<<value>> \o row, s) = x \o (<<comma>> \o Closed(row, s))
  <2>1. w # <<>>
    BY <1>2, <1>9
  <2>2. WrittenValues(<<value>> \o row) = <<x>> \o w
    BY WrittenValuesSteps DEF x, w
  <2> DEFINE u == Separated(w)
  <2>3. Closed(<<value>> \o row, s) = (x \o (<<comma>> \o u)) \o end
    BY <1>5, <2>1, <2>2 DEF Closed, end, close
  <2>4. u \in Seq(Symbols)
    BY <1>5
  <2> HIDE DEF u
  <2>5. (x \o (<<comma>> \o u)) \o end = x \o ((<<comma>> \o u) \o end)
    <3>1. <<comma>> \o u \in Seq(Symbols)
      BY <1>4, <2>4, ConcatProperties
    <3> QED BY <1>1, <1>4, <3>1, ConcatAssociative
  <2>6. (<<comma>> \o u) \o end = <<comma>> \o (u \o end)
    BY <1>4, <2>4, ConcatAssociative
  <2> QED BY <1>6, <2>3, <2>5, <2>6 DEF u
<1> QED BY <1>5, <1>7, <1>8, <1>9 DEF x, w, end, close, comma

Comma == Token("Comma", <<>>)
RightParen == Token("RightParen", <<>>)
LeftParen == Token("LeftParen", <<>>)

LEMMA SeparatorTokens ==
  /\ {Comma, RightParen, LeftParen, Token("Semicolon", <<>>), Token("EOF", <<>>)} \subseteq Sound
  /\ {Comma, RightParen, LeftParen, Token("Semicolon", <<>>), Token("EOF", <<>>)} \subseteq Tokens
  /\ Comma.kind = "Comma" /\ RightParen.kind = "RightParen" /\ LeftParen.kind = "LeftParen"
<1>1. {"Comma", "RightParen", "LeftParen", "Semicolon", "EOF"} \subseteq Kinds
  <2>1. DOMAIN Punctuation = {"(", ")", ",", ";", "backtick", "."}
    BY DEF Punctuation
  <2>2. /\ Punctuation["("] = "LeftParen" /\ Punctuation[")"] = "RightParen"
        /\ Punctuation[","] = "Comma" /\ Punctuation[";"] = "Semicolon"
    BY DEF Punctuation
  <2> QED BY <2>1, <2>2 DEF Kinds, Range
<1> QED BY <1>1, EmptySeq DEF Token, Tokens, Sound, Comma, RightParen, LeftParen

(* A comma or a parenthesis ends a number, and is no second quote. *)
LEMMA SeparatorRead ==
  ASSUME NEW c \in {",", ")", "("}, NEW s \in Seq(Symbols)
  PROVE  /\ <<c>> \o s \in Seq(Symbols) /\ NoQuote(<<c>> \o s)
         /\ Tokenized[<<c>> \o s]
              = <<(IF c = "," THEN Comma ELSE IF c = ")" THEN RightParen ELSE LeftParen)>>
                \o Tokenized[s]
<1>1. c \in Plain /\ c # "'"
      /\ TokenOf(c) = IF c = "," THEN Comma ELSE IF c = ")" THEN RightParen ELSE LeftParen
  BY PunctuationRead DEF Comma, RightParen, LeftParen
<1>2. <<c>> \o s \in Seq(Symbols) /\ Tokenized[<<c>> \o s] = <<TokenOf(c)>> \o Tokenized[s]
  BY <1>1, SymbolRead
<1> DEFINE t == <<c>> \o s
<1>3. c \in Symbols
  BY SymbolsAssumption DEF SymbolsAssumption, Special, Punctuation
<1>4. t \in Seq(Symbols) /\ IsCons(t, c, s)
  BY <1>3, Prepended
<1>5. NoQuote(t)
  <2> HIDE DEF t
  <2> QED BY <1>1, <1>4 DEF IsCons, NoQuote
<1> QED BY <1>1, <1>2, <1>5 DEF t

(* A row is read back: its values, then the parenthesis and what is behind it. *)
RowRead(row, s) ==
  /\ Row[<<Tokenized[Closed(row, s)], FALSE>>]
       = [ok |-> TRUE, values |-> row, rest |-> <<RightParen>> \o Tokenized[s]]
  /\ Tokenized[s] \in Seq(Sound) => Tokenized[Closed(row, s)] \in Seq(Sound)

LEMMA LastRead ==
  ASSUME NEW value \in Writable, NEW s \in Seq(Symbols)
  PROVE  RowRead(<<value>>, s)
<1> DEFINE close == ")"
           m == Tokenized[s]
           u == <<close>> \o s
           t == ValueTokens(value) \o (<<RightParen>> \o m)
<1>1. u \in Seq(Symbols) /\ NoQuote(u) /\ Tokenized[u] = <<RightParen>> \o m
  BY SeparatorRead
<1>2. m \in Seq(Tokens) /\ RightParen \in Tokens /\ RightParen \in Sound
      /\ RightParen.kind = "RightParen"
  BY TokenizedDefined, SeparatorTokens
<1>3. Closed(<<value>>, s) = WrittenValue(value) \o u
  <2>1. <<>> \in Seq(Dumpable) /\ value \in Dumpable
    BY EmptySeq, Wider
  <2> QED BY <2>1, ClosedSteps
<1> HIDE DEF close, m, u
<1>4. Tokenized[Closed(<<value>>, s)] = t
  <2>1. Tokenized[WrittenValue(value) \o u] = ValueTokens(value) \o Tokenized[u]
    BY <1>1, ValueRead
  <2> QED BY <1>1, <1>3, <2>1
<1>5. Row[<<t, FALSE>>] = [ok |-> TRUE, values |-> <<value>>, rest |-> <<RightParen>> \o m]
  <2>1. BeginsWith(Row[<<t, FALSE>>], value, RightParen, m)
    BY <1>2, ValueParsed
  <2> HIDE DEF t
  <2> QED BY <1>2, <2>1 DEF BeginsWith
<1>6. ASSUME m \in Seq(Sound) PROVE t \in Seq(Sound)
  <2> DEFINE r == <<RightParen>> \o m
  <2>1. r \in Seq(Sound)
    BY <1>2, <1>6, Prepended
  <2>2. ValueTokens(value) \in Seq(Sound)
    BY ValueRead
  <2> HIDE DEF r
  <2>3. ValueTokens(value) \o r \in Seq(Sound)
    BY <2>1, <2>2, ConcatProperties
  <2> QED BY <2>3 DEF r
<1> HIDE DEF t
<1> QED BY <1>4, <1>5, <1>6 DEF RowRead, m

LEMMA OneMoreRead ==
  ASSUME NEW value \in Writable, NEW row \in Seq(Writable), row # <<>>,
         NEW s \in Seq(Symbols), RowRead(row, s)
  PROVE  RowRead(<<value>> \o row, s)
<1> DEFINE comma == ","
           more == Closed(row, s)
           m == Tokenized[more]
           u == <<comma>> \o more
           t == ValueTokens(value) \o (<<Comma>> \o m)
           rest == <<RightParen>> \o Tokenized[s]
<1>0. more \in Seq(Symbols)
  BY Wider, ClosedSteps
<1> HIDE DEF more
<1>1. u \in Seq(Symbols) /\ NoQuote(u) /\ Tokenized[u] = <<Comma>> \o m
  BY <1>0, SeparatorRead
<1>2. m \in Seq(Tokens) /\ Comma \in Tokens /\ Comma \in Sound /\ Comma.kind = "Comma"
  BY <1>0, TokenizedDefined, SeparatorTokens
<1>3. Closed(<<value>> \o row, s) = WrittenValue(value) \o u
  BY Wider, ClosedSteps DEF more
<1> HIDE DEF comma, m, u
<1>4. Tokenized[Closed(<<value>> \o row, s)] = t
  <2>1. Tokenized[WrittenValue(value) \o u] = ValueTokens(value) \o Tokenized[u]
    BY <1>1, ValueRead
  <2> QED BY <1>1, <1>3, <2>1
<1>5. Row[<<m, FALSE>>] = [ok |-> TRUE, values |-> row, rest |-> rest]
  BY DEF RowRead, m, more
<1> HIDE DEF rest
<1>6. Row[<<t, FALSE>>] = WithValue(value, Row[<<m, FALSE>>])
  <2>1. BeginsWith(Row[<<t, FALSE>>], value, Comma, m)
    BY <1>2, ValueParsed
  <2> HIDE DEF t
  <2> QED BY <1>2, <2>1 DEF BeginsWith
<1>7. Row[<<t, FALSE>>] = [ok |-> TRUE, values |-> <<value>> \o row, rest |-> rest]
  <2> DEFINE other == Row[<<m, FALSE>>]
  <2>1. other \in RowResults /\ value \in Values
    BY <1>2, RowDefined, WritableSorts
  <2>2. other.ok = TRUE /\ other.values = row /\ other.rest = rest
    BY <1>5
  <2> HIDE DEF other
  <2>3. WithValue(value, other)
          = [ok |-> other.ok, values |-> <<value>> \o other.values, rest |-> other.rest]
    BY <2>1, WithValueIsRow
  <2> QED BY <1>6, <2>2, <2>3 DEF other
<1>8. ASSUME m \in Seq(Sound) PROVE t \in Seq(Sound)
  <2> DEFINE r == <<Comma>> \o m
  <2>1. r \in Seq(Sound)
    BY <1>2, <1>8, Prepended
  <2>2. ValueTokens(value) \in Seq(Sound)
    BY ValueRead
  <2> HIDE DEF r
  <2>3. ValueTokens(value) \o r \in Seq(Sound)
    BY <2>1, <2>2, ConcatProperties
  <2> QED BY <2>3 DEF r
<1>9. Tokenized[s] \in Seq(Sound) => m \in Seq(Sound)
  BY DEF RowRead, m, more
<1> HIDE DEF t
<1> QED BY <1>4, <1>7, <1>8, <1>9 DEF RowRead, rest

LEMMA RowsAreRead ==
  ASSUME NEW row \in Seq(Writable), row # <<>>, NEW s \in Seq(Symbols)
  PROVE  RowRead(row, s)
<1> DEFINE S == {r \in Seq(Writable) : r # <<>> => RowRead(r, s)}
<1>1. <<>> \in S
  BY EmptySeq
<1>2. ASSUME NEW value \in Writable, NEW r \in Seq(Writable), r \in S
      PROVE  <<value>> \o r \in S
  <2>1. <<value>> \o r \in Seq(Writable)
    BY Prepended
  <2>2. CASE r = <<>>
    <3>1. <<value>> \o r = <<value>>
      <4>1. <<value>> \in Seq(Writable)
        OBVIOUS
      <4> QED BY <2>2, <4>1, ConcatEmptySeq
    <3> QED BY <2>1, <3>1, LastRead
  <2>3. CASE r # <<>>
    <3>1. RowRead(<<value>> \o r, s)
      BY <1>2, <2>3, OneMoreRead
    <3> QED BY <2>1, <3>1
  <2> QED BY <2>2, <2>3
<1>3. Seq(Writable) \subseteq S
  <2> HIDE DEF S
  <2>1. Grows(Writable, S)
    BY <1>1, <1>2 DEF Grows
  <2> QED BY <2>1, SequenceInduction
<1> QED BY <1>3

(* A row with a blob in hexadecimal is not: the parser takes the number for the
   last value and finds the name where a parenthesis has to be. *)
RowBroken(row, s) ==
  KindAt(Row[<<Tokenized[Closed(row, s)], FALSE>>].rest, 1) = "Identifier"

LEMMA HexEnds ==
  ASSUME NEW m \in Seq(Tokens)
  PROVE  KindAt(Row[<<(ValueTokens(InsertValue("Hex", <<>>)) \o m), FALSE>>].rest, 1)
           = "Identifier"
<1> DEFINE number == Token("Number", <<"0">>)
           name == Token("Identifier", <<"xFF">>)
           r == <<name>> \o m
           t == <<number>> \o r
<1>1. ValueTokens(InsertValue("Hex", <<>>)) = <<number, name>>
  BY DEF ValueTokens, InsertValue
<1>2. number \in Tokens /\ name \in Tokens
      /\ number.kind = "Number" /\ name.kind = "Identifier"
  BY HexTokens DEF Sound, Token
<1> HIDE DEF number, name
<1>3. <<number, name>> \o m = t
  BY <1>2, PairBefore
<1>4. t \in Seq(Tokens) /\ IsPair(t, number, name, m)
  BY <1>2, PairRead
<1>5. r \in Seq(Tokens) /\ IsCons(r, name, m)
  BY <1>2, Prepended
<1> HIDE DEF r, t
<1>6. KindAt(r, 1) = "Identifier"
  <2>1. 1 \in DOMAIN r /\ r[1] = name
    BY <1>5 DEF IsCons
  <2> QED BY <1>2, <2>1 DEF KindAt
<1>7. KindAt(t, 1) = "Number" /\ KindAt(t, 2) = "Identifier" /\ After(1, t) = r
  BY <1>2, <1>4 DEF IsPair, r
<1>8. Row[<<t, FALSE>>] = RowAt(t, FALSE, Row)
  BY <1>4, <1>7, RowDefined DEF RowOf
<1>9. RowAt(t, FALSE, Row).rest = r
  BY <1>7 DEF RowAt, ValueKinds
<1> QED BY <1>1, <1>3, <1>6, <1>8, <1>9

LEMMA BrokenByHex ==
  ASSUME NEW row \in Seq(Dumpable), NEW s \in Seq(Symbols)
  PROVE  RowBroken(<<InsertValue("Hex", <<>>)>> \o row, s)
<1> DEFINE value == InsertValue("Hex", <<>>)
           all == <<value>> \o row
           close == ")"
           comma == ","
<1>1. value \in Dumpable
  BY DEF Dumpable
<1>2. \E u \in Seq(Symbols) : Closed(all, s) = WrittenValue(value) \o u
  <2>1. CASE row = <<>>
    <3>1. all = <<value>>
      <4>1. <<value>> \in Seq(Dumpable)
        BY <1>1
      <4> QED BY <2>1, <4>1, ConcatEmptySeq
    <3>2. Closed(<<value>>, s) = WrittenValue(value) \o (<<close>> \o s)
      BY <1>1, ClosedSteps
    <3>3. <<close>> \o s \in Seq(Symbols)
      BY SeparatorRead
    <3> HIDE DEF value, all, close
    <3> QED BY <3>1, <3>2, <3>3
  <2>2. CASE row # <<>>
    <3> DEFINE more == Closed(row, s)
    <3>1. Closed(all, s) = WrittenValue(value) \o (<<comma>> \o more)
      BY <1>1, <2>2, ClosedSteps
    <3>2. more \in Seq(Symbols)
      BY <1>1, ClosedSteps
    <3> HIDE DEF more
    <3>3. <<comma>> \o more \in Seq(Symbols)
      BY <3>2, SeparatorRead
    <3> HIDE DEF value, all, comma
    <3> QED BY <3>1, <3>3
  <2> QED BY <2>1, <2>2
<1>3. PICK u \in Seq(Symbols) : Closed(all, s) = WrittenValue(value) \o u
  BY <1>2
<1>4. Tokenized[Closed(all, s)] = ValueTokens(value) \o Tokenized[u]
  BY <1>3, HexRead
<1>5. Tokenized[u] \in Seq(Tokens)
  BY TokenizedDefined
<1>6. KindAt(Row[<<(ValueTokens(value) \o Tokenized[u]), FALSE>>].rest, 1) = "Identifier"
  BY <1>5, HexEnds
<1> QED BY <1>4, <1>6 DEF RowBroken

LEMMA OneMoreBroken ==
  ASSUME NEW value \in Writable, NEW row \in Seq(Dumpable), row # <<>>,
         NEW s \in Seq(Symbols), RowBroken(row, s)
  PROVE  RowBroken(<<value>> \o row, s)
<1> DEFINE comma == ","
           more == Closed(row, s)
           m == Tokenized[more]
           u == <<comma>> \o more
           t == ValueTokens(value) \o (<<Comma>> \o m)
<1>0. more \in Seq(Symbols)
  BY Wider, ClosedSteps
<1>3. Closed(<<value>> \o row, s) = WrittenValue(value) \o u
  BY Wider, ClosedSteps
<1>9. KindAt(Row[<<m, FALSE>>].rest, 1) = "Identifier"
  BY DEF RowBroken
<1> HIDE DEF more
<1>1. u \in Seq(Symbols) /\ NoQuote(u) /\ Tokenized[u] = <<Comma>> \o m
  BY <1>0, SeparatorRead
<1>2. m \in Seq(Tokens) /\ Comma \in Tokens /\ Comma \in Sound /\ Comma.kind = "Comma"
  BY <1>0, TokenizedDefined, SeparatorTokens
<1> HIDE DEF comma, m, u
<1>4. Tokenized[Closed(<<value>> \o row, s)] = t
  <2>1. Tokenized[WrittenValue(value) \o u] = ValueTokens(value) \o Tokenized[u]
    BY <1>1, ValueRead
  <2> QED BY <1>1, <1>3, <2>1
<1>6. Row[<<t, FALSE>>] = WithValue(value, Row[<<m, FALSE>>])
  <2>1. BeginsWith(Row[<<t, FALSE>>], value, Comma, m)
    BY <1>2, ValueParsed
  <2> HIDE DEF t
  <2> QED BY <1>2, <2>1 DEF BeginsWith
<1>7. Row[<<t, FALSE>>].rest = Row[<<m, FALSE>>].rest
  <2> DEFINE other == Row[<<m, FALSE>>]
  <2>1. other \in RowResults /\ value \in Values
    BY <1>2, RowDefined, WritableSorts
  <2> HIDE DEF other
  <2>3. WithValue(value, other)
          = [ok |-> other.ok, values |-> <<value>> \o other.values, rest |-> other.rest]
    BY <2>1, WithValueIsRow
  <2> QED BY <1>6, <2>3 DEF other
<1> HIDE DEF t
<1> QED BY <1>4, <1>7, <1>9 DEF RowBroken

LEMMA RowsAreBroken ==
  ASSUME NEW row \in Seq(Dumpable), row \notin Seq(Writable), NEW s \in Seq(Symbols)
  PROVE  RowBroken(row, s)
<1> DEFINE hex == InsertValue("Hex", <<>>)
           S == {r \in Seq(Dumpable) : r \notin Seq(Writable) => RowBroken(r, s)}
<1>1. <<>> \in S
  BY EmptySeq
<1>2. ASSUME NEW value \in Dumpable, NEW r \in Seq(Dumpable), r \in S
      PROVE  <<value>> \o r \in S
  <2>1. <<value>> \o r \in Seq(Dumpable)
    BY Prepended
  <2>2. CASE value = hex
    <3>1. RowBroken(<<hex>> \o r, s)
      BY BrokenByHex
    <3> HIDE DEF hex
    <3> QED BY <2>1, <2>2, <3>1
  <2>3. CASE value \in Writable /\ r \in Seq(Writable)
    <3>1. <<value>> \o r \in Seq(Writable)
      BY <2>3, Prepended
    <3> QED BY <2>1, <3>1
  <2>4. CASE value \in Writable /\ r \notin Seq(Writable)
    <3>1. r # <<>>
      BY <2>4, EmptySeq
    <3>2. RowBroken(<<value>> \o r, s)
      BY <1>2, <2>4, <3>1, OneMoreBroken
    <3> QED BY <2>1, <3>2
  <2> QED BY <2>2, <2>3, <2>4 DEF Dumpable
<1>3. Seq(Dumpable) \subseteq S
  <2> HIDE DEF S
  <2>1. Grows(Dumpable, S)
    BY <1>1, <1>2 DEF Grows
  <2> QED BY <2>1, SequenceInduction
<1> QED BY <1>3

(* The lines of the rows. *)
Lines(rows) ==
  [i \in DOMAIN rows |->
     WrittenRow(rows[i]) \o (IF i = Len(rows) THEN <<";", "\n">> ELSE <<",", "\n">>)]

(* Before the text s, a row is a parenthesis and what Closed says. *)
LEMMA WrittenRowBefore ==
  ASSUME NEW row \in Seq(Dumpable), NEW s \in Seq(Symbols)
  PROVE  /\ WrittenRow(row) \in Seq(Symbols)
         /\ WrittenRow(row) \o s = <<"(">> \o Closed(row, s)
<1> DEFINE open == "("
           close == ")"
           u == Separated(WrittenValues(row))
<1>1. open \in Symbols /\ close \in Symbols
  BY SymbolsAssumption DEF SymbolsAssumption, Special, Punctuation
<1>2. WrittenRow(row) = (<<open>> \o u) \o <<close>> /\ Closed(row, s) = u \o (<<close>> \o s)
  BY DEF WrittenRow, WrittenValues, Closed
<1>3. u \in Seq(Symbols)
  <2>1. CASE row = <<>>
    <3>1. WrittenValues(<<>>) = <<>>
      BY DEF WrittenValues
    <3>2. Separated(<<>>) = FlattenSeq(WithCommas(<<>>))
      BY DEF Separated, WithCommas
    <3>3. <<>> \in Seq(Seq(Symbols))
      BY EmptySeq
    <3>4. WithCommas(<<>>) \in Seq(Seq(Symbols))
      BY <3>3, WithCommasIsTexts
    <3> QED BY <2>1, <3>1, <3>2, <3>4, FlattenedIsText
  <2>2. CASE row # <<>>
    <3>1. row[1] \in Dumpable
      BY <2>2
    <3> QED BY <3>1, ClosedSteps
  <2> QED BY <2>1, <2>2
<1> HIDE DEF open, close, u
<1>4. <<open>> \in Seq(Symbols) /\ <<close>> \in Seq(Symbols)
  BY <1>1
<1>5. <<open>> \o u \in Seq(Symbols) /\ <<close>> \o s \in Seq(Symbols)
  BY <1>3, <1>4, ConcatProperties
<1>6. (<<open>> \o u) \o <<close>> \in Seq(Symbols)
  BY <1>4, <1>5, ConcatProperties
<1>7. ((<<open>> \o u) \o <<close>>) \o s = (<<open>> \o u) \o (<<close>> \o s)
  BY <1>4, <1>5, ConcatAssociative
<1>8. (<<open>> \o u) \o (<<close>> \o s) = <<open>> \o (u \o (<<close>> \o s))
  BY <1>3, <1>4, <1>5, ConcatAssociative
<1> QED BY <1>2, <1>6, <1>7, <1>8 DEF open

LEMMA EndsOfLines ==
  /\ <<";", "\n">> \in Seq(Symbols) /\ <<",", "\n">> \in Seq(Symbols)
<1> DEFINE semicolon == ";"
           comma == ","
           end == "\n"
<1>1. semicolon \in Symbols /\ comma \in Symbols /\ end \in Symbols
  BY SymbolsAssumption DEF SymbolsAssumption, Special, Punctuation, Blank
<1> HIDE DEF semicolon, comma, end
<1>2. <<semicolon, end>> \in Seq(Symbols) /\ <<comma, end>> \in Seq(Symbols)
  BY <1>1
<1> QED BY <1>2 DEF semicolon, comma, end

LEMMA LinesAreTexts ==
  ASSUME NEW rows \in Seq(Filled)
  PROVE  /\ Lines(rows) \in Seq(Seq(Symbols))
         /\ Len(Lines(rows)) = Len(rows)
         /\ \A i \in 1 .. Len(rows) :
              Lines(rows)[i] = WrittenRow(rows[i])
                               \o (IF i = Len(rows) THEN <<";", "\n">> ELSE <<",", "\n">>)
<1> DEFINE T == Seq(Symbols)
           last == <<";", "\n">>
           comma == <<",", "\n">>
           end(i) == IF i = Len(rows) THEN last ELSE comma
           line(i) == WrittenRow(rows[i]) \o end(i)
<1>1. last \in Seq(Symbols) /\ comma \in Seq(Symbols)
  BY EndsOfLines
<1>2. DOMAIN rows = 1 .. Len(rows) /\ Len(rows) \in Nat
      /\ \A i \in 1 .. Len(rows) : rows[i] \in Seq(Dumpable)
  BY DEF Filled
<1>3. Lines(rows) = [i \in DOMAIN rows |-> line(i)]
  BY DEF Lines
<1> HIDE DEF last, comma
<1>4. \A i \in 1 .. Len(rows) : line(i) \in T
  <2> SUFFICES ASSUME NEW i \in 1 .. Len(rows) PROVE line(i) \in T
    OBVIOUS
  <2> DEFINE row == WrittenRow(rows[i])
             e == end(i)
  <2>1. row \in Seq(Symbols)
    <3>1. rows[i] \in Seq(Dumpable) /\ <<>> \in Seq(Symbols)
      BY <1>2, EmptySeq
    <3> QED BY <3>1, WrittenRowBefore
  <2>2. e \in Seq(Symbols)
    BY <1>1
  <2> HIDE DEF row, e
  <2>3. row \o e \in Seq(Symbols)
    BY <2>1, <2>2, ConcatProperties
  <2> QED BY <2>3 DEF row, e
<1>5. \A i \in 1 .. Len(rows) : Lines(rows)[i] = line(i)
  <2> HIDE DEF line
  <2> QED BY <1>2, <1>3
<1>6. Lines(rows) \in Seq(T) /\ Len(Lines(rows)) = Len(rows)
  <2> HIDE DEF line, T
  <2> QED BY <1>2, <1>3, <1>4
<1> QED BY <1>5, <1>6 DEF last, comma

LEMMA LinesSteps ==
  ASSUME NEW row \in Filled, NEW rows \in Seq(Filled)
  PROVE  /\ FlattenSeq(Lines(rows)) \in Seq(Symbols)
         /\ FlattenSeq(Lines(<<row>>)) = WrittenRow(row) \o <<";", "\n">>
         /\ rows # <<>> => FlattenSeq(Lines(<<row>> \o rows))
                             = WrittenRow(row) \o (<<",", "\n">> \o FlattenSeq(Lines(rows)))
<1> DEFINE T == Seq(Symbols)
           last == <<";", "\n">>
           comma == <<",", "\n">>
           x == WrittenRow(row)
<1>0. last \in T /\ comma \in T
  BY EndsOfLines
<1>1. x \in T
  <2>1. row \in Seq(Dumpable) /\ <<>> \in Seq(Symbols)
    BY EmptySeq DEF Filled
  <2> QED BY <2>1, WrittenRowBefore
<1>2. \A r \in Seq(Filled) :
        /\ Lines(r) \in Seq(T) /\ Len(Lines(r)) = Len(r)
        /\ \A i \in 1 .. Len(r) :
             Lines(r)[i] = WrittenRow(r[i]) \o (IF i = Len(r) THEN last ELSE comma)
  BY LinesAreTexts
<1> HIDE DEF last, comma, x
<1>3. FlattenSeq(Lines(rows)) \in Seq(Symbols)
  BY <1>2, FlattenedIsText
<1>4. FlattenSeq(Lines(<<row>>)) = x \o last
  <2> DEFINE one == <<row>>
             w == Lines(one)
             line == x \o last
  <2>1. one \in Seq(Filled) /\ Len(one) = 1 /\ one[1] = row
    OBVIOUS
  <2> HIDE DEF one
  <2>2. line \in T
    BY <1>0, <1>1, ConcatProperties
  <2>3. w \in Seq(T) /\ Len(w) = 1 /\ w[1] = line
    <3>1. /\ w \in Seq(T) /\ Len(w) = Len(one)
          /\ \A i \in 1 .. Len(one) :
               w[i] = WrittenRow(one[i]) \o (IF i = Len(one) THEN last ELSE comma)
      BY <1>2, <2>1
    <3> HIDE DEF w, T
    <3>2. 1 \in 1 .. Len(one)
      BY <2>1
    <3> QED BY <2>1, <3>1, <3>2 DEF x
  <2> HIDE DEF w, line
  <2>4. w = <<line>> \o <<>>
    <3> HIDE DEF T
    <3>1. <<>> \in Seq(T) /\ Len(<<>>) = 0
      BY EmptySeq
    <3>2. \A i \in 1 .. 0 : w[i + 1] = <<>>[i]
      OBVIOUS
    <3> QED BY <2>2, <2>3, <3>1, <3>2, BuiltFrom
  <2>5. FlattenSeq(<<line>> \o <<>>) = line \o FlattenSeq(<<>>)
    BY <2>2, FlattenCons, EmptySeq
  <2>6. FlattenSeq(<<>>) = <<>> /\ line \o <<>> = line
    BY <2>2, ConcatEmptySeq DEF FlattenSeq
  <2> QED BY <2>4, <2>5, <2>6 DEF w, one, line
<1>5. ASSUME rows # <<>>
      PROVE  FlattenSeq(Lines(<<row>> \o rows)) = x \o (comma \o FlattenSeq(Lines(rows)))
  <2> DEFINE all == <<row>> \o rows
             w == Lines(all)
             v == Lines(rows)
             e == x \o comma
  <2>1. all \in Seq(Filled) /\ IsCons(all, row, rows)
    BY Prepended
  <2> HIDE DEF all
  <2>2. Len(all) = Len(rows) + 1 /\ all[1] = row
        /\ \A i \in 1 .. Len(rows) : all[i + 1] = rows[i]
    BY <2>1 DEF IsCons
  <2>3. w \in Seq(T) /\ Len(w) = Len(all)
        /\ \A i \in 1 .. Len(all) :
             w[i] = WrittenRow(all[i]) \o (IF i = Len(all) THEN last ELSE comma)
    BY <1>2, <2>1
  <2>4. Len(rows) \in Nat /\ Len(rows) # 0
    BY <1>5
  <2>5. e \in T
    BY <1>0, <1>1, ConcatProperties
  <2> HIDE DEF w, v, e, T
  <2>6. w[1] = e
    <3>1. 1 \in 1 .. Len(all) /\ 1 # Len(all)
      BY <2>2, <2>4
    <3> QED BY <2>2, <2>3, <3>1 DEF e, x
  <2>7. \A i \in 1 .. Len(rows) : w[i + 1] = v[i]
    <3> SUFFICES ASSUME NEW i \in 1 .. Len(rows) PROVE w[i + 1] = v[i]
      OBVIOUS
    <3>1. i + 1 \in 1 .. Len(all) /\ (i + 1 = Len(all) <=> i = Len(rows))
      BY <2>2, <2>4
    <3>2. w[i + 1] = WrittenRow(all[i + 1]) \o (IF i + 1 = Len(all) THEN last ELSE comma)
      BY <2>3, <3>1
    <3>3. v[i] = WrittenRow(rows[i]) \o (IF i = Len(rows) THEN last ELSE comma)
      BY <1>2 DEF v
    <3>4. all[i + 1] = rows[i]
      BY <2>2
    <3> QED BY <3>1, <3>2, <3>3, <3>4
  <2>8. v \in Seq(T) /\ Len(v) = Len(rows)
    BY <1>2 DEF v
  <2>9. w = <<e>> \o v
    BY <2>2, <2>3, <2>5, <2>6, <2>7, <2>8, BuiltFrom
  <2>10. FlattenSeq(<<e>> \o v) = e \o FlattenSeq(v)
    BY <2>5, <2>8, FlattenCons DEF T
  <2>11. (x \o comma) \o FlattenSeq(v) = x \o (comma \o FlattenSeq(v))
    <3>1. FlattenSeq(v) \in Seq(Symbols)
      BY <1>3 DEF v
    <3>2. comma \in Seq(Symbols) /\ x \in Seq(Symbols)
      BY <1>0, <1>1 DEF T
    <3> QED BY <3>1, <3>2, ConcatAssociative
  <2> QED BY <2>9, <2>10, <2>11 DEF w, v, e, all
<1> QED BY <1>3, <1>4, <1>5 DEF x, last, comma

-----------------------------------------------------------------------------
(* The rows of a statement.                                                *)

LEMMA AfterAt ==
  ASSUME NEW T, NEW s \in Seq(T), NEW k \in 0 .. Len(s)
  PROVE  \A i \in 1 .. Len(s) - k : After(k, s)[i] = s[k + i]
<1> SUFFICES ASSUME NEW i \in 1 .. Len(s) - k PROVE After(k, s)[i] = s[k + i]
  OBVIOUS
<1>1. Len(s) \in Nat /\ k \in Nat /\ i \in 1 .. Len(s) - (k + 1) + 1 /\ (k + 1) + i - 1 = k + i
  OBVIOUS
<1>2. SubSeq(s, k + 1, Len(s))[i] = s[(k + 1) + i - 1]
  BY <1>1, SubSeqProperties
<1> QED BY <1>1, <1>2 DEF After

(* The tokens behind the first one keep their order. *)
LEMMA Behind ==
  ASSUME NEW x \in Tokens, NEW r \in Seq(Tokens)
  PROVE  /\ <<x>> \o r \in Seq(Tokens)
         /\ Len(<<x>> \o r) = Len(r) + 1
         /\ KindAt(<<x>> \o r, 1) = x.kind
         /\ (<<x>> \o r)[1] = x
         /\ \A i \in 1 .. Len(r) : /\ KindAt(<<x>> \o r, i + 1) = KindAt(r, i)
                                   /\ (<<x>> \o r)[i + 1] = r[i]
         /\ \A k \in 0 .. Len(r) : After(k + 1, <<x>> \o r) = After(k, r)
<1> DEFINE t == <<x>> \o r
<1>1. t \in Seq(Tokens) /\ IsCons(t, x, r)
  BY Prepended
<1> HIDE DEF t
<1>2. Len(t) = Len(r) + 1 /\ t[1] = x /\ \A i \in 1 .. Len(r) : t[i + 1] = r[i]
  BY <1>1 DEF IsCons
<1>3. DOMAIN t = 1 .. Len(r) + 1 /\ DOMAIN r = 1 .. Len(r) /\ Len(r) \in Nat
  BY <1>1, <1>2
<1>4. KindAt(t, 1) = x.kind
  BY <1>2, <1>3 DEF KindAt
<1>5. ASSUME NEW i \in 1 .. Len(r) PROVE KindAt(t, i + 1) = KindAt(r, i)
  <2>1. i + 1 \in DOMAIN t /\ i \in DOMAIN r
    BY <1>3
  <2> QED BY <1>2, <2>1 DEF KindAt
<1>6. ASSUME NEW k \in 0 .. Len(r) PROVE After(k + 1, t) = After(k, r)
  <2> DEFINE n == k + 1
             a == After(n, t)
             b == After(k, r)
  <2>1. n \in 0 .. Len(t) /\ Len(t) - n = Len(r) - k
    BY <1>2, <1>3
  <2>2. b \in Seq(Tokens) /\ Len(b) = Len(r) - k /\ \A i \in 1 .. Len(r) - k : b[i] = r[k + i]
    BY AfterIsText, AfterAt
  <2> HIDE DEF n
  <2>3. a \in Seq(Tokens) /\ Len(a) = Len(t) - n /\ \A i \in 1 .. Len(t) - n : a[i] = t[n + i]
    BY <1>1, <2>1, AfterIsText, AfterAt
  <2> HIDE DEF a, b
  <2>4. ASSUME NEW i \in 1 .. Len(a) PROVE a[i] = b[i]
    <3>1. k + i \in 1 .. Len(r) /\ n + i = (k + i) + 1 /\ i \in 1 .. Len(r) - k
      BY <1>3, <2>1, <2>3, <2>4 DEF n
    <3> QED BY <1>2, <2>1, <2>2, <2>3, <3>1
  <2>5. a = b
    BY <2>1, <2>2, <2>3, <2>4, SeqEqual
  <2> QED BY <2>5 DEF a, b, n
<1> QED BY <1>1, <1>2, <1>4, <1>5, <1>6 DEF t

LEMMA TextPair ==
  \A c, d \in Symbols : \A s \in Seq(Symbols) : <<c, d>> \o s = <<c>> \o (<<d>> \o s)
<1> SUFFICES ASSUME NEW c \in Symbols, NEW d \in Symbols, NEW s \in Seq(Symbols)
             PROVE  <<c, d>> \o s = <<c>> \o (<<d>> \o s)
  OBVIOUS
<1>1. <<c, d>> \in Seq(Symbols) /\ <<c>> \in Seq(Symbols) /\ <<d>> \in Seq(Symbols)
  OBVIOUS
<1> QED BY <1>1, PairBefore

(* The end of a line leaves no token. *)
LEMMA LineEndRead ==
  ASSUME NEW mark \in {",", ";"}, NEW s \in Seq(Symbols)
  PROVE  /\ <<mark, "\n">> \o s \in Seq(Symbols)
         /\ Tokenized[<<mark, "\n">> \o s] = <<TokenOf(mark)>> \o Tokenized[s]
<1> DEFINE end == "\n"
           u == <<end>> \o s
<1>1. end \in Blank /\ mark \in Plain /\ end \in Symbols /\ mark \in Symbols
  BY PunctuationRead, SymbolsAssumption
     DEF SymbolsAssumption, Special, Punctuation, Blank
<1> HIDE DEF end
<1>2. u \in Seq(Symbols) /\ Tokenized[u] = Tokenized[s]
  BY <1>1, BlankRead
<1> HIDE DEF u
<1>3. <<mark, end>> \o s = <<mark>> \o u
  <2>1. mark \in Symbols /\ end \in Symbols
    BY <1>1
  <2> QED BY <2>1, TextPair DEF u
<1>4. <<mark>> \o u \in Seq(Symbols) /\ Tokenized[<<mark>> \o u] = <<TokenOf(mark)>> \o Tokenized[u]
  BY <1>1, <1>2, SymbolRead
<1> QED BY <1>2, <1>3, <1>4 DEF end

LEMMA EmptyRead == Tokenized[<<>>] = <<Token("EOF", <<>>)>>
  BY TokenizedDefined, EmptySeq DEF TokensOf

(* The lines are read back: the tokens behind the first parenthesis make the rows. *)
RowsRead(rows) ==
  \E m \in Seq(Sound) :
    /\ Tokenized[FlattenSeq(Lines(rows))] = <<LeftParen>> \o m
    /\ Rows[m] = [ok |-> TRUE, rows |-> rows]

(* The row that a text begins with, whatever text s follows it. *)
LEMMA FirstRowRead ==
  ASSUME NEW row \in Full, NEW s \in Seq(Symbols)
  PROVE  \E m \in Seq(Tokens) :
           /\ Tokenized[s] \in Seq(Sound) => m \in Seq(Sound)
           /\ Tokenized[WrittenRow(row) \o s] = <<LeftParen>> \o m
           /\ Row[<<m, FALSE>>]
                = [ok |-> TRUE, values |-> row, rest |-> <<RightParen>> \o Tokenized[s]]
<1> DEFINE open == "("
           u == Closed(row, s)
           m == Tokenized[u]
<1>1. row \in Seq(Writable) /\ row # <<>>
  BY DEF Full
<1>w. row \in Seq(Dumpable)
  BY <1>1, Wider
<1>2. u \in Seq(Symbols)
  <2>1. row[1] \in Dumpable
    BY <1>1, <1>w
  <2> QED BY <1>w, <2>1, ClosedSteps
<1>3. WrittenRow(row) \o s = <<open>> \o u
  BY <1>w, WrittenRowBefore
<1>4. RowRead(row, s)
  BY <1>1, RowsAreRead
<1>5. (Tokenized[s] \in Seq(Sound) => m \in Seq(Sound))
        /\ Row[<<m, FALSE>>]
             = [ok |-> TRUE, values |-> row, rest |-> <<RightParen>> \o Tokenized[s]]
  BY <1>4 DEF RowRead
<1>7. m \in Seq(Tokens)
  BY <1>2, TokenizedDefined
<1> HIDE DEF u
<1>6. Tokenized[<<open>> \o u] = <<LeftParen>> \o m
  BY <1>2, SeparatorRead
<1> HIDE DEF m
<1> QED BY <1>3, <1>5, <1>6, <1>7

LEMMA LastRowRead == ASSUME NEW row \in Full PROVE RowsRead(<<row>>)
<1> DEFINE s == <<";", "\n">>
           end == Token("EOF", <<>>)
           semicolon == Token("Semicolon", <<>>)
           rest == <<RightParen>> \o (<<semicolon>> \o <<end>>)
<1>1. s \in Seq(Symbols) /\ Tokenized[s] = <<semicolon>> \o <<end>>
  <2>1. s \in Seq(Symbols) /\ <<>> \in Seq(Symbols)
    BY EndsOfLines, EmptySeq
  <2>2. s \o <<>> = s
    BY <2>1, ConcatEmptySeq
  <2>3. Tokenized[s \o <<>>] = <<TokenOf(";")>> \o Tokenized[<<>>]
    BY <2>1, LineEndRead
  <2> QED BY <2>1, <2>2, <2>3, EmptyRead, PunctuationRead
<1>2. /\ semicolon \in Sound /\ end \in Sound /\ semicolon \in Tokens /\ end \in Tokens
      /\ RightParen \in Tokens /\ RightParen.kind = "RightParen" /\ semicolon.kind = "Semicolon"
  BY SeparatorTokens DEF Token
<1>3. FlattenSeq(Lines(<<row>>)) = WrittenRow(row) \o s
  BY Wider, LinesSteps, EmptySeq
<1> HIDE DEF s, end, semicolon
<1>4. Tokenized[s] \in Seq(Sound)
  BY <1>1, <1>2
<1>5. PICK m \in Seq(Sound) :
        /\ Tokenized[WrittenRow(row) \o s] = <<LeftParen>> \o m
        /\ Row[<<m, FALSE>>]
             = [ok |-> TRUE, values |-> row, rest |-> <<RightParen>> \o Tokenized[s]]
  BY <1>1, <1>4, FirstRowRead
<1>6. KindAt(rest, 1) = "RightParen" /\ KindAt(rest, 2) = "Semicolon"
  <2>1. <<end>> \in Seq(Tokens)
    BY <1>2
  <2>2. IsPair(rest, RightParen, semicolon, <<end>>)
    BY <1>2, <2>1, PairRead
  <2> HIDE DEF rest
  <2> QED BY <1>2, <2>2 DEF IsPair
<1>7. Row[<<m, FALSE>>] = [ok |-> TRUE, values |-> row, rest |-> rest]
  BY <1>1, <1>5
<1> HIDE DEF rest
<1>8. RowsOf(m, Rows) = [ok |-> TRUE, rows |-> <<row>>]
  BY <1>6, <1>7 DEF RowsOf
<1>9. m \in Seq(Tokens)
  BY DEF Sound
<1> QED BY <1>3, <1>5, <1>8, <1>9, RowsDefined DEF RowsRead

(* A row before others: what is read of them is read behind it. *)
LEMMA RowBefore ==
  ASSUME NEW row \in Full, NEW rows \in Seq(Filled), rows # <<>>, NEW n \in Seq(Tokens),
         Tokenized[FlattenSeq(Lines(rows))] = <<LeftParen>> \o n
  PROVE  \E m \in Seq(Tokens) :
           /\ n \in Seq(Sound) => m \in Seq(Sound)
           /\ Tokenized[FlattenSeq(Lines(<<row>> \o rows))] = <<LeftParen>> \o m
           /\ Rows[m] = WithRow(row, Rows[n])
<1> DEFINE text == FlattenSeq(Lines(rows))
           s == <<",", "\n">> \o text
<1>1. text \in Seq(Symbols)
  BY Wider, LinesSteps
<1>2. Tokenized[text] = <<LeftParen>> \o n
  OBVIOUS
<1>3. FlattenSeq(Lines(<<row>> \o rows)) = WrittenRow(row) \o s
  BY Wider, LinesSteps
<1> HIDE DEF text
<1>4. s \in Seq(Symbols) /\ Tokenized[s] = <<Comma>> \o (<<LeftParen>> \o n)
  BY <1>1, <1>2, LineEndRead, PunctuationRead DEF Comma
<1> HIDE DEF s
<1>5. /\ {Comma, LeftParen, RightParen} \subseteq Sound
      /\ {Comma, LeftParen, RightParen} \subseteq Tokens
      /\ Comma.kind = "Comma" /\ RightParen.kind = "RightParen" /\ LeftParen.kind = "LeftParen"
  BY SeparatorTokens
<1> DEFINE p == <<LeftParen>> \o n
           c == <<Comma>> \o p
           rest == <<RightParen>> \o c
<1>6. n \in Seq(Sound) => p \in Seq(Sound)
  BY <1>5, Prepended
<1>7. n \in Seq(Sound) => c \in Seq(Sound)
  <2> HIDE DEF p
  <2> QED BY <1>5, <1>6, Prepended
<1>8. n \in Seq(Tokens)
  OBVIOUS
<1>9. /\ p \in Seq(Tokens) /\ Len(p) = Len(n) + 1 /\ KindAt(p, 1) = "LeftParen"
      /\ After(1, p) = n
  <2>1. /\ p \in Seq(Tokens) /\ Len(p) = Len(n) + 1 /\ KindAt(p, 1) = "LeftParen"
        /\ IsCons(p, LeftParen, n)
    BY <1>5, <1>8, Behind, Prepended
  <2> HIDE DEF p
  <2> QED BY <2>1 DEF IsCons
<1> HIDE DEF p
<1>10. /\ c \in Seq(Tokens) /\ Len(c) = Len(p) + 1 /\ KindAt(c, 1) = "Comma"
       /\ KindAt(c, 2) = "LeftParen" /\ After(2, c) = n
  <2>1. Len(n) \in Nat /\ 1 \in 1 .. Len(p) /\ 1 \in 0 .. Len(p)
    BY <1>8, <1>9
  <2>2. /\ c \in Seq(Tokens) /\ Len(c) = Len(p) + 1 /\ KindAt(c, 1) = "Comma"
        /\ KindAt(c, 1 + 1) = KindAt(p, 1) /\ After(1 + 1, c) = After(1, p)
    BY <1>5, <1>9, <2>1, Behind
  <2> HIDE DEF c
  <2> QED BY <1>9, <2>2
<1> HIDE DEF c
<1>11. /\ KindAt(rest, 1) = "RightParen" /\ KindAt(rest, 2) = "Comma"
       /\ KindAt(rest, 3) = "LeftParen" /\ After(3, rest) = n
  <2>1. 1 \in 1 .. Len(c) /\ 2 \in 1 .. Len(c) /\ 2 \in 0 .. Len(c)
    BY <1>8, <1>9, <1>10
  <2>a. RightParen \in Tokens /\ RightParen.kind = "RightParen" /\ c \in Seq(Tokens)
    BY <1>5, <1>10
  <2>b. /\ KindAt(rest, 1) = RightParen.kind
        /\ \A i \in 1 .. Len(c) : KindAt(rest, i + 1) = KindAt(c, i)
        /\ \A k \in 0 .. Len(c) : After(k + 1, rest) = After(k, c)
    BY <2>a, Behind
  <2>2. /\ KindAt(rest, 1) = "RightParen"
        /\ KindAt(rest, 1 + 1) = KindAt(c, 1) /\ KindAt(rest, 2 + 1) = KindAt(c, 2)
        /\ After(2 + 1, rest) = After(2, c)
    <3> HIDE DEF rest
    <3> QED BY <2>1, <2>a, <2>b
  <2> HIDE DEF rest
  <2> QED BY <1>10, <2>2
<1>12. Tokenized[s] = c
  BY <1>4 DEF c, p
<1>13. PICK m \in Seq(Tokens) :
         /\ Tokenized[s] \in Seq(Sound) => m \in Seq(Sound)
         /\ Tokenized[WrittenRow(row) \o s] = <<LeftParen>> \o m
         /\ Row[<<m, FALSE>>] = [ok |-> TRUE, values |-> row, rest |-> rest]
  BY <1>4, <1>12, FirstRowRead
<1> HIDE DEF rest
<1>14. Rows[m] = WithRow(row, Rows[n])
  <2> DEFINE read == Row[<<m, FALSE>>]
  <2>2. read.ok /\ read.values = row /\ read.rest = rest
    BY <1>13
  <2>3. RowsOf(m, Rows) = WithRow(read.values, Rows[After(3, read.rest)])
    <3>1. read.ok /\ KindAt(read.rest, 1) = "RightParen" /\ KindAt(read.rest, 2) = "Comma"
          /\ KindAt(read.rest, 3) = "LeftParen"
      BY <1>11, <2>2
    <3> QED BY <3>1 DEF RowsOf, WithRow
  <2>4. RowsOf(m, Rows) = WithRow(row, Rows[n])
    <3> HIDE DEF read
    <3> QED BY <1>11, <2>2, <2>3
  <2> QED BY <2>4, RowsDefined
<1> QED BY <1>3, <1>7, <1>12, <1>13, <1>14

LEMMA OneMoreRowRead ==
  ASSUME NEW row \in Full, NEW rows \in Seq(Full), rows # <<>>, RowsRead(rows)
  PROVE  RowsRead(<<row>> \o rows)
<1>1. PICK n \in Seq(Sound) : /\ Tokenized[FlattenSeq(Lines(rows))] = <<LeftParen>> \o n
                              /\ Rows[n] = [ok |-> TRUE, rows |-> rows]
  BY DEF RowsRead
<1>2. n \in Seq(Tokens) /\ rows \in Seq(Filled)
  BY Wider DEF Sound
<1>3. PICK m \in Seq(Tokens) :
        /\ n \in Seq(Sound) => m \in Seq(Sound)
        /\ Tokenized[FlattenSeq(Lines(<<row>> \o rows))] = <<LeftParen>> \o m
        /\ Rows[m] = WithRow(row, Rows[n])
  BY <1>1, <1>2, RowBefore
<1>4. Rows[m] = [ok |-> TRUE, rows |-> <<row>> \o rows]
  <2> DEFINE others == Rows[n]
             v == <<row>> \o others.rows
  <2>1. others = [ok |-> TRUE, rows |-> rows]
    BY <1>1
  <2>2. Rows[m] = [others EXCEPT !.rows = v]
    BY <1>3 DEF WithRow
  <2>3. others.rows = rows
    BY <2>1
  <2>4. v = <<row>> \o rows
    BY <2>3
  <2> HIDE DEF v, others
  <2>5. others = [ok |-> others.ok, rows |-> others.rows] /\ others.ok = TRUE
    BY <2>1
  <2>6. [others EXCEPT !.rows = v] = [ok |-> others.ok, rows |-> v]
    BY <2>5
  <2> QED BY <2>2, <2>4, <2>5, <2>6
<1> QED BY <1>1, <1>3, <1>4 DEF RowsRead

LEMMA LinesAreRead == ASSUME NEW rows \in Seq(Full), rows # <<>> PROVE RowsRead(rows)
<1> DEFINE S == {r \in Seq(Full) : r # <<>> => RowsRead(r)}
<1>1. <<>> \in S
  BY EmptySeq
<1>2. ASSUME NEW row \in Full, NEW r \in Seq(Full), r \in S PROVE <<row>> \o r \in S
  <2>1. <<row>> \o r \in Seq(Full)
    BY Prepended
  <2>2. CASE r = <<>>
    <3>1. <<row>> \o r = <<row>>
      <4>1. <<row>> \in Seq(Full)
        OBVIOUS
      <4> QED BY <2>2, <4>1, ConcatEmptySeq
    <3> QED BY <2>1, <3>1, LastRowRead
  <2>3. CASE r # <<>>
    <3>1. RowsRead(<<row>> \o r)
      BY <1>2, <2>3, OneMoreRowRead
    <3> QED BY <2>1, <3>1
  <2> QED BY <2>2, <2>3
<1>3. Seq(Full) \subseteq S
  <2> HIDE DEF S
  <2>1. Grows(Full, S)
    BY <1>1, <1>2 DEF Grows
  <2> QED BY <2>1, SequenceInduction
<1> QED BY <1>3

(* The lines are not read when a row has a blob in hexadecimal. *)
RowsBroken(rows) ==
  \E m \in Seq(Tokens) :
    /\ Tokenized[FlattenSeq(Lines(rows))] = <<LeftParen>> \o m
    /\ Rows[m] \in RowsResults /\ ~Rows[m].ok

LEMMA FirstRowBroken ==
  ASSUME NEW row \in Filled, row \notin Full, NEW rows \in Seq(Filled)
  PROVE  RowsBroken(<<row>> \o rows)
<1> DEFINE text == FlattenSeq(Lines(<<row>> \o rows))
           open == "("
<1>1. \E s \in Seq(Symbols) : text = WrittenRow(row) \o s
  <2>1. CASE rows = <<>>
    <3>1. <<row>> \o rows = <<row>>
      <4>1. <<row>> \in Seq(Filled)
        OBVIOUS
      <4> QED BY <2>1, <4>1, ConcatEmptySeq
    <3>2. FlattenSeq(Lines(<<row>>)) = WrittenRow(row) \o <<";", "\n">>
      BY LinesSteps
    <3> QED BY <3>1, <3>2, EndsOfLines
  <2>2. CASE rows # <<>>
    <3> DEFINE s == <<",", "\n">> \o FlattenSeq(Lines(rows))
    <3>1. text = WrittenRow(row) \o s
      BY <2>2, LinesSteps
    <3>2. FlattenSeq(Lines(rows)) \in Seq(Symbols)
      BY LinesSteps
    <3>3. s \in Seq(Symbols)
      BY <3>2, EndsOfLines, ConcatProperties
    <3> HIDE DEF text, s
    <3> QED BY <3>1, <3>3
  <2> QED BY <2>1, <2>2
<1>2. PICK s \in Seq(Symbols) : text = WrittenRow(row) \o s
  BY <1>1
<1> DEFINE u == Closed(row, s)
           m == Tokenized[u]
           read == Row[<<m, FALSE>>]
<1>3. row \in Seq(Dumpable) /\ row \notin Seq(Writable) /\ row # <<>>
  BY DEF Full, Filled
<1>4. u \in Seq(Symbols) /\ text = <<open>> \o u
  <2>1. row[1] \in Dumpable
    BY <1>3
  <2> QED BY <1>2, <1>3, <2>1, ClosedSteps, WrittenRowBefore
<1>5. KindAt(read.rest, 1) = "Identifier"
  BY <1>3, RowsAreBroken DEF RowBroken
<1> HIDE DEF text, u
<1>6. m \in Seq(Tokens) /\ Tokenized[text] = <<LeftParen>> \o m
  BY <1>4, TokenizedDefined, SeparatorRead
<1> HIDE DEF read
<1>7. RowsOf(m, Rows) \in RowsResults /\ ~RowsOf(m, Rows).ok
  <2>1. RowsOf(m, Rows) = [ok |-> FALSE, rows |-> <<>>]
    BY <1>5 DEF RowsOf, read
  <2> QED BY <2>1, EmptySeq DEF RowsResults
<1> HIDE DEF m
<1> QED BY <1>6, <1>7, RowsDefined DEF RowsBroken, text

LEMMA OneMoreRowBroken ==
  ASSUME NEW row \in Full, NEW rows \in Seq(Filled), rows # <<>>, RowsBroken(rows)
  PROVE  RowsBroken(<<row>> \o rows)
<1>1. PICK n \in Seq(Tokens) :
        /\ Tokenized[FlattenSeq(Lines(rows))] = <<LeftParen>> \o n
        /\ Rows[n] \in RowsResults /\ ~Rows[n].ok
  BY DEF RowsBroken
<1>2. PICK m \in Seq(Tokens) :
        /\ n \in Seq(Sound) => m \in Seq(Sound)
        /\ Tokenized[FlattenSeq(Lines(<<row>> \o rows))] = <<LeftParen>> \o m
        /\ Rows[m] = WithRow(row, Rows[n])
  BY <1>1, RowBefore
<1>3. Rows[m] \in RowsResults /\ ~Rows[m].ok
  <2> DEFINE others == Rows[n]
  <2>1. others \in RowsResults /\ ~others.ok
    BY <1>1
  <2>2. row \in Seq(Values)
    <3>1. Writable \subseteq Values
      BY WritableSorts
    <3> HIDE DEF Writable, Values
    <3> QED BY <3>1 DEF Full
  <2> HIDE DEF others
  <2>3. /\ WithRow(row, others) \in RowsResults
        /\ WithRow(row, others) = [ok |-> others.ok, rows |-> <<row>> \o others.rows]
    BY <2>1, <2>2, WithRowIsRows
  <2> QED BY <1>2, <2>1, <2>3 DEF others
<1> QED BY <1>2, <1>3 DEF RowsBroken

LEMMA LinesAreBroken ==
  ASSUME NEW rows \in Seq(Filled), rows \notin Seq(Full) PROVE RowsBroken(rows)
<1> DEFINE S == {r \in Seq(Filled) : r \notin Seq(Full) => RowsBroken(r)}
<1>1. <<>> \in S
  BY EmptySeq
<1>2. ASSUME NEW row \in Filled, NEW r \in Seq(Filled), r \in S PROVE <<row>> \o r \in S
  <2>1. <<row>> \o r \in Seq(Filled)
    BY Prepended
  <2>2. CASE row \notin Full
    BY <2>1, <2>2, FirstRowBroken
  <2>3. CASE row \in Full /\ r \in Seq(Full)
    <3>1. <<row>> \o r \in Seq(Full)
      BY <2>3, Prepended
    <3> QED BY <2>1, <3>1
  <2>4. CASE row \in Full /\ r \notin Seq(Full)
    <3>1. r # <<>>
      BY <2>4, EmptySeq
    <3>2. RowsBroken(<<row>> \o r)
      BY <1>2, <2>4, <3>1, OneMoreRowBroken
    <3> QED BY <2>1, <3>2
  <2> QED BY <2>2, <2>3, <2>4
<1>3. Seq(Filled) \subseteq S
  <2> HIDE DEF S
  <2>1. Grows(Filled, S)
    BY <1>1, <1>2 DEF Grows
  <2> QED BY <2>1, SequenceInduction
<1> QED BY <1>3

-----------------------------------------------------------------------------
(* The whole statement.                                                    *)

(* A text, symbol after symbol. *)
LEMMA Peeled ==
  ASSUME NEW T, NEW s \in Seq(T), NEW k \in 0 .. Len(s), k # Len(s), NEW rest \in Seq(T)
  PROVE  /\ After(k, s) \o rest \in Seq(T) /\ After(k + 1, s) \o rest \in Seq(T)
         /\ After(k, s) \o rest = <<s[k + 1]>> \o (After(k + 1, s) \o rest)
<1> DEFINE n == k + 1
           x == s[n]
           a == After(k, s)
           b == After(n, s)
<1>1. n \in 1 .. Len(s) /\ n \in 0 .. Len(s) /\ Len(s) - k = (Len(s) - n) + 1 /\ Len(s) \in Nat
  OBVIOUS
<1>2. n = k + 1 /\ k \in Int
  OBVIOUS
<1>3. x \in T
  <2> HIDE DEF n
  <2> QED BY <1>1
<1>4. a \in Seq(T) /\ Len(a) = Len(s) - k /\ \A i \in 1 .. Len(s) - k : a[i] = s[k + i]
  BY AfterIsText, AfterAt
<1> HIDE DEF n, x
<1>5. b \in Seq(T) /\ Len(b) = Len(s) - n /\ \A i \in 1 .. Len(s) - n : b[i] = s[n + i]
  BY <1>1, AfterIsText, AfterAt
<1> HIDE DEF a, b
<1>6. Len(a) = Len(b) + 1
  BY <1>1, <1>4, <1>5
<1>7. a[1] = x
  <2>1. 1 \in 1 .. Len(s) - k
    BY <1>1
  <2> QED BY <1>2, <1>4, <2>1 DEF x
<1>8. ASSUME NEW i \in 1 .. Len(b) PROVE a[i + 1] = b[i]
  <2>1. i \in 1 .. Len(s) - n
    BY <1>5, <1>8
  <2> DEFINE l == Len(s)
  <2>2. l \in Int
    BY <1>1
  <2>3. k \in Int /\ n = k + 1
    BY <1>2
  <2>4. i \in Int /\ 1 <= i /\ i <= l - n
    BY <2>1, <2>2, <2>3
  <2> HIDE DEF l
  <2>5. i + 1 \in 1 .. l - k /\ k + (i + 1) = n + i
    BY <2>2, <2>3, <2>4
  <2> QED BY <1>4, <1>5, <2>1, <2>5 DEF l
<1>9. a = <<x>> \o b
  BY <1>3, <1>4, <1>5, <1>6, <1>7, <1>8, BuiltFrom
<1>10. <<x>> \in Seq(T)
  BY <1>3
<1>11. (<<x>> \o b) \o rest = <<x>> \o (b \o rest)
  BY <1>5, <1>10, ConcatAssociative
<1>12. a \o rest \in Seq(T) /\ b \o rest \in Seq(T)
  BY <1>4, <1>5, ConcatProperties
<1> QED BY <1>9, <1>11, <1>12 DEF a, b, x, n

LEMMA HeadIsText ==
  ASSUME NEW table \in Names
  PROVE  /\ InsertHead(table) \in Seq(Symbols) /\ Len(InsertHead(table)) = 9
         /\ InsertHead(table)[1] = "INSERT" /\ InsertHead(table)[2] = " "
         /\ InsertHead(table)[3] = "INTO" /\ InsertHead(table)[4] = " "
         /\ InsertHead(table)[5] = "backtick" /\ InsertHead(table)[6] = table
         /\ InsertHead(table)[7] = "backtick" /\ InsertHead(table)[8] = " "
         /\ InsertHead(table)[9] = "VALUES"
<1> DEFINE a == "INSERT"
           b == " "
           c == "INTO"
           d == "backtick"
           e == "VALUES"
           head == <<a, b, c, b, d, table, d, b, e>>
<1>1. a \in Symbols /\ b \in Symbols /\ c \in Symbols /\ d \in Symbols /\ e \in Symbols
      /\ table \in Symbols
  BY SymbolsAssumption DEF SymbolsAssumption, Special, Punctuation, Blank, Keywords
<1>2. InsertHead(table) = head
  BY DEF InsertHead
<1> HIDE DEF a, b, c, d, e
<1>3. /\ head \in Seq(Symbols) /\ Len(head) = 9
      /\ head[1] = a /\ head[2] = b /\ head[3] = c /\ head[4] = b /\ head[5] = d
      /\ head[6] = table /\ head[7] = d /\ head[8] = b /\ head[9] = e
  BY <1>1
<1> HIDE DEF head
<1> QED BY <1>2, <1>3 DEF a, b, c, d, e

(* A text of words and punctuation with three blanks between them. *)
LEMMA HeadChain ==
  ASSUME NEW head \in Seq(Symbols), Len(head) = 9, NEW rest \in Seq(Symbols),
         head[1] \in Plain, head[2] \in Blank, head[3] \in Plain, head[4] \in Blank,
         head[5] \in Plain, head[6] \in Plain, head[7] \in Plain, head[8] \in Blank,
         head[9] \in Plain
  PROVE  Tokenized[head \o rest]
           = <<TokenOf(head[1])>> \o (<<TokenOf(head[3])>> \o (<<TokenOf(head[5])>>
             \o (<<TokenOf(head[6])>> \o (<<TokenOf(head[7])>>
             \o (<<TokenOf(head[9])>> \o Tokenized[rest])))))
<1> DEFINE U(k) == After(k, head) \o rest
<1>1. ASSUME NEW k \in 0 .. 8
      PROVE  U(k + 1) \in Seq(Symbols) /\ U(k) = <<head[k + 1]>> \o U(k + 1)
  <2>1. k \in 0 .. Len(head) /\ k # Len(head)
    OBVIOUS
  <2> QED BY <2>1, Peeled
<1>2. U(0) = head \o rest /\ U(9) = rest
  <2>1. 0 \in 0 .. Len(head) /\ 9 \in 0 .. Len(head)
    OBVIOUS
  <2>2. After(0, head) = head
    <3> DEFINE all == After(0, head)
    <3>1. all \in Seq(Symbols) /\ Len(all) = Len(head) - 0
          /\ \A i \in 1 .. Len(head) - 0 : all[i] = head[0 + i]
      BY <2>1, AfterIsText, AfterAt
    <3> HIDE DEF all
    <3>2. Len(all) = Len(head) /\ \A i \in 1 .. Len(all) : all[i] = head[i]
      BY <3>1
    <3>3. all = head
      BY <3>1, <3>2, SeqEqual
    <3> QED BY <3>3 DEF all
  <2>3. After(9, head) \in Seq(Symbols) /\ Len(After(9, head)) = Len(head) - 9
    BY <2>1, AfterIsText
  <2>4. After(9, head) = <<>>
    <3> DEFINE none == After(9, head)
    <3> HIDE DEF none
    <3>1. none \in Seq(Symbols) /\ Len(none) = 0
      BY <2>3 DEF none
    <3>2. none = <<>>
      BY <3>1
    <3> QED BY <3>2 DEF none
  <2>5. <<>> \o rest = rest
    BY ConcatEmptySeq
  <2> QED BY <2>2, <2>4, <2>5
<1> HIDE DEF U
<1>3. ASSUME NEW k \in 0 .. 8, NEW n, n = k + 1
      PROVE  /\ head[n] \in Plain => Tokenized[U(k)] = <<TokenOf(head[n])>> \o Tokenized[U(n)]
             /\ head[n] \in Blank => Tokenized[U(k)] = Tokenized[U(n)]
  <2> DEFINE x == head[n]
             u == U(n)
  <2>1. u \in Seq(Symbols) /\ U(k) = <<x>> \o u
    BY <1>1, <1>3
  <2> HIDE DEF x, u
  <2>2. x \in Plain => Tokenized[<<x>> \o u] = <<TokenOf(x)>> \o Tokenized[u]
    BY <2>1, SymbolRead
  <2>3. x \in Blank => Tokenized[<<x>> \o u] = Tokenized[u]
    BY <2>1, BlankRead
  <2> QED BY <2>1, <2>2, <2>3 DEF x, u
<1>4. /\ 1 = 0 + 1 /\ 2 = 1 + 1 /\ 3 = 2 + 1 /\ 4 = 3 + 1 /\ 5 = 4 + 1
      /\ 6 = 5 + 1 /\ 7 = 6 + 1 /\ 8 = 7 + 1 /\ 9 = 8 + 1
      /\ {0, 1, 2, 3, 4, 5, 6, 7, 8} \subseteq 0 .. 8
  OBVIOUS
<1>5. /\ Tokenized[U(1)] = Tokenized[U(2)]
      /\ Tokenized[U(3)] = Tokenized[U(4)]
      /\ Tokenized[U(7)] = Tokenized[U(8)]
  BY <1>3, <1>4
<1>6. /\ Tokenized[U(0)] = <<TokenOf(head[1])>> \o Tokenized[U(1)]
      /\ Tokenized[U(2)] = <<TokenOf(head[3])>> \o Tokenized[U(3)]
      /\ Tokenized[U(4)] = <<TokenOf(head[5])>> \o Tokenized[U(5)]
  BY <1>3, <1>4
<1>7. /\ Tokenized[U(5)] = <<TokenOf(head[6])>> \o Tokenized[U(6)]
      /\ Tokenized[U(6)] = <<TokenOf(head[7])>> \o Tokenized[U(7)]
      /\ Tokenized[U(8)] = <<TokenOf(head[9])>> \o Tokenized[U(9)]
  BY <1>3, <1>4
<1> QED BY ONLY <1>2, <1>5, <1>6, <1>7, Zenon

NameToken(table) == Token("Identifier", <<table>>)
Backtick == Token("Backtick", <<>>)

(* The tokens of the head, and those of the text behind it. *)
LEMMA HeadRead ==
  ASSUME NEW table \in Names, NEW rest \in Seq(Symbols)
  PROVE  Tokenized[InsertHead(table) \o rest]
           = <<Token("Insert", <<>>)>> \o (<<Token("Into", <<>>)>> \o (<<Backtick>>
             \o (<<NameToken(table)>> \o (<<Backtick>>
             \o (<<Token("Values", <<>>)>> \o Tokenized[rest])))))
<1> DEFINE head == InsertHead(table)
<1>1. head \in Seq(Symbols) /\ Len(head) = 9
  BY HeadIsText
<1>2. /\ head[1] = "INSERT" /\ head[2] = " " /\ head[3] = "INTO" /\ head[4] = " "
      /\ head[5] = "backtick" /\ head[6] = table /\ head[7] = "backtick"
      /\ head[8] = " " /\ head[9] = "VALUES"
  BY HeadIsText
<1> HIDE DEF head
<1>3. table \in Plain /\ TokenOf(table) = NameToken(table)
  BY SortsApart, RunsAssumption DEF RunsAssumption, Special, Plain, TokenOf, Word, NameToken
<1>4. " " \in Blank
  BY DEF Blank
<1>5. /\ head[1] \in Plain /\ head[2] \in Blank /\ head[3] \in Plain /\ head[4] \in Blank
      /\ head[5] \in Plain /\ head[6] \in Plain /\ head[7] \in Plain /\ head[8] \in Blank
      /\ head[9] \in Plain
  BY <1>2, <1>3, <1>4, KeywordRead, PunctuationRead
<1>6. /\ TokenOf(head[1]) = Token("Insert", <<>>) /\ TokenOf(head[3]) = Token("Into", <<>>)
      /\ TokenOf(head[5]) = Backtick /\ TokenOf(head[6]) = NameToken(table)
      /\ TokenOf(head[7]) = Backtick /\ TokenOf(head[9]) = Token("Values", <<>>)
  BY <1>2, <1>3, KeywordRead, PunctuationRead DEF Backtick
<1>7. Tokenized[head \o rest]
        = <<TokenOf(head[1])>> \o (<<TokenOf(head[3])>> \o (<<TokenOf(head[5])>>
          \o (<<TokenOf(head[6])>> \o (<<TokenOf(head[7])>>
          \o (<<TokenOf(head[9])>> \o Tokenized[rest])))))
  BY <1>1, <1>5, HeadChain
<1> QED BY <1>6, <1>7, Zenon DEF head

(* Tokens before others. *)
LEMMA SomeBefore ==
  ASSUME NEW s \in Seq(Tokens), NEW m \in Seq(Tokens)
  PROVE  /\ s \o m \in Seq(Tokens)
         /\ \A i \in 1 .. Len(s) : (s \o m)[i] = s[i] /\ KindAt(s \o m, i) = s[i].kind
         /\ After(Len(s), s \o m) = m
<1> DEFINE t == s \o m
           n == Len(s)
<1>1. /\ t \in Seq(Tokens) /\ Len(t) = n + Len(m) /\ n \in Nat /\ Len(m) \in Nat
      /\ \A i \in 1 .. n + Len(m) : t[i] = IF i <= n THEN s[i] ELSE m[i - n]
  BY ConcatProperties
<1> HIDE DEF t, n
<1>2. ASSUME NEW i \in 1 .. n PROVE t[i] = s[i] /\ KindAt(t, i) = s[i].kind
  <2>1. i \in 1 .. n + Len(m) /\ i <= n
    BY <1>1
  <2>2. i \in DOMAIN t
    BY <1>1, <2>1
  <2> QED BY <1>1, <2>1, <2>2 DEF KindAt
<1>3. After(n, t) = m
  <2> DEFINE a == After(n, t)
  <2>1. n \in 0 .. Len(t) /\ Len(t) - n = Len(m)
    BY <1>1
  <2>2. a \in Seq(Tokens) /\ Len(a) = Len(t) - n /\ \A i \in 1 .. Len(t) - n : a[i] = t[n + i]
    BY <1>1, <2>1, AfterIsText, AfterAt
  <2> HIDE DEF a
  <2>3. ASSUME NEW i \in 1 .. Len(m) PROVE a[i] = m[i]
    <3>1. n + i \in 1 .. n + Len(m) /\ ~(n + i <= n) /\ (n + i) - n = i
      BY <1>1
    <3> QED BY <1>1, <2>1, <2>2, <3>1
  <2>4. a = m
    BY <2>1, <2>2, <2>3, SeqEqual
  <2> QED BY <2>4 DEF a
<1> QED BY <1>1, <1>2, <1>3 DEF t, n

LEMMA SevenBefore ==
  ASSUME NEW s \in Seq(Tokens), Len(s) = 7, NEW m \in Seq(Tokens)
  PROVE  s \o m = <<s[1]>> \o (<<s[2]>> \o (<<s[3]>> \o (<<s[4]>> \o (<<s[5]>>
                  \o (<<s[6]>> \o (<<s[7]>> \o m))))))
<1> DEFINE U(k) == After(k, s) \o m
<1>1. ASSUME NEW k \in 0 .. 6, NEW n, n = k + 1 PROVE U(k) = <<s[n]>> \o U(n)
  <2>1. k \in 0 .. Len(s) /\ k # Len(s)
    OBVIOUS
  <2>2. U(k) = <<s[k + 1]>> \o U(k + 1)
    BY <2>1, Peeled
  <2> QED BY <1>1, <2>2
<1>2. U(0) = s \o m /\ U(7) = m
  <2>1. 0 \in 0 .. Len(s) /\ 7 \in 0 .. Len(s)
    OBVIOUS
  <2>2. After(0, s) = s
    <3> DEFINE all == After(0, s)
    <3>1. all \in Seq(Tokens) /\ Len(all) = Len(s) - 0
          /\ \A i \in 1 .. Len(s) - 0 : all[i] = s[0 + i]
      BY <2>1, AfterIsText, AfterAt
    <3> HIDE DEF all
    <3>2. Len(all) = Len(s) /\ \A i \in 1 .. Len(all) : all[i] = s[i]
      BY <3>1
    <3>3. all = s
      BY <3>1, <3>2, SeqEqual
    <3> QED BY <3>3 DEF all
  <2>3. After(7, s) \in Seq(Tokens) /\ Len(After(7, s)) = Len(s) - 7
    BY <2>1, AfterIsText
  <2>4. After(7, s) = <<>>
    <3> DEFINE none == After(7, s)
    <3> HIDE DEF none
    <3>1. none \in Seq(Tokens) /\ Len(none) = 0
      BY <2>3 DEF none
    <3>2. none = <<>>
      BY <3>1
    <3> QED BY <3>2 DEF none
  <2>5. <<>> \o m = m
    BY ConcatEmptySeq
  <2> QED BY <2>2, <2>4, <2>5
<1> HIDE DEF U
<1>3. /\ 1 = 0 + 1 /\ 2 = 1 + 1 /\ 3 = 2 + 1 /\ 4 = 3 + 1 /\ 5 = 4 + 1 /\ 6 = 5 + 1
      /\ 7 = 6 + 1 /\ {0, 1, 2, 3, 4, 5, 6} \subseteq 0 .. 6
  OBVIOUS
<1>4. U(0) = <<s[1]>> \o U(1) /\ U(1) = <<s[2]>> \o U(2) /\ U(2) = <<s[3]>> \o U(3)
  BY <1>1, <1>3
<1>5. U(3) = <<s[4]>> \o U(4) /\ U(4) = <<s[5]>> \o U(5)
  BY <1>1, <1>3
<1>6. U(5) = <<s[6]>> \o U(6) /\ U(6) = <<s[7]>> \o U(7)
  BY <1>1, <1>3
<1> QED BY ONLY <1>2, <1>4, <1>5, <1>6, Zenon

LEMMA HeadTokens ==
  ASSUME NEW table \in Names
  PROVE  /\ {Token("Insert", <<>>), Token("Into", <<>>), Backtick, NameToken(table),
             Token("Values", <<>>), LeftParen} \subseteq Sound
         /\ NameToken(table).text = <<table>>
<1>1. {"Insert", "Into", "Values", "Backtick", "Identifier", "LeftParen"} \subseteq Kinds
  <2>1. DOMAIN Keywords = {"INSERT", "INTO", "VALUES", "NULL", "_binary"}
        /\ Keywords["INSERT"] = "Insert" /\ Keywords["INTO"] = "Into"
        /\ Keywords["VALUES"] = "Values"
    BY DEF Keywords
  <2>2. DOMAIN Punctuation = {"(", ")", ",", ";", "backtick", "."}
        /\ Punctuation["backtick"] = "Backtick" /\ Punctuation["("] = "LeftParen"
    BY DEF Punctuation
  <2> QED BY <2>1, <2>2 DEF Kinds, Range
<1>2. <<table>> \in Seq(Symbols)
  <2>1. table \in Symbols
    BY SymbolsAssumption DEF SymbolsAssumption
  <2> QED BY <2>1
<1> QED BY <1>1, <1>2, EmptySeq DEF Token, Tokens, Sound, Backtick, NameToken, LeftParen

(* The head of a statement before the tokens m of its rows. *)
Headed(tokens, table, m) ==
  /\ KindAt(tokens, 1) = "Insert" /\ KindAt(tokens, 2) = "Into"
  /\ KindAt(tokens, 3) = "Backtick" /\ KindAt(tokens, 4) = "Identifier"
  /\ KindAt(tokens, 5) = "Backtick" /\ KindAt(tokens, 6) = "Values"
  /\ KindAt(tokens, 6 + 1) = "LeftParen" /\ After(6 + 1, tokens) = m
  /\ tokens[4].text = <<table>>
  /\ m \in Seq(Sound) => \A i \in DOMAIN tokens : tokens[i].kind # "Error"

LEMMA StatementRead ==
  ASSUME NEW table \in Names, NEW rows \in Seq(Filled), rows # <<>>, NEW m \in Seq(Tokens),
         Tokenized[FlattenSeq(Lines(rows))] = <<LeftParen>> \o m
  PROVE  Headed(Tokenized[FlattenSeq(InsertLines(table, rows))], table, m)
<1> DEFINE text == FlattenSeq(InsertLines(table, rows))
           lines == FlattenSeq(Lines(rows))
           head == InsertHead(table)
           end == "\n"
           insert == Token("Insert", <<>>)
           into == Token("Into", <<>>)
           name == NameToken(table)
           values == Token("Values", <<>>)
           tokens == Tokenized[text]
<1>1. Tokenized[lines] = <<LeftParen>> \o m
  OBVIOUS
<1>2. lines \in Seq(Symbols) /\ Lines(rows) \in Seq(Seq(Symbols))
  <2>1. rows[1] \in Filled
    OBVIOUS
  <2> QED BY <2>1, LinesSteps, LinesAreTexts
<1>3. end \in Symbols /\ end \in Blank
  BY SymbolsAssumption DEF SymbolsAssumption, Special, Blank
<1>4. head \in Seq(Symbols)
  BY HeadIsText
<1>5. InsertLines(table, rows) = <<head \o <<end>> >> \o Lines(rows)
  BY DEF InsertLines, Lines
<1> HIDE DEF lines, head, end
<1>6. text = head \o (<<end>> \o lines)
  <2>1. <<end>> \in Seq(Symbols)
    BY <1>3
  <2>2. head \o <<end>> \in Seq(Symbols)
    BY <1>4, <2>1, ConcatProperties
  <2>3. text = (head \o <<end>>) \o lines
    BY <1>2, <1>5, <2>2, FlattenCons DEF lines
  <2> HIDE DEF text
  <2> QED BY <1>2, <1>4, <2>1, <2>3, ConcatAssociative
<1>7. <<end>> \o lines \in Seq(Symbols) /\ Tokenized[<<end>> \o lines] = <<LeftParen>> \o m
  BY <1>1, <1>2, <1>3, BlankRead
<1> DEFINE first == <<insert, into, Backtick, name, Backtick, values, LeftParen>>
<1>8. {insert, into, Backtick, name, values, LeftParen} \subseteq Sound /\ Sound \subseteq Tokens
      /\ name.text = <<table>>
  BY HeadTokens DEF Sound
<1>9. /\ insert.kind = "Insert" /\ into.kind = "Into" /\ Backtick.kind = "Backtick"
      /\ name.kind = "Identifier" /\ values.kind = "Values" /\ LeftParen.kind = "LeftParen"
  BY DEF Token, Backtick, NameToken, LeftParen
<1>10. Tokenized[head \o (<<end>> \o lines)]
         = <<insert>> \o (<<into>> \o (<<Backtick>> \o (<<name>> \o (<<Backtick>>
           \o (<<values>> \o (<<LeftParen>> \o m))))))
  BY <1>7, HeadRead DEF head
<1> HIDE DEF text, insert, into, name, values
<1>11. first \in Seq(Sound) /\ first \in Seq(Tokens) /\ Len(first) = 7
  BY <1>8
<1>12. /\ first[1] = insert /\ first[2] = into /\ first[3] = Backtick /\ first[4] = name
       /\ first[5] = Backtick /\ first[6] = values /\ first[7] = LeftParen
  BY <1>8
<1> HIDE DEF first
<1>13. m \in Seq(Tokens)
  OBVIOUS
<1>14. tokens = first \o m
  <2>1. first \o m = <<first[1]>> \o (<<first[2]>> \o (<<first[3]>> \o (<<first[4]>>
                     \o (<<first[5]>> \o (<<first[6]>> \o (<<first[7]>> \o m))))))
    BY <1>11, <1>13, SevenBefore
  <2>2. first \o m = <<insert>> \o (<<into>> \o (<<Backtick>> \o (<<name>> \o (<<Backtick>>
                     \o (<<values>> \o (<<LeftParen>> \o m))))))
    BY ONLY <1>12, <2>1, Zenon
  <2> QED BY <1>6, <1>10, <2>2
<1>15. ASSUME m \in Seq(Sound) PROVE \A i \in DOMAIN tokens : tokens[i].kind # "Error"
  <2>1. tokens \in Seq(Sound)
    <3> HIDE DEF tokens
    <3> QED BY <1>11, <1>14, <1>15, ConcatProperties
  <2> HIDE DEF tokens
  <2>2. \A i \in DOMAIN tokens : tokens[i] \in Sound
    BY <2>1
  <2> QED BY <2>2 DEF Sound
<1>16. tokens = Tokenized[text]
  OBVIOUS
<1> HIDE DEF tokens
<1>17. /\ \A i \in 1 .. 7 : tokens[i] = first[i] /\ KindAt(tokens, i) = first[i].kind
       /\ After(7, tokens) = m
  <2>1. /\ \A i \in 1 .. Len(first) : (first \o m)[i] = first[i]
                                      /\ KindAt(first \o m, i) = first[i].kind
        /\ After(Len(first), first \o m) = m
    BY <1>11, <1>13, SomeBefore
  <2> QED BY <1>11, <1>14, <2>1
<1>18. /\ KindAt(tokens, 1) = first[1].kind /\ KindAt(tokens, 2) = first[2].kind
       /\ KindAt(tokens, 3) = first[3].kind /\ KindAt(tokens, 4) = first[4].kind
       /\ KindAt(tokens, 5) = first[5].kind /\ KindAt(tokens, 6) = first[6].kind
       /\ KindAt(tokens, 6 + 1) = first[7].kind /\ tokens[4] = first[4]
       /\ After(6 + 1, tokens) = m
  BY <1>17
<1>19. /\ KindAt(tokens, 1) = "Insert" /\ KindAt(tokens, 2) = "Into"
       /\ KindAt(tokens, 3) = "Backtick" /\ KindAt(tokens, 4) = "Identifier"
       /\ KindAt(tokens, 5) = "Backtick" /\ KindAt(tokens, 6) = "Values"
       /\ KindAt(tokens, 6 + 1) = "LeftParen" /\ After(6 + 1, tokens) = m
       /\ tokens[4].text = <<table>>
  BY ONLY <1>8, <1>9, <1>12, <1>18, Zenon
<1> QED BY <1>15, <1>16, <1>19 DEF Headed, text

(* A dumped INSERT statement parses, for every name of a table and all rows:
   the parser finds the table, and the rows that were written. *)
THEOREM InsertReadBack ==
  ASSUME NEW table \in Names, NEW rows \in Seq(Full), rows # <<>>
  PROVE  ParseInsert(FlattenSeq(InsertLines(table, rows)))
           = [ok |-> TRUE, table |-> table, rows |-> rows]
<1> DEFINE text == FlattenSeq(InsertLines(table, rows))
           tokens == Tokenized[text]
<1>1. PICK m \in Seq(Sound) : /\ Tokenized[FlattenSeq(Lines(rows))] = <<LeftParen>> \o m
                              /\ Rows[m] = [ok |-> TRUE, rows |-> rows]
  BY LinesAreRead DEF RowsRead
<1>2. m \in Seq(Tokens) /\ rows \in Seq(Filled)
  BY Wider DEF Sound
<1>3. Headed(tokens, table, m)
  BY <1>1, <1>2, StatementRead
<1> HIDE DEF text
<1>4. Rows[m].ok /\ Rows[m].rows = rows
  BY <1>1
<1>5. ParseInsert(text) = [ok |-> TRUE, table |-> tokens[4].text[1], rows |-> Rows[m].rows]
  BY <1>3, <1>4 DEF ParseInsert, Headed
<1>6. tokens[4].text[1] = table
  <2>1. <<table>>[1] = table
    OBVIOUS
  <2> QED BY <1>3, <2>1 DEF Headed
<1> QED BY <1>4, <1>5, <1>6 DEF text

(* A statement with a blob in hexadecimal does not. *)
THEOREM HexRefused ==
  ASSUME NEW table \in Names, NEW rows \in RowsOver(Dumpable), rows \notin Seq(Full)
  PROVE  ~ParseInsert(FlattenSeq(InsertLines(table, rows))).ok
<1> DEFINE text == FlattenSeq(InsertLines(table, rows))
           tokens == Tokenized[text]
<1>1. rows \in Seq(Filled) /\ rows # <<>>
  BY DEF RowsOver, Filled
<1>2. PICK m \in Seq(Tokens) : /\ Tokenized[FlattenSeq(Lines(rows))] = <<LeftParen>> \o m
                               /\ ~Rows[m].ok
  BY <1>1, LinesAreBroken DEF RowsBroken
<1>3. Headed(tokens, table, m)
  BY <1>1, <1>2, StatementRead
<1> HIDE DEF text
<1> DEFINE none == ""
           refused == [ok |-> FALSE, table |-> none, rows |-> <<>>]
<1>4. ParseInsert(text) = refused
  BY <1>2, <1>3 DEF ParseInsert, Headed
<1>5. ~refused.ok
  <2> HIDE DEF none
  <2> QED OBVIOUS
<1> HIDE DEF refused
<1> QED BY <1>4, <1>5 DEF text

(* What mysqldump escapes the lexer reads back: the rows that parse_insert_sql
   makes of a dumped statement are the dumped rows. *)
THEOREM DumpedRowsReadBack == RowsParse
<1> SUFFICES ASSUME NEW table \in Names, NEW rows \in DumpedRows
             PROVE  ParseInsert(FlattenSeq(InsertLines(table, rows)))
                      = [ok |-> TRUE, table |-> table, rows |-> rows]
  BY DEF RowsParse
<1>1. rows \in Seq(Full) /\ rows # <<>>
  BY DumpedRowsAssumption DEF DumpedRowsAssumption, Full, RowsOver
<1> QED BY <1>1, InsertReadBack
=============================================================================
