------------------------- MODULE InsertLexer_proofs -------------------------
(***************************************************************************)
(* Proofs about the lexer of InsertSyntax, for texts of any length and     *)
(* content: tokenize comes to an end, and a literal that mysqldump writes  *)
(* is read back.  The first part is about sequences.                       *)
(***************************************************************************)
EXTENDS InsertSyntax, SetInduction, SequenceTheorems

-----------------------------------------------------------------------------
(* Sequences.                                                              *)

(* The places of a flattened sequence, one of its sequences after the other. *)
LEMMA Flattening ==
  ASSUME NEW T, NEW s \in Seq(Seq(T)), s # <<>>
  PROVE  \E f \in [1 .. Len(s) -> Seq(T)] :
           /\ FlattenSeq(s) = f[Len(s)]
           /\ \A i \in 1 .. Len(s) : f[i] = IF i = 1 THEN s[i] ELSE f[i - 1] \o s[i]
<1> DEFINE D == 1 .. Len(s)
           V == Seq(T)
           rank == [i \in D |-> i]
           body(g, i) == IF i = 1 THEN s[i] ELSE g[i - 1] \o s[i]
           step == [g \in [D -> V] |-> [i \in D |-> body(g, i)]]
<1>1. ASSUME NEW g, NEW i \in D, \A j \in D : j < i => g[j] \in V
      PROVE  body(g, i) \in V
  <2>1. s[i] \in Seq(T)
    OBVIOUS
  <2>2. CASE i # 1
    <3>1. i - 1 \in D /\ i - 1 < i
      BY <2>2
    <3>2. g[i - 1] \in Seq(T)
      BY <1>1, <3>1
    <3> QED BY <2>1, <2>2, <3>2
  <2> QED BY <2>1, <2>2
<1>2. rank \in [D -> Nat]
  OBVIOUS
<1>3. step \in [[D -> V] -> [D -> V]]
  <2> HIDE DEF V, D, body
  <2>1. \A g \in [D -> V] : \A i \in D : body(g, i) \in V
    BY <1>1
  <2> QED BY <2>1
<1>4. Falls(D, V, rank, step)
  <2> SUFFICES ASSUME NEW g \in [D -> V], NEW h \in [D -> V], NEW i \in D,
                      \A j \in D : rank[j] < rank[i] => g[j] = h[j]
               PROVE  step[g][i] = step[h][i]
    BY DEF Falls
  <2>1. step[g][i] = body(g, i) /\ step[h][i] = body(h, i)
    OBVIOUS
  <2>2. i # 1 => i - 1 \in D /\ rank[i - 1] < rank[i]
    OBVIOUS
  <2> QED BY <2>1, <2>2
<1>5. V # {}
  BY EmptySeq
<1>6. PICK found \in [D -> V] : found = step[found]
  <2> HIDE DEF D, V, rank, step, body
  <2>1. WellDefined(D, V, rank, step)
    BY <1>2, <1>3, <1>4, <1>5 DEF WellDefined
  <2> QED BY <2>1, Recursion
<1>7. found = [i \in D |-> body(found, i)]
  BY <1>6
<1> DEFINE f == CHOOSE f : f = [i \in D |-> body(f, i)]
<1>8. f = [i \in D |-> body(f, i)]
  BY <1>7
<1>9. FlattenSeq(s) = f[Len(s)]
  <2>1. Len(s) # 0
    OBVIOUS
  <2> QED BY <2>1 DEF FlattenSeq
<1> HIDE DEF f
<1>10. D \subseteq {i \in D : f[i] \in V}
  <2> DEFINE S == {i \in D : f[i] \in V}
  <2>1. ASSUME NEW i \in D, \A j \in D : rank[j] < rank[i] => j \in S PROVE i \in S
    <3>1. \A j \in D : j < i => f[j] \in V
      BY <2>1
    <3>2. body(f, i) \in V
      BY <1>1, <3>1
    <3> QED BY <1>8, <3>2
  <2>2. D \subseteq S
    <3> HIDE DEF D, V, rank, S, body
    <3>1. Rises(D, rank, S)
      BY <1>2, <2>1 DEF Rises
    <3> QED BY <3>1, RankInduction
  <2> QED BY <2>2
<1>11. f \in [D -> V] /\ \A i \in D : f[i] = body(f, i)
  BY <1>8, <1>10
<1> QED BY <1>9, <1>11

LEMMA FlattenedIsText ==
  ASSUME NEW T, NEW s \in Seq(Seq(T)) PROVE FlattenSeq(s) \in Seq(T)
<1>1. CASE s = <<>>
  BY <1>1, EmptySeq DEF FlattenSeq
<1>2. CASE s # <<>>
  <2>1. Len(s) \in 1 .. Len(s)
    BY <1>2
  <2> QED BY <1>2, <2>1, Flattening
<1> QED BY <1>1, <1>2

(* A symbol and the sequence that it stands before. *)
IsCons(t, x, s) ==
  /\ t # <<>> /\ Len(t) = Len(s) + 1
  /\ t[1] = x
  /\ \A i \in 1 .. Len(s) : t[i + 1] = s[i]
  /\ After(1, t) = s

LEMMA Prepended ==
  ASSUME NEW T, NEW x \in T, NEW s \in Seq(T)
  PROVE  <<x>> \o s \in Seq(T) /\ IsCons(<<x>> \o s, x, s)
<1> DEFINE t == <<x>> \o s
<1>1. t \in Seq(T) /\ Len(t) = Len(s) + 1 /\ t[1] = x
  OBVIOUS
<1>2. \A i \in 2 .. Len(s) + 1 : t[i] = s[i - 1]
  OBVIOUS
<1> HIDE DEF t
<1>3. \A i \in 1 .. Len(s) : t[i + 1] = s[i]
  BY <1>2
<1>4. After(1, t) \in Seq(T) /\ Len(After(1, t)) = Len(s)
        /\ \A i \in 1 .. Len(s) : After(1, t)[i] = t[i + 1]
  BY <1>1 DEF After
<1>5. After(1, t) = s
  BY <1>3, <1>4
<1>6. t # <<>>
  BY <1>1
<1> QED BY <1>1, <1>3, <1>5, <1>6 DEF t, IsCons

(* A flattened sequence begins with the first one of its sequences. *)
LEMMA FlattenCons ==
  ASSUME NEW T, NEW x \in Seq(T), NEW s \in Seq(Seq(T))
  PROVE  FlattenSeq(<<x>> \o s) = x \o FlattenSeq(s)
<1> DEFINE t == <<x>> \o s
<1>1. t \in Seq(Seq(T)) /\ t # <<>> /\ Len(t) = Len(s) + 1 /\ t[1] = x
        /\ \A i \in 1 .. Len(s) : t[i + 1] = s[i]
  <2>1. t \in Seq(Seq(T)) /\ IsCons(t, x, s)
    BY Prepended
  <2> HIDE DEF t
  <2> QED BY <2>1 DEF IsCons
<1> HIDE DEF t
<1>2. PICK f \in [1 .. Len(t) -> Seq(T)] :
        /\ FlattenSeq(t) = f[Len(t)]
        /\ \A i \in 1 .. Len(t) : f[i] = IF i = 1 THEN t[i] ELSE f[i - 1] \o t[i]
  BY <1>1, Flattening
<1>3. f[1] = x
  BY <1>1, <1>2
<1>4. CASE s = <<>>
  <2>1. FlattenSeq(s) = <<>> /\ Len(t) = 1
    BY <1>1, <1>4 DEF FlattenSeq
  <2> QED BY <1>2, <1>3, <2>1 DEF t
<1>5. CASE s # <<>>
  <2>1. PICK h \in [1 .. Len(s) -> Seq(T)] :
          /\ FlattenSeq(s) = h[Len(s)]
          /\ \A i \in 1 .. Len(s) : h[i] = IF i = 1 THEN s[i] ELSE h[i - 1] \o s[i]
    BY <1>5, Flattening
  <2> DEFINE D == 1 .. Len(s)
             rank == [i \in D |-> i]
             S == {i \in D : f[i + 1] = x \o h[i]}
  <2>2. ASSUME NEW i \in D, \A j \in D : j < i => j \in S PROVE i \in S
    <3>1. f[i + 1] = f[i] \o s[i]
      <4>1. i + 1 \in 1 .. Len(t) /\ i + 1 # 1 /\ (i + 1) - 1 = i
        BY <1>1
      <4>2. f[i + 1] = f[(i + 1) - 1] \o t[i + 1]
        BY <1>2, <4>1
      <4> QED BY <1>1, <4>1, <4>2
    <3>2. CASE i = 1
      BY <1>3, <2>1, <3>1, <3>2
    <3>3. CASE i # 1
      <4>1. i - 1 \in D /\ i - 1 < i /\ (i - 1) + 1 = i
        BY <3>3
      <4>2. f[i] = x \o h[i - 1]
        BY <2>2, <4>1
      <4>3. h[i] = h[i - 1] \o s[i]
        BY <2>1, <3>3
      <4> DEFINE u == h[i - 1]
                 v == s[i]
      <4>4. u \in Seq(T)
        BY <2>1, <4>1
      <4>5. v \in Seq(T)
        OBVIOUS
      <4>6. (x \o u) \o v = x \o (u \o v)
        <5> HIDE DEF u, v, D, S, rank
        <5> QED BY <4>4, <4>5, ConcatAssociative
      <4> QED BY <3>1, <4>2, <4>3, <4>6
    <3> QED BY <3>2, <3>3
  <2>3. Rises(D, rank, S)
    <3>1. rank \in [D -> Nat] /\ \A i \in D : rank[i] = i
      OBVIOUS
    <3> HIDE DEF D, rank, S
    <3> QED BY <2>2, <3>1 DEF Rises
  <2>4. D \subseteq S
    BY <2>3, RankInduction
  <2>5. Len(s) \in D /\ Len(t) = Len(s) + 1
    BY <1>1, <1>5
  <2> QED BY <1>2, <2>1, <2>4, <2>5 DEF t
<1> QED BY <1>4, <1>5

LEMMA AfterIsText ==
  ASSUME NEW T, NEW s \in Seq(T), NEW k \in 0 .. Len(s)
  PROVE  After(k, s) \in Seq(T) /\ Len(After(k, s)) = Len(s) - k
<1>1. k + 1 \in 1 .. Len(s) + 1 /\ Len(s) \in Nat
  OBVIOUS
<1> QED BY <1>1 DEF After

-----------------------------------------------------------------------------
(* String literals.                                                        *)

Literals == [text : Seq(Symbols), rest : Seq(Symbols)]

LEMMA UnescapedIsSymbol ==
  ASSUME NEW c \in Symbols PROVE Unescaped(c) \in Symbols
<1>1. CASE c \in {"0", "b", "Z", "n", "r", "t"}
  <2>1. Unescaped(c) \in {"NUL", "BS", "SUB", "\n", "\r", "\t"}
    BY <1>1 DEF Unescaped
  <2> QED BY <2>1, SymbolsAssumption DEF SymbolsAssumption, Special, Blank
<1>2. CASE c \notin {"0", "b", "Z", "n", "r", "t"}
  <2>1. Unescaped(c) = c
    BY <1>2 DEF Unescaped
  <2> QED BY <2>1
<1> QED BY <1>1, <1>2

(* The lexer is at the end of the literal, or goes on behind the next character
   of it, or passes over an escape that is none. *)
LEMMA LiteralSteps ==
  ASSUME NEW input \in Seq(Symbols)
  PROVE  \E k \in 0 .. Len(input) :
           \/ \A g : LiteralOf(input, g) = [text |-> <<>>, rest |-> After(k, input)]
           \/ k > 0 /\ \E c \in Symbols :
                \A g : LiteralOf(input, g) = Push(c, g[After(k, input)])
           \/ k > 0 /\ \A g : LiteralOf(input, g) = g[After(k, input)]
<1> DEFINE n == Len(input)
<1>1. n \in Nat /\ \A i \in 1 .. n : input[i] \in Symbols
  OBVIOUS
<1> HIDE DEF n
<1> DEFINE Ends(k) == \A g : LiteralOf(input, g) = [text |-> <<>>, rest |-> After(k, input)]
           Pushes(k, c) == \A g : LiteralOf(input, g) = Push(c, g[After(k, input)])
           Passes(k) == \A g : LiteralOf(input, g) = g[After(k, input)]
<1>2. CASE n = 0
  <2>1. Ends(0)
    BY <1>2 DEF LiteralOf, n
  <2> QED BY <1>1, <2>1 DEF n
<1>3. CASE n > 0 /\ input[1] = "'"
  <2>1. CASE n > 1 /\ input[2] = "'"
    <3>1. Pushes(2, "'")
      BY <1>3, <2>1 DEF LiteralOf, n
    <3>2. 2 \in 0 .. n /\ "'" \in Symbols
      BY <1>1, <2>1
    <3> QED BY <3>1, <3>2 DEF n
  <2>2. CASE ~(n > 1 /\ input[2] = "'")
    <3>1. Ends(1)
      BY <1>3, <2>2 DEF LiteralOf, n
    <3>2. 1 \in 0 .. n
      BY <1>1, <1>3
    <3> QED BY <3>1, <3>2 DEF n
  <2> QED BY <2>1, <2>2
<1>4. CASE n = 1 /\ input[1] = "\\"
  <2>1. Ends(1)
    BY <1>4 DEF LiteralOf, n
  <2>2. 1 \in 0 .. n
    BY <1>1, <1>4
  <2> QED BY <2>1, <2>2 DEF n
<1>5. CASE n > 1 /\ input[1] = "\\" /\ input[2] # "x"
  <2>1. Pushes(2, Unescaped(input[2]))
    BY <1>5 DEF LiteralOf, n
  <2>2. 2 \in 0 .. n /\ Unescaped(input[2]) \in Symbols
    <3>1. input[2] \in Symbols /\ 2 \in 0 .. n
      BY <1>1, <1>5
    <3>2. Unescaped(input[2]) \in Symbols
      BY <3>1, UnescapedIsSymbol
    <3> QED BY <3>1, <3>2
  <2> QED BY <2>1, <2>2 DEF n
<1>6. CASE n > 1 /\ input[1] = "\\" /\ input[2] = "x"
  <2>1. CASE n < 4
    <3>1. Ends(n)
      BY <1>6, <2>1 DEF LiteralOf, n
    <3>2. n \in 0 .. n
      BY <1>1
    <3> QED BY <3>1, <3>2 DEF n
  <2>2. CASE n >= 4 /\ {input[3], input[4]} \subseteq HexDigits
    <3>1. Pushes(4, HexByte(input[3], input[4]))
      BY <1>1, <1>6, <2>2 DEF LiteralOf, n
    <3>2. 4 \in 0 .. n /\ HexByte(input[3], input[4]) \in Symbols
      BY <1>1, <2>2, SymbolsAssumption DEF SymbolsAssumption
    <3> QED BY <3>1, <3>2 DEF n
  <2>3. CASE n >= 4 /\ ~({input[3], input[4]} \subseteq HexDigits)
    <3>1. Passes(4)
      BY <1>1, <1>6, <2>3 DEF LiteralOf, n
    <3>2. 4 \in 0 .. n
      BY <1>1, <2>3
    <3> QED BY <3>1, <3>2 DEF n
  <2> QED BY <1>1, <2>1, <2>2, <2>3
<1>7. CASE n > 0 /\ input[1] \notin {"'", "\\"}
  <2>1. Pushes(1, input[1])
    BY <1>7 DEF LiteralOf, n
  <2>2. 1 \in 0 .. n /\ input[1] \in Symbols
    BY <1>1, <1>7
  <2> QED BY <2>1, <2>2 DEF n
<1> QED BY <1>1, <1>2, <1>3, <1>4, <1>5, <1>6, <1>7

LEMMA PushedIsLiteral ==
  ASSUME NEW c \in Symbols, NEW literal \in Literals
  PROVE  /\ Push(c, literal) \in Literals
         /\ Push(c, literal).rest = literal.rest
         /\ Push(c, literal).text = <<c>> \o literal.text
<1> USE DEF Literals
<1>1. literal.text \in Seq(Symbols) /\ literal.rest \in Seq(Symbols)
  OBVIOUS
<1>2. Push(c, literal) = [text |-> <<c>> \o literal.text, rest |-> literal.rest]
  <2>1. literal = [text |-> literal.text, rest |-> literal.rest]
    OBVIOUS
  <2> DEFINE text == <<c>> \o literal.text
  <2>2. Push(c, literal) = [literal EXCEPT !.text = text]
    BY DEF Push
  <2> HIDE DEF text
  <2>3. [literal EXCEPT !.text = text] = [text |-> text, rest |-> literal.rest]
    BY <2>1
  <2> QED BY <2>2, <2>3 DEF text
<1>3. <<c>> \o literal.text \in Seq(Symbols)
  BY <1>1, Prepended
<1> QED BY <1>1, <1>2, <1>3

LEMMA LiteralOfIsLiteral ==
  ASSUME NEW input \in Seq(Symbols), NEW g,
         \A s \in Seq(Symbols) : Len(s) < Len(input) => g[s] \in Literals
  PROVE  LiteralOf(input, g) \in Literals
<1>1. PICK k \in 0 .. Len(input) :
           \/ \A h : LiteralOf(input, h) = [text |-> <<>>, rest |-> After(k, input)]
           \/ k > 0 /\ \E c \in Symbols :
                \A h : LiteralOf(input, h) = Push(c, h[After(k, input)])
           \/ k > 0 /\ \A h : LiteralOf(input, h) = h[After(k, input)]
  BY LiteralSteps
<1>2. After(k, input) \in Seq(Symbols) /\ Len(After(k, input)) = Len(input) - k
  BY AfterIsText
<1>3. k > 0 => g[After(k, input)] \in Literals
  BY <1>2
<1>4. CASE LiteralOf(input, g) = [text |-> <<>>, rest |-> After(k, input)]
  BY <1>2, <1>4, EmptySeq DEF Literals
<1>5. CASE k > 0 /\ \E c \in Symbols : LiteralOf(input, g) = Push(c, g[After(k, input)])
  BY <1>3, <1>5, PushedIsLiteral
<1>6. CASE k > 0 /\ LiteralOf(input, g) = g[After(k, input)]
  BY <1>3, <1>6
<1> QED BY <1>1, <1>4, <1>5, <1>6

LEMMA LiteralOfFalls ==
  ASSUME NEW input \in Seq(Symbols), NEW g, NEW h,
         \A s \in Seq(Symbols) : Len(s) < Len(input) => g[s] = h[s]
  PROVE  LiteralOf(input, g) = LiteralOf(input, h)
<1>1. PICK k \in 0 .. Len(input) :
           \/ \A f : LiteralOf(input, f) = [text |-> <<>>, rest |-> After(k, input)]
           \/ k > 0 /\ \E c \in Symbols :
                \A f : LiteralOf(input, f) = Push(c, f[After(k, input)])
           \/ k > 0 /\ \A f : LiteralOf(input, f) = f[After(k, input)]
  BY LiteralSteps
<1>2. After(k, input) \in Seq(Symbols) /\ Len(After(k, input)) = Len(input) - k
  BY AfterIsText
<1>3. k > 0 => g[After(k, input)] = h[After(k, input)]
  BY <1>2
<1> QED BY <1>1, <1>3

(* read_string_literal comes to an end on every input. *)
LEMMA LiteralDefined ==
  /\ Literal \in [Seq(Symbols) -> Literals]
  /\ \A input \in Seq(Symbols) : Literal[input] = LiteralOf(input, Literal)
<1> DEFINE D == Seq(Symbols)
           V == Literals
           rank == [s \in D |-> Len(s)]
           step == [g \in [D -> V] |-> [s \in D |-> LiteralOf(s, g)]]
<1>1. rank \in [D -> Nat] /\ \A s \in D : rank[s] = Len(s)
  OBVIOUS
<1>2. step \in [[D -> V] -> [D -> V]]
  <2>1. \A g \in [D -> V] : \A s \in D : LiteralOf(s, g) \in V
    BY LiteralOfIsLiteral
  <2> HIDE DEF D, V
  <2> QED BY <2>1
<1>3. Falls(D, V, rank, step)
  <2> SUFFICES ASSUME NEW g \in [D -> V], NEW h \in [D -> V], NEW s \in D,
                      \A r \in D : rank[r] < rank[s] => g[r] = h[r]
               PROVE  step[g][s] = step[h][s]
    BY DEF Falls
  <2>1. LiteralOf(s, g) = LiteralOf(s, h)
    BY <1>1, LiteralOfFalls
  <2> QED BY <2>1
<1>4. V # {}
  <2>1. [text |-> <<>>, rest |-> <<>>] \in V
    BY EmptySeq DEF Literals
  <2> QED BY <2>1
<1>5. PICK found \in [D -> V] : found = step[found]
  <2> HIDE DEF D, V, rank, step
  <2>1. WellDefined(D, V, rank, step)
    BY <1>1, <1>2, <1>3, <1>4 DEF WellDefined
  <2> QED BY <2>1, Recursion
<1>6. found = [s \in Seq(Symbols) |-> LiteralOf(s, found)]
  BY <1>5
<1>7. Literal = [s \in Seq(Symbols) |-> LiteralOf(s, Literal)]
  BY <1>6 DEF Literal
<1>8. D \subseteq {s \in D : Literal[s] \in V}
  <2> DEFINE S == {s \in D : Literal[s] \in V}
  <2>1. ASSUME NEW s \in D, \A r \in D : rank[r] < rank[s] => r \in S PROVE s \in S
    <3>1. LiteralOf(s, Literal) \in V
      BY <1>1, <2>1, LiteralOfIsLiteral
    <3> QED BY <1>7, <3>1
  <2>2. D \subseteq S
    <3> HIDE DEF D, V, rank, S
    <3>1. Rises(D, rank, S)
      BY <1>1, <2>1 DEF Rises
    <3> QED BY <3>1, RankInduction
  <2> QED BY <2>2
<1> QED BY <1>7, <1>8

-----------------------------------------------------------------------------
(* What mysqldump escapes.                                                 *)

(* mysqldump writes a character as itself or behind a backslash.  As itself it
   neither closes a literal nor begins an escape; behind a backslash it is not
   the `x` of a hexadecimal escape, and the lexer reads back the character that
   was meant, whichever it is. *)
THEOREM EscapesReadBack ==
  \A c : \/ Escaped(c) = <<c>> /\ c \notin {"'", "\\"}
         \/ \E d : Escaped(c) = <<"\\", d>> /\ d # "x" /\ Unescaped(d) = c
<1> SUFFICES ASSUME NEW c
             PROVE  \/ Escaped(c) = <<c>> /\ c \notin {"'", "\\"}
                    \/ \E d : Escaped(c) = <<"\\", d>> /\ d # "x" /\ Unescaped(d) = c
  OBVIOUS
<1>1. CASE c \in {"NUL", "SUB", "\n", "\r"}
  BY <1>1 DEF Escaped, Unescaped
<1>2. CASE c \in {"'", "\"", "\\"}
  BY <1>2 DEF Escaped, Unescaped
<1>3. CASE c \notin {"NUL", "SUB", "\n", "\r", "'", "\"", "\\"}
  BY <1>3 DEF Escaped
<1> QED
  BY <1>1, <1>2, <1>3

LEMMA EscapedIsText == ASSUME NEW c \in Symbols PROVE Escaped(c) \in Seq(Symbols)
<1> USE SymbolsAssumption DEF SymbolsAssumption, HexDigits
<1>1. CASE c \in {"NUL", "SUB", "\n", "\r"}
  <2>1. PICK d \in {"0", "Z", "n", "r"} : Escaped(c) = <<"\\", d>>
    BY <1>1 DEF Escaped
  <2> QED BY <2>1
<1>2. CASE c \in {"'", "\"", "\\"}
  <2>1. Escaped(c) = <<"\\", c>>
    BY <1>2 DEF Escaped
  <2> QED BY <2>1
<1>3. CASE c \notin {"NUL", "SUB", "\n", "\r", "'", "\"", "\\"}
  <2>1. Escaped(c) = <<c>>
    BY <1>3 DEF Escaped
  <2> QED BY <2>1
<1> QED
  BY <1>1, <1>2, <1>3

(* Two symbols before a sequence. *)
AreBefore(t, c, d, s) ==
  /\ Len(t) = Len(s) + 2
  /\ t[1] = c /\ t[2] = d
  /\ After(2, t) = s

LEMMA TwoPrepended ==
  ASSUME NEW T, NEW c \in T, NEW d \in T, NEW s \in Seq(T)
  PROVE  /\ <<c, d>> \o s \in Seq(T)
         /\ AreBefore(<<c, d>> \o s, c, d, s)
         /\ <<c, d>> \o s = <<c>> \o (<<d>> \o s)
<1> DEFINE t == <<c, d>> \o s
<1>1. t \in Seq(T) /\ Len(t) = Len(s) + 2 /\ t[1] = c /\ t[2] = d
  OBVIOUS
<1>2. \A i \in 1 .. Len(s) : t[i + 2] = s[i]
  OBVIOUS
<1>3. t = <<c>> \o (<<d>> \o s)
  <2> HIDE DEF t
  <2>1. <<c, d>> = <<c>> \o <<d>>
    <3> DEFINE l == <<c, d>>
               r == <<c>> \o <<d>>
    <3>1. l \in Seq(T) /\ Len(l) = 2 /\ l[1] = c /\ l[2] = d
      OBVIOUS
    <3>2. r \in Seq(T) /\ Len(r) = 2 /\ r[1] = c /\ r[2] = d
      OBVIOUS
    <3> HIDE DEF l, r
    <3>3. l = r
      BY <3>1, <3>2
    <3> QED BY <3>3 DEF l, r
  <2>2. <<c>> \in Seq(T) /\ <<d>> \in Seq(T)
    OBVIOUS
  <2>3. (<<c>> \o <<d>>) \o s = <<c>> \o (<<d>> \o s)
    BY <2>2, ConcatAssociative
  <2> QED BY <2>1, <2>3 DEF t
<1> HIDE DEF t
<1>4. After(2, t) \in Seq(T) /\ Len(After(2, t)) = Len(s)
        /\ \A i \in 1 .. Len(s) : After(2, t)[i] = t[i + 2]
  BY <1>1 DEF After
<1>5. After(2, t) = s
  BY <1>2, <1>4
<1> QED BY <1>1, <1>3, <1>5 DEF t, AreBefore

(* The lexer reads each character as the one that was written. *)
LEMMA EscapedRead ==
  ASSUME NEW c \in Symbols, NEW s \in Seq(Symbols)
  PROVE  Literal[Escaped(c) \o s] = Push(c, Literal[s])
<1>1. CASE Escaped(c) = <<c>> /\ c \notin {"'", "\\"}
  <2> DEFINE t == <<c>> \o s
  <2>1. t \in Seq(Symbols) /\ IsCons(t, c, s)
    BY Prepended
  <2> HIDE DEF t
  <2>2. t \in Seq(Symbols) /\ Len(t) > 0 /\ t[1] = c /\ After(1, t) = s
    BY <2>1 DEF IsCons
  <2>3. LiteralOf(t, Literal) = Push(c, Literal[s])
    BY <1>1, <2>2 DEF LiteralOf
  <2>4. Literal[t] = Push(c, Literal[s])
    BY <2>2, <2>3, LiteralDefined
  <2> QED BY <1>1, <2>4 DEF t
<1>2. CASE \E d : Escaped(c) = <<"\\", d>> /\ d # "x" /\ Unescaped(d) = c
  <2>1. PICK d : Escaped(c) = <<"\\", d>> /\ d # "x" /\ Unescaped(d) = c
    BY <1>2
  <2>2. <<"\\", d>> \in Seq(Symbols)
    BY <2>1, EscapedIsText
  <2> DEFINE b == "\\"
             t == <<b, d>> \o s
  <2>3. d \in Symbols /\ b \in Symbols
    BY <2>2
  <2> HIDE DEF b
  <2>4. t \in Seq(Symbols) /\ AreBefore(t, b, d, s)
    BY <2>3, TwoPrepended
  <2>5. t \in Seq(Symbols) /\ Len(t) = Len(s) + 2 /\ t[1] = "\\" /\ t[2] = d
        /\ After(2, t) = s
    <3> HIDE DEF t
    <3> QED BY <2>4 DEF AreBefore, b
  <2> HIDE DEF t
  <2>6. LiteralOf(t, Literal) = Push(c, Literal[s])
    BY <2>1, <2>5 DEF LiteralOf
  <2>7. Literal[t] = Push(c, Literal[s])
    BY <2>5, <2>6, LiteralDefined
  <2> QED BY <2>1, <2>7 DEF t, b
<1> QED BY <1>1, <1>2, EscapesReadBack

(* What stands between the quotes. *)
EscapedText(text) == FlattenSeq([i \in DOMAIN text |-> Escaped(text[i])])

(* What may follow a literal: another quote would be taken for one of its own. *)
NoQuote(s) == s = <<>> \/ s[1] # "'"

LEMMA EscapedTextIsText ==
  ASSUME NEW text \in Seq(Symbols) PROVE EscapedText(text) \in Seq(Symbols)
<1> DEFINE pieces == [i \in DOMAIN text |-> Escaped(text[i])]
<1>1. DOMAIN text = 1 .. Len(text) /\ Len(text) \in Nat
  OBVIOUS
<1>2. \A i \in 1 .. Len(text) : Escaped(text[i]) \in Seq(Symbols)
  BY EscapedIsText
<1>3. pieces \in Seq(Seq(Symbols))
  BY <1>1, <1>2
<1> HIDE DEF pieces
<1>4. FlattenSeq(pieces) \in Seq(Symbols)
  BY <1>3, FlattenedIsText
<1> QED BY <1>4 DEF EscapedText, pieces

LEMMA EscapedTextCons ==
  ASSUME NEW c \in Symbols, NEW text \in Seq(Symbols)
  PROVE  EscapedText(<<c>> \o text) = Escaped(c) \o EscapedText(text)
<1> DEFINE t == <<c>> \o text
           pieces == [i \in DOMAIN text |-> Escaped(text[i])]
           all == [i \in DOMAIN t |-> Escaped(t[i])]
<1>1. t \in Seq(Symbols) /\ IsCons(t, c, text)
  BY Prepended
<1> HIDE DEF t
<1>2. t \in Seq(Symbols) /\ Len(t) = Len(text) + 1 /\ t[1] = c
        /\ \A i \in 1 .. Len(text) : t[i + 1] = text[i]
  BY <1>1 DEF IsCons
<1>3. \A i \in 1 .. Len(text) : Escaped(text[i]) \in Seq(Symbols)
  BY EscapedIsText
<1>4. \A i \in 1 .. Len(t) : Escaped(t[i]) \in Seq(Symbols)
  BY <1>2, EscapedIsText
<1>5. pieces \in Seq(Seq(Symbols)) /\ Len(pieces) = Len(text)
        /\ \A i \in 1 .. Len(text) : pieces[i] = Escaped(text[i])
  BY <1>3
<1>6. all \in Seq(Seq(Symbols)) /\ Len(all) = Len(t)
        /\ \A i \in 1 .. Len(t) : all[i] = Escaped(t[i])
  BY <1>2, <1>4
<1> HIDE DEF pieces, all
<1>7. Escaped(c) \in Seq(Symbols)
  BY EscapedIsText
<1> DEFINE e == Escaped(c)
           r == <<e>> \o pieces
<1>8. r \in Seq(Seq(Symbols)) /\ IsCons(r, e, pieces)
  <2> HIDE DEF e
  <2> QED BY <1>5, <1>7, Prepended DEF e
<1> HIDE DEF r
<1>9. Len(r) = Len(all) /\ \A i \in 1 .. Len(r) : all[i] = r[i]
  <2>1. Len(r) = Len(text) + 1 /\ r[1] = e
        /\ \A i \in 1 .. Len(text) : r[i + 1] = pieces[i]
    BY <1>5, <1>8 DEF IsCons
  <2>2. all[1] = e
    BY <1>2, <1>6
  <2>3. ASSUME NEW i \in 1 .. Len(r), i # 1 PROVE all[i] = r[i]
    <3>1. i - 1 \in 1 .. Len(text) /\ (i - 1) + 1 = i
      BY <2>1, <2>3
    <3>2. t[i] = text[i - 1] /\ r[i] = pieces[i - 1]
      BY <1>2, <2>1, <3>1
    <3> QED BY <1>2, <1>5, <1>6, <2>1, <3>1, <3>2
  <2> QED BY <1>2, <1>6, <2>1, <2>2, <2>3
<1>10. all = r
  <2> DEFINE U == Seq(Symbols)
  <2>1. all \in Seq(U) /\ r \in Seq(U)
    BY <1>6, <1>8
  <2> HIDE DEF U
  <2> QED BY <1>9, <2>1, SeqEqual
<1>11. FlattenSeq(r) = e \o FlattenSeq(pieces)
  <2> HIDE DEF e
  <2> QED BY <1>5, <1>7, FlattenCons DEF e, r
<1> QED BY <1>10, <1>11 DEF EscapedText, all, pieces, t

LEMMA Decomposed ==
  ASSUME NEW T, NEW s \in Seq(T), s # <<>>
  PROVE  /\ s[1] \in T /\ After(1, s) \in Seq(T) /\ Len(After(1, s)) = Len(s) - 1
         /\ s = <<s[1]>> \o After(1, s)
<1> DEFINE x == s[1]
           u == After(1, s)
           t == <<x>> \o u
<1>1. Len(s) \in Nat /\ Len(s) # 0 /\ x \in T
  OBVIOUS
<1>2. 1 \in 0 .. Len(s)
  BY <1>1
<1>3. u \in Seq(T) /\ Len(u) = Len(s) - 1
  BY <1>2, AfterIsText
<1>4. \A i \in 1 .. Len(u) : u[i] = s[i + 1]
  BY <1>1, <1>3 DEF After
<1>5. t \in Seq(T) /\ IsCons(t, x, u)
  <2> HIDE DEF x, u
  <2> QED BY <1>1, <1>3, Prepended
<1>6. x = s[1]
  OBVIOUS
<1> HIDE DEF t, u, x
<1>7. Len(t) = Len(s) /\ t[1] = x /\ \A i \in 1 .. Len(u) : t[i + 1] = u[i]
  BY <1>1, <1>3, <1>5 DEF IsCons
<1>8. ASSUME NEW i \in 1 .. Len(s) PROVE s[i] = t[i]
  <2>1. CASE i = 1
    BY <1>6, <1>7, <2>1
  <2>2. CASE i # 1
    <3>1. i - 1 \in 1 .. Len(u) /\ (i - 1) + 1 = i
      BY <1>1, <1>3, <2>2
    <3> QED BY <1>4, <1>7, <3>1
  <2> QED BY <2>1, <2>2
<1>9. s = t
  BY <1>5, <1>7, <1>8, SeqEqual
<1> QED BY <1>1, <1>3, <1>9 DEF t, u, x

(* What holds of the empty sequence, and with each sequence of those that have one
   element more before it, holds of all. *)
Grows(T, S) == <<>> \in S /\ \A x \in T : \A s \in Seq(T) : s \in S => <<x>> \o s \in S

LEMMA SequenceInduction == ASSUME NEW T, NEW S, Grows(T, S) PROVE Seq(T) \subseteq S
<1> DEFINE D == Seq(T)
           rank == [s \in D |-> Len(s)]
<1>1. rank \in [D -> Nat] /\ \A s \in D : rank[s] = Len(s)
  OBVIOUS
<1>2. ASSUME NEW s \in D, \A r \in D : rank[r] < rank[s] => r \in S PROVE s \in S
  <2>1. CASE s = <<>>
    BY <2>1 DEF Grows
  <2>2. CASE s # <<>>
    <3> DEFINE x == s[1]
               u == After(1, s)
    <3>1. x \in T /\ u \in Seq(T) /\ Len(u) = Len(s) - 1 /\ s = <<x>> \o u
      BY <2>2, Decomposed
    <3>2. rank[u] < rank[s]
      BY <1>1, <3>1
    <3>3. u \in S
      BY <1>2, <3>1, <3>2
    <3> HIDE DEF x, u
    <3> QED BY <3>1, <3>3 DEF Grows
  <2> QED BY <2>1, <2>2
<1>3. Rises(D, rank, S)
  <2> HIDE DEF D, rank
  <2> QED BY <1>1, <1>2 DEF Rises
<1> QED BY <1>3, RankInduction

(* A literal that mysqldump writes is read back, and nothing behind it is. *)
THEOREM LiteralReadBack ==
  ASSUME NEW text \in Seq(Symbols), NEW s \in Seq(Symbols), NoQuote(s)
  PROVE  Literal[EscapedText(text) \o (<<"'">> \o s)] = [text |-> text, rest |-> s]
<1> DEFINE end == <<"'">> \o s
           S == {t \in Seq(Symbols) :
                   Literal[EscapedText(t) \o end] = [text |-> t, rest |-> s]}
<1>1. end \in Seq(Symbols) /\ end # <<>> /\ end[1] = "'" /\ After(1, end) = s
      /\ Len(end) = Len(s) + 1 /\ (s # <<>> => end[2] = s[1])
  <2>1. "'" \in Symbols
    BY SymbolsAssumption DEF SymbolsAssumption, Special
  <2> DEFINE q == "'"
  <2> HIDE DEF q
  <2>2. <<q>> \o s \in Seq(Symbols) /\ IsCons(<<q>> \o s, q, s)
    BY <2>1, Prepended DEF q
  <2>3. end \in Seq(Symbols) /\ IsCons(end, q, s)
    BY <2>2 DEF q
  <2> HIDE DEF end
  <2>4. s # <<>> => 1 \in 1 .. Len(s) /\ 1 + 1 = 2
    OBVIOUS
  <2> QED BY <2>3, <2>4 DEF IsCons, q
<1> HIDE DEF end
<1>2. <<>> \in S
  <2>1. EscapedText(<<>>) \o end = end
    <3>1. [i \in DOMAIN <<>> |-> Escaped(<<>>[i])] = <<>>
      OBVIOUS
    <3>2. EscapedText(<<>>) = <<>>
      BY <3>1 DEF EscapedText, FlattenSeq
    <3> QED BY <1>1, <3>2
  <2>2. ~(Len(end) > 1 /\ end[2] = "'") /\ Len(end) > 0
    BY <1>1 DEF NoQuote
  <2>3. LiteralOf(end, Literal) = [text |-> <<>>, rest |-> s]
    BY <1>1, <2>2 DEF LiteralOf
  <2>4. Literal[end] = [text |-> <<>>, rest |-> s]
    BY <1>1, <2>3, LiteralDefined
  <2> QED BY <2>1, <2>4, EmptySeq
<1>3. ASSUME NEW c \in Symbols, NEW t \in Seq(Symbols), t \in S PROVE <<c>> \o t \in S
  <2> DEFINE e == Escaped(c)
             et == EscapedText(t)
  <2>1. e \in Seq(Symbols) /\ et \in Seq(Symbols)
    BY EscapedIsText, EscapedTextIsText
  <2>2. EscapedText(<<c>> \o t) = e \o et
    BY EscapedTextCons
  <2> HIDE DEF e, et
  <2>3. (e \o et) \o end = e \o (et \o end)
    <3>1. end \in Seq(Symbols)
      BY <1>1
    <3> HIDE DEF S
    <3> QED BY <2>1, <3>1, ConcatAssociative
  <2>4. et \o end \in Seq(Symbols)
    BY <1>1, <2>1
  <2>5. Literal[e \o (et \o end)] = Push(c, Literal[et \o end])
    BY <2>4, EscapedRead DEF e
  <2>6. Literal[et \o end] = [text |-> t, rest |-> s]
    BY <1>3 DEF et
  <2>7. Push(c, [text |-> t, rest |-> s]) = [text |-> <<c>> \o t, rest |-> s]
    <3> DEFINE u == <<c>> \o t
    <3>1. Push(c, [text |-> t, rest |-> s]) = [[text |-> t, rest |-> s] EXCEPT !.text = u]
      BY DEF Push
    <3> HIDE DEF u
    <3>2. [[text |-> t, rest |-> s] EXCEPT !.text = u] = [text |-> u, rest |-> s]
      OBVIOUS
    <3> QED BY <3>1, <3>2 DEF u
  <2>8. <<c>> \o t \in Seq(Symbols)
    BY Prepended
  <2> QED BY <2>2, <2>3, <2>5, <2>6, <2>7, <2>8
<1>4. Grows(Symbols, S)
  <2> HIDE DEF S
  <2> QED BY <1>2, <1>3 DEF Grows
<1>5. Seq(Symbols) \subseteq S
  BY <1>4, SequenceInduction
<1> QED BY <1>5 DEF end

(* The lexer goes forwards. *)
LEMMA LiteralAdvances ==
  ASSUME NEW input \in Seq(Symbols)
  PROVE  /\ Literal[input].text \in Seq(Symbols) /\ Literal[input].rest \in Seq(Symbols)
         /\ Len(Literal[input].rest) <= Len(input)
<1> DEFINE D == Seq(Symbols)
           rank == [s \in D |-> Len(s)]
           S == {s \in D : Len(Literal[s].rest) <= Len(s)}
<1>1. rank \in [D -> Nat] /\ \A s \in D : rank[s] = Len(s)
  OBVIOUS
<1>2. \A s \in D : Literal[s].text \in D /\ Literal[s].rest \in D
  BY LiteralDefined DEF Literals
<1>3. ASSUME NEW s \in D, \A r \in D : rank[r] < rank[s] => r \in S PROVE s \in S
  <2>1. PICK k \in 0 .. Len(s) :
           \/ \A f : LiteralOf(s, f) = [text |-> <<>>, rest |-> After(k, s)]
           \/ k > 0 /\ \E c \in Symbols :
                \A f : LiteralOf(s, f) = Push(c, f[After(k, s)])
           \/ k > 0 /\ \A f : LiteralOf(s, f) = f[After(k, s)]
    BY LiteralSteps
  <2> DEFINE u == After(k, s)
  <2>2. u \in D /\ Len(u) = Len(s) - k
    BY AfterIsText
  <2>3. Literal[s] = LiteralOf(s, Literal) /\ Literal[u] \in Literals
    BY <2>2, LiteralDefined
  <2>4. CASE LiteralOf(s, Literal) = [text |-> <<>>, rest |-> u]
    BY <2>2, <2>3, <2>4
  <2>5. CASE k > 0 /\ Literal[s].rest = Literal[u].rest
    <3>1. u \in S
      BY <1>1, <1>3, <2>2, <2>5
    <3>2. Len(Literal[u].rest) <= Len(u)
      BY <3>1
    <3>3. Literal[u].rest \in D
      BY <1>2, <2>2
    <3> HIDE DEF u
    <3> QED BY <2>2, <2>5, <3>2, <3>3
  <2>6. ASSUME NEW c \in Symbols, LiteralOf(s, Literal) = Push(c, Literal[u])
        PROVE  Literal[s].rest = Literal[u].rest
    <3>1. Push(c, Literal[u]).rest = Literal[u].rest
      BY <2>3, PushedIsLiteral
    <3> QED BY <2>3, <2>6, <3>1
  <2> QED BY <2>1, <2>3, <2>4, <2>5, <2>6
<1>4. D \subseteq S
  <2> HIDE DEF D, rank, S
  <2>1. Rises(D, rank, S)
    BY <1>1, <1>3 DEF Rises
  <2> QED BY <2>1, RankInduction
<1> QED BY <1>2, <1>4

-----------------------------------------------------------------------------
(* Tokens.                                                                 *)

LEMMA WordIsToken == ASSUME NEW c \in Symbols PROVE Word(c) \in Tokens
<1>1. CASE c \in DOMAIN Keywords
  <2>1. Keywords[c] \in Kinds
    BY <1>1 DEF Kinds, Range
  <2> QED BY <1>1, <2>1, EmptySeq DEF Word, Token, Tokens
<1>2. CASE c \notin DOMAIN Keywords
  <2>1. <<c>> \in Seq(Symbols) /\ "Identifier" \in Kinds
    BY DEF Kinds
  <2> QED BY <1>2, <2>1 DEF Word, Token, Tokens
<1> QED BY <1>1, <1>2

(* Each symbol is of one sort. *)
LEMMA SortsApart ==
  /\ \A c \in Blank : c \notin DOMAIN Punctuation \cup {"'"} \cup Numerals \cup DOMAIN Keywords \cup Names
  /\ \A c \in DOMAIN Punctuation : c \notin {"'"} \cup Numerals \cup DOMAIN Keywords \cup Names
  /\ "'" \notin Numerals \cup DOMAIN Keywords \cup Names
  /\ \A c \in Numerals : c \notin DOMAIN Keywords \cup Names
<1>1. DOMAIN Punctuation = {"(", ")", ",", ";", "backtick", "."}
  BY DEF Punctuation
<1>2. DOMAIN Keywords = {"INSERT", "INTO", "VALUES", "NULL", "_binary"}
  BY DEF Keywords
<1> QED BY <1>1, <1>2, RunsAssumption DEF RunsAssumption, Special, Blank

(* The lexer passes over a blank, makes one token of what comes next, or gives up. *)
LEMMA TokenSteps ==
  ASSUME NEW input \in Seq(Symbols), input # <<>>
  PROVE  \/ \A g : TokensOf(input, g) = <<Token("Error", <<>>)>>
         \/ \E rest \in Seq(Symbols) :
              /\ Len(rest) < Len(input)
              /\ \/ \A g : TokensOf(input, g) = g[rest]
                 \/ \E token \in Tokens : \A g : TokensOf(input, g) = <<token>> \o g[rest]
<1> DEFINE c == input[1]
           r == After(1, input)
<1>1. c \in Symbols /\ r \in Seq(Symbols) /\ Len(r) < Len(input)
  <2>1. c \in Symbols /\ r \in Seq(Symbols) /\ Len(r) = Len(input) - 1
    BY Decomposed
  <2> QED BY <2>1
<1> DEFINE Reads(token, rest) == \A g : TokensOf(input, g) = <<token>> \o g[rest]
<1>2. CASE c \in Blank
  <2>1. \A g : TokensOf(input, g) = g[r]
    BY <1>2, SortsApart DEF TokensOf
  <2> QED BY <1>1, <2>1
<1>3. CASE c \notin Blank /\ c \in DOMAIN Punctuation
  <2>1. Reads(Token(Punctuation[c], <<>>), r)
    BY <1>3, SortsApart DEF TokensOf
  <2>2. Token(Punctuation[c], <<>>) \in Tokens
    BY <1>3, EmptySeq DEF Token, Tokens, Kinds, Range
  <2> QED BY <1>1, <2>1, <2>2
<1>4. CASE c \notin Blank \cup DOMAIN Punctuation /\ c = "'"
  <2> DEFINE literal == Literal[r]
  <2>1. Reads(Token("StringLiteral", literal.text), literal.rest)
    BY <1>4, SortsApart DEF TokensOf
  <2>2. literal.text \in Seq(Symbols) /\ literal.rest \in Seq(Symbols)
        /\ Len(literal.rest) <= Len(r)
    BY <1>1, LiteralAdvances
  <2>3. Token("StringLiteral", literal.text) \in Tokens
    BY <2>2 DEF Token, Tokens, Kinds
  <2>4. Len(literal.rest) < Len(input)
    <3> HIDE DEF literal, r
    <3> QED BY <1>1, <2>2
  <2> QED BY <2>1, <2>2, <2>3, <2>4
<1>5. CASE c \notin Blank \cup DOMAIN Punctuation \cup {"'"} /\ c \in Numerals
  <2>1. Reads(Token("Number", <<c>>), r)
    BY <1>5, SortsApart DEF TokensOf
  <2>2. <<c>> \in Seq(Symbols)
    BY <1>1
  <2>3. Token("Number", <<c>>) \in Tokens
    BY <2>2 DEF Token, Tokens, Kinds
  <2> QED BY <1>1, <2>1, <2>3
<1>6. CASE c \notin Blank \cup DOMAIN Punctuation \cup {"'"} \cup Numerals
           /\ c \in DOMAIN Keywords \cup Names
  <2>1. Reads(Word(c), r)
    BY <1>6, SortsApart DEF TokensOf
  <2>2. Word(c) \in Tokens
    BY <1>1, WordIsToken
  <2> QED BY <1>1, <2>1, <2>2
<1>7. CASE c \notin Blank \cup DOMAIN Punctuation \cup {"'"} \cup Numerals
                    \cup DOMAIN Keywords \cup Names
  <2>1. \A g : TokensOf(input, g) = <<Token("Error", <<>>)>>
    BY <1>7, SortsApart DEF TokensOf
  <2> QED BY <2>1
<1> QED BY <1>2, <1>3, <1>4, <1>5, <1>6, <1>7

LEMMA TokensOfIsTokens ==
  ASSUME NEW input \in Seq(Symbols), NEW g,
         \A s \in Seq(Symbols) : Len(s) < Len(input) => g[s] \in Seq(Tokens)
  PROVE  TokensOf(input, g) \in Seq(Tokens)
<1>1. CASE input = <<>>
  <2>1. Token("EOF", <<>>) \in Tokens
    BY EmptySeq DEF Token, Tokens, Kinds
  <2> QED BY <1>1, <2>1 DEF TokensOf
<1>2. CASE TokensOf(input, g) = <<Token("Error", <<>>)>>
  <2>1. Token("Error", <<>>) \in Tokens
    BY EmptySeq DEF Token, Tokens, Kinds
  <2> QED BY <1>2, <2>1
<1>3. ASSUME NEW rest \in Seq(Symbols), Len(rest) < Len(input), TokensOf(input, g) = g[rest]
      PROVE  TokensOf(input, g) \in Seq(Tokens)
  BY <1>3
<1>4. ASSUME NEW rest \in Seq(Symbols), Len(rest) < Len(input), NEW token \in Tokens,
             TokensOf(input, g) = <<token>> \o g[rest]
      PROVE  TokensOf(input, g) \in Seq(Tokens)
  <2> DEFINE more == g[rest]
  <2>1. more \in Seq(Tokens)
    BY <1>4
  <2> HIDE DEF more
  <2>2. <<token>> \o more \in Seq(Tokens)
    BY <2>1, Prepended
  <2> QED BY <1>4, <2>2 DEF more
<1> QED BY <1>1, <1>2, <1>3, <1>4, TokenSteps

LEMMA TokensOfFalls ==
  ASSUME NEW input \in Seq(Symbols), NEW g, NEW h,
         \A s \in Seq(Symbols) : Len(s) < Len(input) => g[s] = h[s]
  PROVE  TokensOf(input, g) = TokensOf(input, h)
<1>1. CASE input = <<>>
  BY <1>1 DEF TokensOf
<1>2. CASE \A f : TokensOf(input, f) = <<Token("Error", <<>>)>>
  BY <1>2
<1>3. ASSUME NEW rest \in Seq(Symbols), Len(rest) < Len(input),
             \A f : TokensOf(input, f) = f[rest]
      PROVE  TokensOf(input, g) = TokensOf(input, h)
  BY <1>3
<1>4. ASSUME NEW rest \in Seq(Symbols), Len(rest) < Len(input), NEW token \in Tokens,
             \A f : TokensOf(input, f) = <<token>> \o f[rest]
      PROVE  TokensOf(input, g) = TokensOf(input, h)
  BY <1>4
<1> QED BY <1>1, <1>2, <1>3, <1>4, TokenSteps

(* tokenize comes to an end on every input. *)
LEMMA TokenizedDefined ==
  /\ Tokenized \in [Seq(Symbols) -> Seq(Tokens)]
  /\ \A input \in Seq(Symbols) : Tokenized[input] = TokensOf(input, Tokenized)
<1> DEFINE D == Seq(Symbols)
           V == Seq(Tokens)
           rank == [s \in D |-> Len(s)]
           step == [g \in [D -> V] |-> [s \in D |-> TokensOf(s, g)]]
<1>1. rank \in [D -> Nat] /\ \A s \in D : rank[s] = Len(s)
  OBVIOUS
<1>2. step \in [[D -> V] -> [D -> V]]
  <2>1. \A g \in [D -> V] : \A s \in D : TokensOf(s, g) \in V
    BY TokensOfIsTokens
  <2> HIDE DEF D, V
  <2> QED BY <2>1
<1>3. Falls(D, V, rank, step)
  <2> SUFFICES ASSUME NEW g \in [D -> V], NEW h \in [D -> V], NEW s \in D,
                      \A r \in D : rank[r] < rank[s] => g[r] = h[r]
               PROVE  step[g][s] = step[h][s]
    BY DEF Falls
  <2>1. TokensOf(s, g) = TokensOf(s, h)
    BY <1>1, TokensOfFalls
  <2> QED BY <2>1
<1>4. V # {}
  BY EmptySeq
<1>5. PICK found \in [D -> V] : found = step[found]
  <2> HIDE DEF D, V, rank, step
  <2>1. WellDefined(D, V, rank, step)
    BY <1>1, <1>2, <1>3, <1>4 DEF WellDefined
  <2> QED BY <2>1, Recursion
<1>6. found = [s \in Seq(Symbols) |-> TokensOf(s, found)]
  BY <1>5
<1>7. Tokenized = [s \in Seq(Symbols) |-> TokensOf(s, Tokenized)]
  BY <1>6 DEF Tokenized
<1>8. D \subseteq {s \in D : Tokenized[s] \in V}
  <2> DEFINE S == {s \in D : Tokenized[s] \in V}
  <2>1. ASSUME NEW s \in D, \A r \in D : rank[r] < rank[s] => r \in S PROVE s \in S
    <3>1. TokensOf(s, Tokenized) \in V
      BY <1>1, <2>1, TokensOfIsTokens
    <3> QED BY <1>7, <3>1
  <2>2. D \subseteq S
    <3> HIDE DEF D, V, rank, S
    <3>1. Rises(D, rank, S)
      BY <1>1, <2>1 DEF Rises
    <3> QED BY <3>1, RankInduction
  <2> QED BY <2>2
<1> QED BY <1>7, <1>8

(* The tokens of a text are those of its symbols, one after the other. *)
TokenOf(c) ==
  IF c \in DOMAIN Punctuation THEN Token(Punctuation[c], <<>>)
  ELSE IF c \in Numerals THEN Token("Number", <<c>>) ELSE Word(c)

Plain == DOMAIN Punctuation \cup Numerals \cup DOMAIN Keywords \cup Names

LEMMA SymbolRead ==
  ASSUME NEW c \in Plain, NEW s \in Seq(Symbols)
  PROVE  /\ <<c>> \o s \in Seq(Symbols)
         /\ TokenOf(c) \in Tokens
         /\ Tokenized[<<c>> \o s] = <<TokenOf(c)>> \o Tokenized[s]
<1> DEFINE t == <<c>> \o s
<1>1. c \in Symbols
  BY SymbolsAssumption DEF SymbolsAssumption, Special, Plain
<1>2. t \in Seq(Symbols) /\ IsCons(t, c, s)
  BY <1>1, Prepended
<1>3. TokenOf(c) \in Tokens
  <2>1. CASE c \in DOMAIN Punctuation
    BY <2>1, EmptySeq DEF TokenOf, Token, Tokens, Kinds, Range
  <2>2. CASE c \notin DOMAIN Punctuation /\ c \in Numerals
    <3>1. <<c>> \in Seq(Symbols)
      BY <1>1
    <3> QED BY <2>2, <3>1 DEF TokenOf, Token, Tokens, Kinds
  <2>3. CASE c \notin DOMAIN Punctuation \cup Numerals
    BY <1>1, <2>3, WordIsToken DEF TokenOf
  <2> QED BY <2>1, <2>2, <2>3
<1> HIDE DEF t
<1>4. t # <<>> /\ t[1] = c /\ After(1, t) = s
  BY <1>2 DEF IsCons
<1>5. TokensOf(t, Tokenized) = <<TokenOf(c)>> \o Tokenized[s]
  <2>1. CASE c \in DOMAIN Punctuation
    BY <1>4, <2>1, SortsApart DEF TokensOf, TokenOf
  <2>2. CASE c \in Numerals
    BY <1>4, <2>2, SortsApart DEF TokensOf, TokenOf
  <2>3. CASE c \in DOMAIN Keywords \cup Names
    BY <1>4, <2>3, SortsApart DEF TokensOf, TokenOf
  <2> QED BY <2>1, <2>2, <2>3 DEF Plain
<1> QED BY <1>2, <1>3, <1>5, TokenizedDefined DEF t

LEMMA BlankRead ==
  ASSUME NEW c \in Blank, NEW s \in Seq(Symbols)
  PROVE  <<c>> \o s \in Seq(Symbols) /\ Tokenized[<<c>> \o s] = Tokenized[s]
<1> DEFINE t == <<c>> \o s
<1>1. c \in Symbols
  BY SymbolsAssumption DEF SymbolsAssumption, Special
<1>2. t \in Seq(Symbols) /\ IsCons(t, c, s)
  BY <1>1, Prepended
<1> HIDE DEF t
<1>3. t # <<>> /\ t[1] = c /\ After(1, t) = s
  BY <1>2 DEF IsCons
<1>4. TokensOf(t, Tokenized) = Tokenized[s]
  BY <1>3, SortsApart DEF TokensOf
<1> QED BY <1>2, <1>4, TokenizedDefined DEF t

(* A literal is one token, whatever its text is. *)
LEMMA QuotedRead ==
  ASSUME NEW text \in Seq(Symbols), NEW s \in Seq(Symbols), NoQuote(s)
  PROVE  /\ Quoted(text) \o s \in Seq(Symbols)
         /\ Tokenized[Quoted(text) \o s] = <<Token("StringLiteral", text)>> \o Tokenized[s]
<1> DEFINE q == "'"
           e == EscapedText(text)
           body == e \o (<<q>> \o s)
           t == <<q>> \o body
<1>1. q \in Symbols
  BY SymbolsAssumption DEF SymbolsAssumption, Special
<1>2. e \in Seq(Symbols)
  BY EscapedTextIsText
<1>3. Quoted(text) = <<q>> \o e \o <<q>>
  BY DEF Quoted, EscapedText
<1>4. Literal[body] = [text |-> text, rest |-> s]
  BY LiteralReadBack
<1> HIDE DEF q, e
<1>5. <<q>> \in Seq(Symbols) /\ <<q>> \o s \in Seq(Symbols)
  BY <1>1, Prepended
<1>6. body \in Seq(Symbols)
  BY <1>2, <1>5
<1>7. ((<<q>> \o e) \o <<q>>) \o s = t
  <2>1. <<q>> \o e \in Seq(Symbols)
    BY <1>2, <1>5
  <2>2. ((<<q>> \o e) \o <<q>>) \o s = (<<q>> \o e) \o (<<q>> \o s)
    BY <1>5, <2>1, ConcatAssociative
  <2>3. (<<q>> \o e) \o (<<q>> \o s) = <<q>> \o body
    BY <1>2, <1>5, ConcatAssociative
  <2> QED BY <2>2, <2>3
<1>8. t \in Seq(Symbols) /\ IsCons(t, q, body)
  <2> HIDE DEF body
  <2> QED BY <1>1, <1>6, Prepended
<1> HIDE DEF t, body
<1>9. t # <<>> /\ t[1] = "'" /\ After(1, t) = body
  BY <1>8 DEF IsCons, q
<1>10. TokensOf(t, Tokenized) = <<Token("StringLiteral", text)>> \o Tokenized[s]
  BY <1>4, <1>9, SortsApart DEF TokensOf
<1> QED BY <1>3, <1>7, <1>8, <1>10, TokenizedDefined
=============================================================================
