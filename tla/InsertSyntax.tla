---------------------------- MODULE InsertSyntax ----------------------------
(***************************************************************************)
(* The INSERT statements of a mysqldump file: the lexer and the parser of  *)
(* src/flink-cdc-rs/src/source/mysqldump.rs, and the JSON values that it   *)
(* makes of a row.  A text is a sequence of symbols.  A symbol is one      *)
(* character, or a whole run of identifier or number characters: the code  *)
(* reads such a run to its end, so that no run is split over two symbols.  *)
(***************************************************************************)
EXTENDS Integers, Sequences, SequencesExt, TLC

CONSTANTS
    Symbols,     \* of which texts are made
    Names,       \* identifiers that are no keyword
    Numerals,    \* runs that start with a digit, `-` or `+`
    Int64,       \* the numerals that parse as i64
    OneByte,     \* symbols that stand for one byte
    NotUtf8,     \* characters that no UTF-8 text holds
    DumpedRows   \* rows that mysqldump may write, for the property below

ASSUME NumeralsAssumption == Int64 \subseteq Numerals /\ "0" \in Int64

-----------------------------------------------------------------------------
(* The lexer.                                                              *)

\* What follows the first k symbols of a text, or of its tokens.
After(k, s) == SubSeq(s, k + 1, Len(s))

Blank == {" ", "\t", "\n", "\r"}
HexDigits == {"0", "1", "2", "3", "4", "5", "6", "7", "8", "9",
              "a", "b", "c", "d", "e", "f", "A", "B", "C", "D", "E", "F"}

\* match_keyword, for the spellings that a dump uses.
Keywords == [INSERT |-> "Insert", INTO |-> "Into", VALUES |-> "Values",
             NULL |-> "Null", _binary |-> "BinaryPrefix"]

\* "backtick" is the character itself, which no TLA+ string may hold.
Punctuation ==
    [c \in {"(", ")", ",", ";", "backtick", "."} |->
        CASE c = "(" -> "LeftParen"  [] c = "backtick" -> "Backtick"
          [] c = ")" -> "RightParen" [] c = "." -> "Dot"
          [] c = "," -> "Comma"      [] c = ";" -> "Semicolon"]

Kinds == Range(Keywords) \cup Range(Punctuation)
         \cup {"Identifier", "StringLiteral", "Number", "EOF", "Error"}

Tokens == [kind : Kinds, text : Seq(Symbols)]

Token(kind, text) == [kind |-> kind, text |-> text]

MutUnescaped(c) == IF c = "n" THEN c ELSE IF c = "0" THEN "NUL" ELSE c

\* The character after a backslash stands for another one, or for itself.
Unescaped(c) ==
    CASE c = "0" -> "NUL"
      [] c = "b" -> "BS"
      [] c = "Z" -> "SUB"
      [] c = "n" -> "\n"
      [] c = "r" -> "\r"
      [] c = "t" -> "\t"
      [] OTHER   -> c

HexByte(high, low) == "0x" \o high \o low

Push(c, literal) == [literal EXCEPT !.text = <<c>> \o @]

\* The literal whose opening quote has been read: its text and the input after
\* it.  An unterminated literal ends with the input.
LiteralOf(input, literal) ==
    LET n == Len(input)
        End(k) == [text |-> <<>>, rest |-> After(k, input)]
    IN CASE n = 0 -> End(0)
         [] n > 0 /\ input[1] = "'" ->
              IF n > 1 /\ input[2] = "'" THEN Push("'", literal[After(2, input)])
              ELSE End(1)
         [] n = 1 /\ input[1] = "\\" -> End(1)
         [] n > 1 /\ input[1] = "\\" /\ input[2] # "x" ->
              Push(Unescaped(input[2]), literal[After(2, input)])
         [] n > 1 /\ input[1] = "\\" /\ input[2] = "x" ->
              IF n < 4 THEN End(n)
              ELSE IF {input[3], input[4]} \subseteq HexDigits
              THEN Push(HexByte(input[3], input[4]), literal[After(4, input)])
              ELSE literal[After(4, input)]
         [] OTHER -> Push(input[1], literal[After(1, input)])

Literal[input \in Seq(Symbols)] == LiteralOf(input, Literal)

Special == Blank \cup DOMAIN Punctuation \cup {"'"}

\* The characters that mean something to the lexer and the bytes that escapes
\* stand for are symbols.
ASSUME SymbolsAssumption ==
    /\ Special \cup HexDigits \cup DOMAIN Keywords \cup Names \cup Numerals \subseteq Symbols
    /\ {"\\", "x", "n", "r", "Z", "NUL", "BS", "SUB"} \subseteq Symbols
    /\ \A high, low \in HexDigits : HexByte(high, low) \in Symbols

\* Runs are no keywords and no special characters, and none is both an
\* identifier and a number.
ASSUME RunsAssumption ==
    /\ (Names \cup Numerals) \cap (Special \cup DOMAIN Keywords) = {}
    /\ Names \cap Numerals = {}

\* read_identifier has read c to its end.
Word(c) == IF c \in DOMAIN Keywords THEN Token(Keywords[c], <<>>)
           ELSE Token("Identifier", <<c>>)

\* The tokens of the input, with EOF behind them, or Error where the lexer
\* gives up.
TokensOf(input, tokens) ==
    IF input = <<>> THEN <<Token("EOF", <<>>)>>
    ELSE LET c == input[1]
             rest == After(1, input)
         IN CASE c \in Blank -> tokens[rest]
              [] c \in DOMAIN Punctuation ->
                   <<Token(Punctuation[c], <<>>)>> \o tokens[rest]
              [] c = "'" -> <<Token("StringLiteral", Literal[rest].text)>>
                            \o tokens[Literal[rest].rest]
              [] c \in Numerals -> <<Token("Number", <<c>>)>> \o tokens[rest]
              [] c \in DOMAIN Keywords \cup Names -> <<Word(c)>> \o tokens[rest]
              [] OTHER -> <<Token("Error", <<>>)>>

Tokenized[input \in Seq(Symbols)] == TokensOf(input, Tokenized)

-----------------------------------------------------------------------------
(* The parser.                                                             *)

InsertValue(type, text) == [type |-> type, text |-> text]

KindAt(tokens, i) == IF i \in DOMAIN tokens THEN tokens[i].kind ELSE "None"

ValueKinds == {"StringLiteral", "Number", "Null"}

\* The value of the first token.
ValueAt(tokens, binary) ==
    LET kind == KindAt(tokens, 1)
        type == IF kind # "StringLiteral" THEN kind
                ELSE IF binary THEN "Binary" ELSE "String"
    IN InsertValue(type, tokens[1].text)

WithValue(value, row) == [row EXCEPT !.values = <<value>> \o @]

\* The row that the tokens begin with, and the tokens after it, given those of
\* shorter rows: a comma may end the row.
RowAt(tokens, binary, row) ==
    LET kind == KindAt(tokens, 1)
        others == row[<<After(2, tokens), binary /\ kind # "StringLiteral">>]
    IN CASE kind = "RightParen" -> [ok |-> TRUE, values |-> <<>>, rest |-> tokens]
         [] kind \notin {"RightParen"} \cup ValueKinds ->
              [ok |-> FALSE, values |-> <<>>, rest |-> <<>>]
         [] OTHER ->
              IF KindAt(tokens, 2) = "Comma"
              THEN WithValue(ValueAt(tokens, binary), others)
              ELSE [ok |-> TRUE, values |-> <<ValueAt(tokens, binary)>>,
                    rest |-> After(1, tokens)]

\* `_binary` applies to the next string.
RowOf(tokens, prefixed, row) ==
    IF KindAt(tokens, 1) = "BinaryPrefix" THEN RowAt(After(1, tokens), TRUE, row)
    ELSE RowAt(tokens, prefixed, row)

Row[at \in Seq(Tokens) \X BOOLEAN] == RowOf(at[1], at[2], Row)

\* The rows that the tokens begin with, after their first parenthesis.
RowsOf(tokens, rows) ==
    LET row == Row[<<tokens, FALSE>>]
        Failed == [ok |-> FALSE, rows |-> <<>>]
    IN CASE ~row.ok \/ KindAt(row.rest, 1) # "RightParen" -> Failed
         [] row.ok /\ KindAt(row.rest, 1) = "RightParen" ->
              IF KindAt(row.rest, 2) # "Comma"
              THEN [ok |-> TRUE, rows |-> <<row.values>>]
              ELSE IF KindAt(row.rest, 3) # "LeftParen"
              THEN Failed
              ELSE [rows[After(3, row.rest)] EXCEPT !.rows = <<row.values>> \o @]

Rows[tokens \in Seq(Tokens)] == RowsOf(tokens, Rows)

\* parse_insert_sql: whatever follows the last row is ignored.
ParseInsert(sql) ==
    LET tokens == Tokenized[sql]
        quoted == KindAt(tokens, 3) = "Backtick"
        name   == IF quoted THEN 4 ELSE 3
        values == IF quoted THEN 6 ELSE 4
        parsed == Rows[After(values + 1, tokens)]
        ok     == /\ \A i \in DOMAIN tokens : tokens[i].kind # "Error"
                  /\ KindAt(tokens, 1) = "Insert"
                  /\ KindAt(tokens, 2) = "Into"
                  /\ KindAt(tokens, name) = "Identifier"
                  /\ quoted => KindAt(tokens, 5) = "Backtick"
                  /\ KindAt(tokens, values) = "Values"
                  /\ KindAt(tokens, values + 1) = "LeftParen"
                  /\ parsed.ok
    IN IF ok THEN [ok |-> TRUE, table |-> tokens[name].text[1], rows |-> parsed.rows]
       ELSE [ok |-> FALSE, table |-> "", rows |-> <<>>]

\* convert_serde_value: a string of one byte becomes the number of the byte,
\* a number that is no i64 becomes 0, bytes become base64.
JsonValue(value) ==
    CASE value.type = "String" ->
           CASE Len(value.text) = 1 /\ Range(value.text) \subseteq OneByte -> <<"byte", value.text>>
             [] OTHER -> <<IF Range(value.text) \cap NotUtf8 = {} THEN "string" ELSE "base64",
                           value.text>>
      [] value.type = "Number" ->
           <<"number", IF value.text[1] \in Int64 THEN value.text ELSE <<"0">> >>
      [] value.type = "Binary" -> <<"base64", value.text>>
      [] value.type = "Null" -> <<"null", <<>> >>

-----------------------------------------------------------------------------
(* What mysqldump writes (external).                                       *)

Escaped(c) ==
    CASE c = "NUL" -> <<"\\", "0">>
      [] c = "SUB" -> <<"\\", "Z">>
      [] c = "\n"  -> <<"\\", "n">>
      [] c = "\r"  -> <<"\\", "r">>
      [] c \in {"'", "\"", "\\"} -> <<"\\", c>>
      [] OTHER -> <<c>>

Quoted(text) ==
    <<"'">> \o FlattenSeq([i \in DOMAIN text |-> Escaped(text[i])]) \o <<"'">>

WrittenValue(value) ==
    CASE value.type = "String" -> Quoted(value.text)
      [] value.type = "Binary" -> <<"_binary", " ">> \o Quoted(value.text)
      [] value.type = "Number" -> value.text
      [] value.type = "Null"   -> <<"NULL">>
      [] value.type = "Hex"    -> <<"0", "xFF">>   \* --hex-blob: 0xFF...

Separated(texts) ==
    FlattenSeq([i \in DOMAIN texts |->
                    texts[i] \o (IF i = Len(texts) THEN <<>> ELSE <<",">>)])

WrittenRow(row) ==
    <<"(">> \o Separated([i \in DOMAIN row |-> WrittenValue(row[i])]) \o <<")">>

InsertHead(table) == <<"INSERT", " ", "INTO", " ", "backtick", table, "backtick", " ", "VALUES">>

\* Each row stands on a line of its own.
InsertLines(table, rows) ==
    <<InsertHead(table) \o <<"\n">> >>
    \o [i \in DOMAIN rows |->
            WrittenRow(rows[i]) \o (IF i = Len(rows) THEN <<";", "\n">> ELSE <<",", "\n">>)]

\* The values of rows without blobs in hexadecimal, and of all rows.
Writable ==
    [type : {"String", "Binary"}, text : Seq(Symbols)]
    \cup [type : {"Number"}, text : {<<c>> : c \in Numerals}]
    \cup [type : {"Null"}, text : { <<>> }]

Dumpable == Writable \cup {InsertValue("Hex", <<>>)}

\* Rows have values, INSERT statements have rows.
RowsOver(values) == Seq(Seq(values) \ { <<>> }) \ { <<>> }

\* The lexer takes a blob in hexadecimal for a number and a name.
ASSUME DumpedRowsAssumption ==
    DumpedRows \subseteq RowsOver(Writable) /\ "xFF" \in Names

-----------------------------------------------------------------------------
(* What mysqldump escapes the lexer reads back: whatever characters the    *)
(* values of a row hold, quotes, backslashes, line ends, NUL, parentheses  *)
(* and semicolons included, and whatever follows the row's `_binary`       *)
(* prefixes, the statement parses to the very rows that were dumped.       *)
RowsParse ==
    \A table \in Names, rows \in DumpedRows :
        ParseInsert(FlattenSeq(InsertLines(table, rows)))
          = [ok |-> TRUE, table |-> table, rows |-> rows]
=============================================================================
