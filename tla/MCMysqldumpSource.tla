------------------------ MODULE MCMysqldumpSource ------------------------
(* Two versions of one table's definition, rows of one and two values and  *)
(* a blob that the lexer does not know; a dump of at most four statements. *)
EXTENDS MysqldumpSource

MCSymbols == STRING

MCDefinitions == ("t(a,b)" :> [table |-> "t", columns |-> <<"a", "b">>])
              @@ ("t(b)" :> [table |-> "t", columns |-> <<"b">>])

Number(n) == InsertValue("Number", <<n>>)
Text(text) == InsertValue("String", text)
Null == InsertValue("Null", <<>>)

Create(definition, partitioned) ==
    [kind |-> "create", definition |-> definition, partitioned |-> partitioned]
Insert(rows) == [kind |-> "insert", table |-> "t", rows |-> rows]

MCStatements ==
    {Create("t(a,b)", FALSE), Create("t(b)", FALSE), Create("t(a,b)", TRUE),
     Insert(<< <<Number("1"), Text(<<"x", ";">>)>>, <<Number("2"), Null>> >>),
     Insert(<< <<Number("3")>> >>),
     Insert(<< <<Number("2"), InsertValue("Hex", <<>>)>> >>),
     [kind |-> "lock"], [kind |-> "comment"], [kind |-> "end"]}

\* Odd first values go to one channel, the others to the other.
MCChannelOf(key) ==
    IF key[2] # <<>> /\ key[2][1][2][2] \in {<<"1">>, <<"3">>} THEN "c1" ELSE "c2"

\* Texts of at most two characters out of those that the syntax gives a
\* meaning, in rows of at most two values and statements of at most two rows.
Texts == UNION {[1 .. n -> {"n", "'", "\\", "\n", "NUL", ";"}] : n \in 0 .. 2}
RowValues == {Null, Number("2"), Number("7.5")}
             \cup {InsertValue(type, text) : type \in {"String", "Binary"}, text \in Texts}
MCDumpedRows == {<< <<v, w>> >> : v, w \in RowValues}
                \cup {<< <<v>>, <<Null, v>> >> : v \in RowValues}
=============================================================================
