-------------------------- MODULE MysqldumpSource --------------------------
(***************************************************************************)
(* The mysqldump source (src/flink-cdc-rs/src/source/mysqldump.rs): it     *)
(* reads dump files line by line, gathers statements, records the tables   *)
(* of a batch's CREATE statements, and parses and sends the rows of its    *)
(* INSERT statements in parallel, through bounded channels.                *)
(*                                                                         *)
(* `dump` is what mysqldump dumped, one statement after the other; `lines` *)
(* is how it wrote them down.  Both are external, and so are the receivers *)
(* of the channels and the parser of CREATE statements.                    *)
(***************************************************************************)
EXTENDS InsertSyntax, FiniteSets, Bags

CONSTANTS
    Definitions,     \* from a CREATE statement's text to its table and columns
    Statements,      \* the statements that a dump may hold, "end" of file included
    MaxStatements,   \* bound on the length of a dump
    Zipped,          \* the files are entries of one archive
    Capacity,        \* pipeline.channel.capacity, also the statements of a batch
    Threads,         \* of the rayon pool
    Channels,
    ChannelOf(_),    \* the channel of a key
    ChannelSize,
    MaxFailures      \* bound on files not opened, failed reads, lost receivers

ASSUME SourceAssumption ==
    /\ Zipped \in BOOLEAN
    /\ {MaxStatements, Capacity, MaxFailures} \subseteq Nat
    /\ {Threads, ChannelSize} \subseteq Nat \ {0}

ASSUME StatementsAssumption ==
    \A s \in Statements :
        \/ /\ s.kind = "create"
           /\ s.definition \in DOMAIN Definitions /\ s.partitioned \in BOOLEAN
        \/ s.kind = "insert" /\ s.table \in Names /\ s.rows \in RowsOver(Dumpable)
        \/ s.kind \in {"lock", "comment", "end"}

VARIABLES
    dump,         \* external: the statements of the files
    lines,        \* external: their lines that are not read yet
    failures,     \* external: what went wrong outside
    sql_line,     \* the statement being read
    sql_buffer,   \* the batch being read
    table_cache,  \* the columns of the tables created so far
    tasks,        \* the INSERT statements of the batch being sent
    waiting,      \* external: the messages that wait in each channel
    open,         \* external: the channels that have a receiver
    sent,         \* history: the bag of records sent to a channel
    status

vars == <<dump, lines, failures, sql_line, sql_buffer, table_cache, tasks,
          waiting, open, sent, status>>

reading == <<lines, failures, sql_line, sql_buffer>>
receiving == <<waiting, open, sent>>

-----------------------------------------------------------------------------
(* Dump files (external).                                                  *)

EndOfFile == <<"EOF">>

\* The lines of a statement.  A partitioned table's CREATE statement ends in
\* a conditional comment on a line of its own, if its partitions are not listed:
\* a list takes lines of its own, of which the last does not start with the
\* comment and ends the statement.
Written(statement) ==
    CASE statement.kind = "create" ->
           LET head == <<"CREATE", " ", "TABLE", " ", statement.definition>>
           IN IF statement.partitioned
              THEN <<head \o <<"\n">>, <<"/*", "!50100 PARTITION", "*/", ";", "\n">> >>
              ELSE <<head \o <<";", "\n">> >>
      [] statement.kind = "insert" -> InsertLines(statement.table, statement.rows)
      [] statement.kind = "lock" -> << <<"LOCK", " ", "TABLES", ";", "\n">> >>
      [] statement.kind = "comment" -> << <<"--", " ", "text", "\n">>, <<"\n">> >>
      [] statement.kind = "end" -> <<EndOfFile>>

\* The rest of the dump after the file that is being read.
NextFiles(rest) ==
    LET ends == {i \in DOMAIN rest : rest[i] = EndOfFile}
    IN SubSeq(rest, (CHOOSE i \in ends : \A j \in ends : i <= j) + 1, Len(rest))

-----------------------------------------------------------------------------
Init ==
    /\ \E n \in 0 .. MaxStatements :
         \E statements \in [1 .. n -> Statements] :
            dump = statements \o <<[kind |-> "end"]>>
    /\ lines = FlattenSeq([i \in DOMAIN dump |-> Written(dump[i])])
    /\ failures = 0
    /\ sql_line = <<>> /\ sql_buffer = <<>>
    /\ table_cache = <<>>
    /\ tasks = {}
    /\ waiting = [c \in Channels |-> 0]
    /\ open = Channels
    /\ sent = EmptyBag
    /\ status = "opening"

-----------------------------------------------------------------------------
(* read, read_sql_file and read_zip_file.                                  *)

OpenFile ==
    /\ status = "opening" /\ lines # <<>>
    /\ status' = "reading"
    /\ UNCHANGED <<dump, reading, table_cache, tasks, receiving>>

\* A file that does not open is passed over, and with an archive's entry
\* all its later ones.
OpenFails ==
    /\ status = "opening" /\ lines # <<>>
    /\ failures < MaxFailures
    /\ failures' = failures + 1
    /\ lines' = IF Zipped THEN <<>> ELSE NextFiles(lines)
    /\ UNCHANGED <<dump, sql_line, sql_buffer, table_cache, tasks, receiving,
                   status>>

AllRead ==
    /\ status = "opening" /\ lines = <<>>
    /\ status' = "done"
    /\ UNCHANGED <<dump, reading, table_cache, tasks, receiving>>

-----------------------------------------------------------------------------
(* process_sql_file.                                                       *)

\* Lines of at most two bytes and lines that start a comment, wherever they
\* stand in a statement.
Discarded(line) == Len(line) <= 2 \/ line[1] \in {"--", "/*"}

Terminated(sql) == IsSuffix(<<";", "\n">>, sql) \/ IsSuffix(<<";">>, sql)

MutBatchIsFull(buffer) == Len(buffer) > Capacity

BatchIsFull(buffer) == Len(buffer) >= Capacity

ReadLine ==
    /\ status = "reading" /\ Head(lines) # EndOfFile
    /\ lines' = Tail(lines)
    /\ LET sql == sql_line \o Head(lines) IN
         \/ /\ Discarded(Head(lines))
            /\ UNCHANGED <<sql_line, sql_buffer, status>>
         \/ /\ ~Discarded(Head(lines)) /\ ~Terminated(sql)
            /\ sql_line' = sql
            /\ UNCHANGED <<sql_buffer, status>>
         \/ /\ ~Discarded(Head(lines)) /\ Terminated(sql)
            /\ sql_line' = <<>>
            /\ sql_buffer' = Append(sql_buffer, sql)
            /\ status' = IF BatchIsFull(sql_buffer') THEN "batch" ELSE status
    /\ UNCHANGED <<dump, failures, table_cache, tasks, receiving>>

MutLeftToParse(buffer) == BatchIsFull(buffer)

\* What the end of a file leaves in the buffer is a batch of its own.
LeftToParse(buffer) == buffer # <<>>

\* A statement without its end is dropped with the file.
EndFile ==
    /\ status = "reading" /\ Head(lines) = EndOfFile
    /\ IF LeftToParse(sql_buffer)
       THEN status' = "batch" /\ UNCHANGED lines
       ELSE status' = "opening" /\ lines' = Tail(lines)
    /\ sql_line' = <<>>
    /\ sql_buffer' = IF LeftToParse(sql_buffer) THEN sql_buffer ELSE <<>>
    /\ UNCHANGED <<dump, failures, table_cache, tasks, receiving>>

\* A read that fails counts as the end of the file.
ReadFails ==
    /\ status = "reading" /\ Head(lines) # EndOfFile
    /\ failures < MaxFailures
    /\ failures' = failures + 1
    /\ lines' = <<EndOfFile>> \o NextFiles(lines)
    /\ UNCHANGED <<dump, sql_line, sql_buffer, table_cache, tasks, receiving,
                   status>>

-----------------------------------------------------------------------------
(* parallel_parse.                                                         *)

\* classify_sql, as far as it is used: statements of other kinds are dropped.
IsInsert(sql) == IsPrefix(<<"INSERT", " ", "INTO">>, sql)
IsCreateTable(sql) == sql[1] = "CREATE"

\* What the SQL parser makes of a CREATE statement (external): it may or may
\* not accept one that another text follows.
CreateOutcomes(sql) ==
    IF Len(sql) = 7 THEN {sql[5]} ELSE {sql[5], "error"}

MutKeyedByText(cache, definitions) ==
    [d \in Range(definitions) |-> Definitions[d].columns] @@ cache

\* The last of the definitions that create the table: they are indexed by the
\* positions of their statements.
LastOf(table, definitions) ==
    definitions[Max({i \in DOMAIN definitions : Definitions[definitions[i]].table = table})]

CreatedBy(definitions) == {Definitions[d].table : d \in Range(definitions)}

MutKeepsFirst(cache, definitions) ==
    cache @@ [t \in CreatedBy(definitions) |-> Definitions[LastOf(t, definitions)].columns]

\* parse_create_table, one statement after the other: a table's columns replace
\* those it had.
WithTables(cache, definitions) ==
    [t \in CreatedBy(definitions) \cup DOMAIN cache |->
        IF t \in CreatedBy(definitions)
        THEN Definitions[LastOf(t, definitions)].columns
        ELSE cache[t]]

\* All CREATE statements of the batch come before all its INSERT statements.
ParseCreates ==
    /\ status = "batch"
    /\ sql_buffer' = <<>>
    /\ LET creates == {i \in DOMAIN sql_buffer : IsCreateTable(sql_buffer[i])}
           inserts == {i \in DOMAIN sql_buffer : IsInsert(sql_buffer[i])}
       IN \E parsed \in [creates -> DOMAIN Definitions \cup {"error"}] :
            /\ \A i \in creates : parsed[i] \in CreateOutcomes(sql_buffer[i])
            /\ IF \E i \in creates : parsed[i] = "error"
               THEN /\ status' = "panicked"
                    /\ UNCHANGED <<table_cache, tasks>>
               ELSE /\ status' = "sending"
                    /\ table_cache' = WithTables(table_cache, parsed)
                    /\ tasks' = {[at |-> i, sql |-> sql_buffer[i],
                                  parsed |-> FALSE, left |-> <<>>] : i \in inserts}
    /\ UNCHANGED <<dump, lines, failures, sql_line, receiving>>

\* build_debezium: values without a column are dropped, the key is the
\* table and the value of its first column.
Record(table, columns, values) ==
    LET n == IF Len(columns) <= Len(values) THEN Len(columns) ELSE Len(values)
        row == [i \in 1 .. n |-> <<columns[i], JsonValue(values[i])>>]
    IN [table |-> table, row |-> row, key |-> <<table, SubSeq(row, 1, 1)>>]

Records(cache, table, rows) ==
    IF table \notin DOMAIN cache THEN <<>>
    ELSE [i \in DOMAIN rows |-> Record(table, cache[table], rows[i])]

Started == {task \in tasks : task.parsed}

Others(task) == tasks \ {task}

\* What parse_insert_sql makes of the INSERT statements that dumps hold.  A
\* text that starts with INSERT is always one whole statement: only comments
\* and CREATE statements lose their end to a discarded line.
Parsed ==
    [sql \in {FlattenSeq(Written(statement)) :
                 statement \in {s \in Statements : s.kind = "insert"}} |->
        ParseInsert(sql)]

\* One thread takes up an INSERT statement: rows of unknown tables are
\* dropped, a statement that does not parse panics.
StartInsert(task) ==
    /\ status \in {"sending", "panicking"}
    /\ ~task.parsed /\ Cardinality(Started) < Threads
    /\ LET insert == Parsed[task.sql]
           records == Records(table_cache, insert.table, insert.rows)
       IN \/ /\ ~insert.ok
             /\ status' = "panicking"
             /\ tasks' = Others(task)
          \/ /\ insert.ok
             /\ tasks' = Others(task) \cup
                  (IF records = <<>> THEN {}
                   ELSE {[task EXCEPT !.parsed = TRUE, !.left = records]})
             /\ UNCHANGED status
    /\ UNCHANGED <<dump, reading, table_cache, receiving>>

MutHasRoom(channel) == waiting[channel] + 1 < ChannelSize

HasRoom(channel) == waiting[channel] < ChannelSize

\* send_debezium: a record whose channel has lost its receiver is dropped
\* with a warning.
SendRow(task) ==
    /\ status \in {"sending", "panicking"} /\ task.parsed
    /\ LET record == Head(task.left)
           channel == ChannelOf(record.key)
       IN \/ /\ channel \in open /\ HasRoom(channel)
             /\ waiting' = [waiting EXCEPT ![channel] = @ + 1]
             /\ sent' = sent (+) SetToBag({record})
          \/ channel \notin open /\ UNCHANGED <<waiting, sent>>
    /\ tasks' = Others(task) \cup
          (IF Len(task.left) = 1 THEN {}
           ELSE {[task EXCEPT !.left = Tail(@)]})
    /\ UNCHANGED <<dump, reading, table_cache, open, status>>

\* After a panic rayon need not start what it has not started.
Abandon(task) ==
    /\ status = "panicking" /\ ~task.parsed
    /\ tasks' = Others(task)
    /\ UNCHANGED <<dump, reading, table_cache, receiving, status>>

EndBatch ==
    /\ status \in {"sending", "panicking"} /\ tasks = {}
    /\ status' = IF status = "sending" THEN "reading" ELSE "panicked"
    /\ UNCHANGED <<dump, reading, table_cache, tasks, receiving>>

-----------------------------------------------------------------------------
(* The receivers of the channels (external).                               *)

Receive(channel) ==
    /\ channel \in open /\ waiting[channel] > 0
    /\ waiting' = [waiting EXCEPT ![channel] = @ - 1]
    /\ UNCHANGED <<dump, reading, table_cache, tasks, open, sent, status>>

Disconnect(channel) ==
    /\ channel \in open /\ failures < MaxFailures
    /\ failures' = failures + 1
    /\ open' = open \ {channel}
    /\ UNCHANGED <<dump, lines, sql_line, sql_buffer, table_cache, tasks, waiting,
                   sent, status>>

Batch == ParseCreates \/ EndBatch
            \/ \E task \in tasks : StartInsert(task) \/ SendRow(task)

Source == OpenFile \/ AllRead \/ ReadLine \/ EndFile \/ Batch

Next ==
    \/ Source
    \/ OpenFails \/ ReadFails
    \/ \E task \in tasks : Abandon(task)
    \/ \E channel \in Channels : Receive(channel) \/ Disconnect(channel)

Spec == Init /\ [][Next]_vars

\* The source runs on threads of its own, and every receiver that is there
\* goes on to receive.
FairSpec ==
    Spec /\ WF_vars(Source) /\ \A channel \in Channels : WF_vars(Receive(channel))

-----------------------------------------------------------------------------
(* What a dump stands for, statement after statement.                      *)

Created(k) == Definitions[dump[k].definition].table

Creates(k) == {i \in 1 .. k : dump[i].kind = "create"}

\* The columns of the tables that the first k statements create: those of a
\* table's last definition.
TablesAfter(k) ==
    [t \in {Created(i) : i \in Creates(k)} |->
        LET last == Max({i \in Creates(k) : Created(i) = t})
        IN Definitions[dump[last].definition].columns]

Readable(rows) == \A row \in Range(rows) : \A v \in Range(row) : v.type # "Hex"

\* The rows to be sent, by statement and place: those of tables that are created
\* before, where no row of the statement has a blob in hexadecimal, which to
\* the lexer is a number and a name.
RowsToSend ==
    UNION {{k} \X DOMAIN dump[k].rows :
             k \in {k \in DOMAIN dump : /\ dump[k].kind = "insert"
                                       /\ Readable(dump[k].rows)
                                       /\ dump[k].table \in DOMAIN TablesAfter(k)}}

RecordAt(k, i) ==
    Record(dump[k].table, TablesAfter(k)[dump[k].table], dump[k].rows[i])

\* The records of rows, as a bag.
RecordsOf(places) ==
    [record \in {RecordAt(p[1], p[2]) : p \in places} |->
        Cardinality({p \in places : RecordAt(p[1], p[2]) = record})]

Dumped == RecordsOf(RowsToSend)

\* The statements after the k-th up to the l-th, comments apart.
Apart(k, l) ==
    Cardinality({i \in k + 1 .. l : dump[i].kind \in {"create", "insert", "lock"}})

\* Every statement ends on a line that is no comment, and no table is created
\* anew so shortly after an INSERT into it that one batch holds both.
Ordinary ==
    /\ \A k \in DOMAIN dump : dump[k].kind = "create" => ~dump[k].partitioned
    /\ \A k, l \in DOMAIN dump :
          (/\ k < l /\ dump[k].kind = "insert" /\ dump[l].kind = "create"
           /\ Created(l) = dump[k].table)
             => Apart(k, l) >= Capacity

-----------------------------------------------------------------------------
\* The tables in the cache go by their names; each has all the columns of one of
\* its definitions.
CacheTyped ==
    \A t \in DOMAIN table_cache : \E d \in DOMAIN Definitions :
        Definitions[d].table = t /\ table_cache[t] = Definitions[d].columns

\* The state has its types.
TypeOK ==
    /\ failures \in 0 .. MaxFailures
    /\ status \in {"opening", "reading", "batch", "sending", "panicking",
                   "done", "panicked"}
    /\ waiting \in [Channels -> Nat]
    /\ open \subseteq Channels
    /\ CacheTyped
    /\ IsABag(sent)

\* A batch holds at least one statement, whatever the capacity.
BatchSize == IF Capacity = 0 THEN 1 ELSE Capacity

\* However long the dump is, the source holds a bounded part of it: a batch of
\* statements, the rows of one statement per thread, and what its channels
\* hold.  Nothing is parsed or sent while the next batch is read.
WithinLimits ==
    /\ Len(sql_buffer) <= BatchSize
    /\ Cardinality(Started) <= Threads
    /\ \A channel \in Channels : waiting[channel] <= ChannelSize
    /\ tasks # {} => status \in {"sending", "panicking"} /\ sql_buffer = <<>>

\* What mysqldump escapes the lexer reads back: an INSERT statement whose first
\* line begins a statement for the source, too, parses to the very rows that
\* were dumped, whatever quotes, backslashes, line ends, NULs and semicolons
\* their values hold.
DumpedRowsParse == sql_line = <<>> => RowsParse

CreatedOnce ==
    \A k, l \in DOMAIN dump :
        (dump[k].kind = "create" /\ dump[l].kind = "create" /\ Created(k) = Created(l))
            => k = l

\* parallel_parse may send the rows of several statements at once, and a
\* statement that does not parse, a lost file or a lost receiver cuts the
\* export short; yet what is sent is always a part of what was dumped: no row
\* twice, none under the columns that its table has at another place.  (The
\* tables of a file stay in the cache for the next ones: where a failure
\* loses the later CREATE of a table, the earlier one goes on to count.)
SentIsDumped ==
    Ordinary /\ (failures = 0 \/ CreatedOnce) => sent \sqsubseteq Dumped

\* However the statements fall into batches, files and lines, the end of read
\* is reached without a failure only when every row has been sent of every
\* table that was created before.
AllRowsSent == status = "done" /\ failures = 0 /\ Ordinary => sent = Dumped

\* Full channels hold the parsing threads up, never for good: the source
\* reads all files or panics, whichever threads and receivers are slow.
Finishes == <>(status \in {"done", "panicked"})
=============================================================================
