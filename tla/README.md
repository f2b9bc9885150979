# TLA+ models of binlog-cdc

`binlog-cdc` reads changes out of MySQL and brings them to Kafka, to files or to
another MySQL. This directory holds TLA+ modules that model its programs, the
TLC configurations that check them on small instances, and theorems proved with
TLAPS. Every definition is translated from the Rust sources; `PROJECT.json` maps
each one to its lines.

## The system

Three programs: `flink-cdc-rs` (incremental), `flink-cdc-init` (full export) and
`flink-cdc-oom-lab` (a load generator). `source`, `sink`, ... below are
directories of `flink-cdc-rs/src`.

| Part | State | Operations | Interacts with |
| --- | --- | --- | --- |
| Incremental pipeline (`pipeline/mod.rs`, `sink/kafka.rs`, `sink/console.rs`) | N bounded Tokio channels; per worker a batch and the groups per partition; join handles | wire up, route and send, `recv_many`, convert and group, produce, exit, join, sample | the source task by `send().await`, Kafka by `produce().await`, the sampler by clones of the senders |
| MySQL binlog reader (`source/mysql.rs`) | connection, `current_binlog`, `table_meta_cache` | rotate, table map, three kinds of row events, errors | MySQL by a binlog dump and by `desc`, the savepoint, the channels |
| Savepoint (`savepoint/local.rs`) | one file with a binlog file name | save, load | the reader |
| Conversion (`pipeline/message.rs`, `pipeline/formatter.rs`, `mysql/schema.rs`) | none | row to Debezium record and message key; panics on some values | called by the source (routing key) and by the workers |
| Kafka to MySQL (`source/kafka.rs`, `sink/mysql.rs`) | consumer offsets, cache of target tables | consume, upsert, delete, describe | Kafka with automatic commits, MySQL |
| RocketMQ and console sources (`source/rocketmq.rs`, `source/console.rs`) | none | parse and send | the same channels and workers |
| Metrics, HTTP server (`common/mod.rs`, `main.rs`) | gauges and counters | set, serve | `main` spawns the pipeline task and never looks at its handle |
| mysqldump source (`source/mysqldump.rs`) | the statement and the batch being read, the columns of created tables, the parsing threads | read lines, cut statements, gather batches, parse, send | dump files or an archive, a rayon pool, channels; `pipeline()` has no arm for it yet |
| Configuration (`config/*`) | none | table filters, routes, defaults | all |
| `flink-cdc-init` | semaphore, one task per table, producer queue, summaries | discover, count, select, send in batches, join, flush, verify | MySQL, Kafka (rdkafka or rskafka), a file |
| Not reachable from `pipeline()` | | `source/binlog.rs`, `source/mysqldump.rs` (modelled), `transform/*`, `MysqlDebezium`, `KafkaSink`, `SpmcKafkaSink` | |
| `flink-cdc-oom-lab` | rate budget, sequence numbers | load phases | Kafka |

What is hard about it, and what makes each part correct:

* **Pipeline.** One reader, N workers, and per batch one concurrent produce
  request for each partition. Rows of one key have to stay in order through
  hashing, batching and grouping while requests fail, answers are lost, workers
  panic and the reader is blocked by a full channel; nothing may be lost without
  an error or be written twice; the orderly end has to drain everything.
* **Reader.** Table ids are only valid for a while, the metadata is read at
  another time than the event was written, and the savepoint is written at
  another time than the rows are delivered. A row has to be decoded as its own
  table, and a restart may repeat rows but must not skip any.
* **Kafka to MySQL.** Records are redelivered, statements fail, and offsets are
  committed by somebody else. The replica has to converge.
* **mysqldump source.** Statements are cut out of lines and gathered in batches;
  the INSERTs of a batch are parsed and sent by several threads through channels
  that may be full; files, reads and receivers get lost. What is sent has to be
  what was dumped, each row once and under its own table's columns.
* **Full export.** Tables are exported concurrently, limited by a semaphore,
  while clients change them; the exit code and the row count verification have
  to mean what they say, and the program has to end.

`PROJECT.json` lists every such hazard at its line with the properties that
watch it.

## Modules

| Module | Models |
| --- | --- |
| `CdcPipeline` | the incremental pipeline, MySQL to Kafka and MySQL to console |
| `KeyedDelivery` | abstract specification: ordered, at most once, lossy delivery per key |
| `BinlogReader` | the reader's side: rotation, metadata cache, savepoint, restarts, with the MySQL server |
| `TableFilter` | how the two programs read `source.tables` (pure operators) |
| `SnapshotInit` | `flink-cdc-init`; extends `TableFilter` |
| `TableExport` | abstract specification: each table exported as one SELECT saw it, success only with all of it |
| `FollowedBinlog` | abstract specification: the binlog passed over in order, rows forwarded as their own table's |
| `MysqlApply` | Kafka to MySQL, with the source table the records come from |
| `ReplicatedTable` | abstract specification: records applied in order, whole rows, only a restart goes back |
| `InsertSyntax` | lexer and parser of the mysqldump source, and its JSON values (pure operators) |
| `MysqldumpSource` | the mysqldump source; extends `InsertSyntax` |
| `CdcPipeline_proofs`, `BinlogReader_proofs`, `SnapshotInit_proofs`, `MysqlApply_proofs`, `MysqldumpSource_proofs` | theorems about the module they extend, with TLAPS proofs |
| `SetInduction`, `InsertLexer_proofs`, `InsertSyntax_proofs` | induction without operators as parameters, and what it shows of lexer and parser |
| `MC...` | values of the constants for TLC, one module each |

### CdcPipeline

A row change is a record of its operation, its routing key (`row_partition_key`:
the primary key, of the *before* image for an update) and the conversion that
panics on it, if any.
The history `binlog` holds all rows read; everything else names a row by its
position in it, so that "earlier" and "once" can be stated. Keys are hashed by
two independent functions `ChannelOf` and `PartitionOf`, which covers
`hash % channels.len()` and `hash % partitions` for any hash.

| Code | Model |
| --- | --- |
| `read()` returns a rows event; error ends the loop | `ReadRowsEvent`; `SourceStops` |
| `send_*_rows`, `send_binlog_event`, one row | `SendBinlogEvent` (waits for room, or fails when the receiver is gone) |
| `row_partition_key` panics | `SourcePanics` |
| worker loop: `recv_many` | `RecvMany` |
| `message_records` and the fold, one record | `MessageRecords`, or `WorkerPanics` |
| `produce_records`, one of the joined futures | `ProduceRecords`: written or not, acknowledged or not |
| `recv_many` returns 0 | `WorkerExits` |
| `handle.await.expect` | `AwaitHandle` |
| `spawn_channel_sampler` | `Sampler`, `SampleChannels` |

With `SinkMayFail` and `Sampler` FALSE, one partition and `BatchSize` 1 the same
module is the console pipeline, whose worker takes one record after the other
and whose output cannot fail. `recv_many` takes all that is queued up to its
limit, which is Tokio's behaviour; a request's retries inside rskafka end in one
of `ProduceRecords`' outcomes. A partition that has no producer
(`sink/kafka.rs:428`) cannot be hashed to, since Kafka numbers partitions from
0.

`KeyedDelivery` is what a consumer may rely on. `ImplementsDelivery` maps its
`source` to `binlog` and its `sink` to `log`.

### BinlogReader

The server (external) appends transactions of a table map and a rows event,
alters tables, rotates, and restarts with its table ids counted from the start.
A dump announces each file by a rotate event of its own, the first one too,
which is why `current_binlog` is known before any table map. `StartReading` loads
the savepoint (`FileToRead`): when there is none, or it cannot be read, that is the
configured file. It connects there at the configured position (`Connection`); for
an empty name the client, which lies outside `src/`, asks the server for the file and
position it has come to, and begins there. `ReadRotate`, `ReadTableMap` and
`ReadRows` are the branches of `read()`; `ReadError` is any way it ends, a panic
of `connect()` or `create_dir_all()` too. The savepoint is emptied by an
`fs::write` that fails after it has truncated the file, with the process reading
on (`ReadRotate`), and by a `Kill` in between. A name that was written in part is
not modelled: the server knows no such file and refuses it. The histories
`unreadable` and `skipped` remember that this process could not read its savepoint,
and which rows starts from an empty one have passed over.

The way through the channels is one step, `Deliver`: how it works is
`CdcPipeline`'s matter, when it happens is what a kill makes important.
`stream.limit` says that a connection shows nothing a restarted server has written.

`FollowedBinlog` is what the reader promises, without table ids, cache and
savepoint file. `ImplementsFollowed` maps its `at` to the stream's file and
position, its `rows` to `forwarded` with the table of the metadata, `undescribed`
to the table maps whose `desc` failed, and `kept` to the file that the savepoint
names, the configured one when there is no savepoint, or `Lost` when it is empty:
only then may a restart skip, and only to the end of the binlog.

### TableFilter and SnapshotInit

`TableFilter` has both readings of a table list: flink-cdc-init's rules (text
before the last dot, a regular expression behind it, anchored at both ends) and
the incremental pipeline's comparison of names, in which only `*` stands for
anything else. Regular expressions are matched by their definition, for the
operators that table lists use: a pattern is the set of its pieces, each with
its place, and `Matches` a function over pairs of places in pattern and name.
Names are sequences of characters.

`run()` starts with steps that may each return an error: `ReadConfig`,
`ConnectSource`, one of four `Build...Sink`, `DiscoverTables`. They come before
each other as in the code, so that a file is truncated (`BuildFileSink`) before
anything is known of the tables. `Spawn` starts the tasks in the order of the
tables' names, each with a permit; with `StartJoining`, `JoinFinished`,
`JoinFailed` and `FlushAndVerify` it is the rest of `run()`; a table's task goes
through counting, loading, fetching and sending. `sink`, which never changes, is
the configured sink: librdkafka's queue with `DeliverMessage` as its thread and
the three steps of the retry on a full queue, rskafka and the console with one
awaited message per step, the file (truncated, or with `sink.append`) with a
buffer that is only written out by the flush. `Earlier` stands for what an
earlier export left in the file. `ChangeTable` are the clients of the database.
Rows are sets: a SELECT without ORDER BY has no order to keep. `flush()` of
librdkafka waits 30 s for messages that time out after 10 s, so it is modelled
as waiting for the empty queue.

`TableExport` is what the program promises, without tasks, batches, sinks and
queues. `ImplementsExport` maps its `snapshot` to `selected`, `exported` to the
rows in the topic or file, `lost` to those librdkafka gave up on, and `result` to
the end of `run()`.

### MysqlApply

The topic holds the changes of one source table, written by Debezium or, with
`OwnProducer`, by this project's pipeline, whose deletes have op `c`. An update
may move a row to another key; its record then goes to the old key's partition.
Both tables gain and lose columns by `AlterTable`, and a record has the columns
of its time.

One consumer hands record after record to the sink. An upsert inserts the
columns that record and cached metadata share and, where the row exists, sets
*all* columns of the metadata, those the record lacks to their default, which may
be another value than `Null`; it is
refused when the cache has a column that is gone. A delete removes the before
image's key, and without one everything. A failing statement may have been
executed. `AutoCommit` stands for the Kafka client's defaults, which the code
does not change: the offset behind a record counts as soon as the record is
handed out. `outcome` remembers how the last attempt at each record ended, and
with which columns; a column that the replica drops later is taken out of it
(`Forgotten`), since what a row had there is gone, also when a column of that name
comes back.

`ReplicatedTable` is what a consumer of the replica may rely on, without
consumer, offsets and cache. `ImplementsReplica` maps its `log` to `topic`, `done`
to the records of each partition that the sink is through with (`Done`), `rows`
to `replica`, `shape` to the replica's columns and `known` to the cached ones
(`Meta`). `ReplicaConverges` compares it with the source.

### InsertSyntax and MysqldumpSource

A text is a sequence of `Symbols`: a character, or a run of identifier or number
characters, which the lexer reads to its end anyway. `Literal`, `Tokenized`,
`Row`, `Rows` and `ParseInsert` are the functions of lexer and parser. The first
four are recursive functions of what is left of the input; their bodies
(`LiteralOf`, `TokensOf`, `RowOf`, `RowsOf`) are operators of their own. A blob
that is dumped in hexadecimal is a number and a name to the lexer, so that the
parser refuses its statement.

`dump` is what mysqldump dumped, `lines` how it wrote it down (`Written`).
`TablesAfter`, `RowsToSend` and `Dumped` say what the dump stands for, without
lines, batches and threads; `WithTables` is what a batch of CREATE statements makes
of the cache.
`ReadLine`, `EndFile`, `ReadFails` and the steps that open files are
`process_sql_file` and its callers; `ParseCreates` the sequential part of
`parallel_parse`; `StartInsert` and `SendRow` one rayon thread each, which parses
a statement and sends its rows one by one, waiting for room. The channels'
receivers, which this source does not have in `pipeline()`, and the parser of
CREATE statements are external. A statement that does not parse panics; what
other threads have started goes on, what has not been started may be abandoned.

## Runs

Bounds are constants of the modules, each one named in a guard.

| Run | Bounds | Shows |
| --- | --- | --- |
| `order` | 3 keys, 2 channels of 3 slots, 2 partitions, batches of 2, 4 rows, panicking rows | `TypeOK`, `KeyOrder`, `NoSilentLoss`, `NoDuplicate`, `PanicLosesSuffix`, `ImplementsDelivery` |
| `live` | as above, 3 rows, 1 slot, no sampler | `SendUnblocks`, `EventuallySettled`, `DoneMeansDrained`, `PipelineEnds` |
| `reader` | 2 tables of which 1 is included, 2 files, 4 events in all, 2 schema versions, 1 kill, failing `desc`, savepoints that are emptied or cannot be read | `TypeOK`, `DecodedByOwnTable`, `PassedRowsForwarded`, `ReadsFromSavepoint`, `ImplementsFollowed`, `EventuallyForwarded` |
| `export` | 5 kinds of sink, 4 tables of which 3 are taken, with 2, 1 and 0 rows, 2 permits, batches of 2, queue of 1, 1 change | `TypeOK`, `OkMeansExported`, `ExportedAreFollowed`, `ImplementsExport`, `Terminates` |
| `replay` | 2 keys in 1 partition, 2 columns of 2 values, a default that is not `NULL`, 2 records, 1 ALTER, 1 kill | `TypeOK`, `LastChangeDecides`, `OnlyMovesLeaveRows`, `CommittedWereAttempted`, `ReplicaConverges`, `ImplementsReplica`, `EventuallyAttempted` |
| `dump` | 4 statements in up to 5 files, batches of 2, 2 threads, 2 channels of 1 message, 1 failure; for `DumpedRowsParse` all rows of up to 2 values of up to 2 of 6 characters | `TypeOK`, `WithinLimits`, `DumpedRowsParse`, `SentIsDumped`, `AllRowsSent`, `Finishes` |

Why these are enough: the keys' hashes are chosen so that one channel feeds two
partitions and one partition is fed by two channels; a key has up to four rows,
more than a batch or a group holds; a channel can hold more than a
batch takes. In `live` the one slot is full all the time. In `reader` four events
are two transactions, before and behind an ALTER, a restart of the server, a
rotation or a kill; the second file begins with the table ids of the first, and
one start is that of a process whose savepoint another one has written, emptied or
left behind. A table of two rows fills a batch and leaves no rest, one
of one row leaves a rest; three tables and two permits make the spawning wait for
a task to end, and two tasks compete for the one place in the producer's queue.
The list in `export` has a `db.*`, a name, a blank and an empty item, and takes one
of two tables of a database. In `replay` two records of one key are one before and
one behind the committed offset, and one attempted twice; the replica begins
without a column of the source, so that one ALTER makes the cache stale in
either direction; one partition is enough for the run, since the consumer hands
out one record at a time and offsets of partitions do not depend on each other.
(A row that moves between keys of two partitions is excepted by
`OnlyMovesLeaveRows`, because its records may be applied in the wrong order; the
theorems of `MysqlApply_proofs` hold for any number of partitions.) In `dump` a
batch is one statement short of, equal to and one longer than a file; a table
has two definitions, so that its columns may be the wrong ones; two texts of two
characters each hold all pairs of characters that the lexer reads together, the
end of one literal next to the start of the other.

Six runs, one for each property's refutation, show where the code and what is
said of it differ:

| Run | Property | Difference |
| --- | --- | --- |
| `sampler` | `PipelineEnds` | the sampler's senders keep the workers of MySQL to Kafka waiting for ever, against the lifecycle of the design document |
| `offset` | `PassedRowsForwarded` | the configured position is applied to the savepoint's file: a restart skips |
| `kill` | `LostRowsAreReread` | the savepoint names the new file while rows of the old one are in flight: a kill loses them |
| `pattern` | `ExportedAreFollowed` | README and the example configurations give a pattern as `source.tables`: flink-cdc-init exports the tables that match, `can_exclude` follows none of them |
| `init_delivery` | `OkMeansVerified` | rows that librdkafka never delivered count as exported |
| `resurrect` | `OnlyMovesLeaveRows` | the pipeline's own deletes are written with op `c`, against README and the reader of op in `sink/mysql.rs`, which brings the deleted row back |

`PipelineEnds`, `PassedRowsForwarded`, `ExportedAreFollowed` and
`OnlyMovesLeaveRows` hold where the cause is absent (`live` has no sampler, which
is the wiring of the console pipeline; the position is a file's start; the list has
names and `db.*` only; Debezium writes the records), which the
passing runs show; `OkMeansExported`, which excepts what librdkafka gave up on,
implies `OkMeansVerified` for the other sinks.

What the passing properties leave out has something to say as well:

* `PassedRowsForwarded` and `FollowedBinlog` except a start from an emptied
  savepoint, which skips what README.md:70 says a restart repeats. That it skips
  is due to the client's reading of an empty file name.
* `ReadsFromSavepoint` excepts a process that could not read its savepoint and goes
  back to the configured file.
* `SentIsDumped` and `AllRowsSent` speak of an `Ordinary` dump. A partitioned
  table's CREATE statement, unless its partitions are listed, ends in a line that
  starts with `/*` and is thrown away as a comment, so that the statement runs
  into the next one; and the CREATE statements of a batch all come before its
  INSERTs, so that a table which is created anew shortly after an INSERT gets
  its second definition under the first one's rows. The model has both behaviours;
  no property covers them. `flink-cdc-rs/README.md:3-9` calls the parsing of dumps and
  `mysqldump -> console` done, without saying what a dump may contain.
* `Dumped`, with which the two compare what is sent, uses the code's own `Record`
  and `JsonValue`: they show that no row is lost, repeated, mixed up or put under
  other columns, not that a value is converted to the right JSON. A string of one
  byte becomes a number.
* `LastChangeDecides` has a column that the record lacks at its default. The test
  `translates_explicit_null_and_missing_column_to_sql_null` (`sink/mysql.rs:426`)
  expects `NULL`, but of a statement that it builds itself from all columns of the
  metadata; `insert_update_data` leaves out those that the record lacks (`:101`), and
  MySQL fills in the default. `replay` has a default that is not `NULL`, so that the
  two differ: the test's statement is the mutant `MutMissingIsNull`, which violates the
  property.
* `KeyOrder` is about the key a row is routed by, that of the before image. The
  record's own key is the after image's. The design document
  (`2026-08-10-tokio-mpsc-pipeline-design.md`) routes by the message key (line 10) and
  keeps a key in one partition (line 20): after a move the records of one message
  key may lie in two partitions, in any order.
  `LastChangeDecides` and `OnlyMovesLeaveRows` except such rows.
* `MysqlApply` has keys of one column. A composite key of which the before image
  lacks a part makes `delete` (`sink/mysql.rs:75`) take all rows with the rest of it.

Deadlock is checked but in three modules. A reader (`BinlogReader`) whose loop has
ended stops for good, in a process that lives on; `MysqlApply`'s consumer waits
once the bounds let nobody write another record; `MysqldumpSource` ends with its
files. Liveness properties say that these stop where they should. The other
modules have the program's resting states as stuttering actions
(`MetricsServerOnly`, `Exited`).

Each property has a mutant of a mapped definition, listed in `PROJECT.json`,
that violates it. Mutants stand next to the definition they change, with the
prefix `Mut`.

### Fairness

* `CdcPipeline`: weak fairness for each task's steps, because Tokio polls every
  woken task, and for produce requests, because rskafka answers or fails. None
  for `ReadRowsEvent` and `SourceStops`: nothing says that MySQL has more events.
* `BinlogReader`: weak fairness for the reader's steps only.
* `SnapshotInit`: weak fairness for `run()`, for each table's task and for
  librdkafka's thread, which delivers or times out each message.
* `MysqlApply`: weak fairness for the sink, strong fairness for polling each
  partition: the client's queue holds records of all partitions in the order of
  arrival, so that a partition with records is not passed over for ever.
* `MysqldumpSource`: weak fairness for the source, whose threads the operating
  system schedules, and for each receiver as long as it exists. None for
  failures, nor for rayon's abandoning of statements after a panic.

## Proofs

All theorems hold for every value of the constants that the modules' named
assumptions allow: any number of tables, keys, rows, records, partitions, files,
threads and failures. Invariants that are not inductive come with a strengthening
that is; each one was checked by TLC on the configuration of its module's run
before it was proved, except `ExportInv` of `MysqldumpSource_proofs`, whose witnesses
TLC cannot enumerate. In all proof modules a step of the system is proved to keep the
invariant by one lemma per part of it, with one step per action.

### CdcPipeline_proofs

From `ConfigAssumption` only (positive parallelism,
capacity and batch size, total hash functions) and for any number of keys,
partitions, channels and rows:

| Theorem | Statement |
| --- | --- |
| `TypeCorrect` | `Spec => []TypeOK` |
| `KeyOrderCorrect` | `Spec => []KeyOrder` |
| `PanicLosesSuffixCorrect` | `Spec => []PanicLosesSuffix` |
| `NoDuplicateCorrect` | `Spec => []NoDuplicate` |
| `NoSilentLossCorrect` | `Spec => []NoSilentLoss` |
| `DoneMeansDrainedCorrect` | `Spec => []DoneMeansDrained` |
| `Refinement` | `Spec => ImplementsDelivery` |

`KeyOrder` is not inductive: whether a request may append its group depends on
what else is on the way. The invariant `IInv == AllQueues /\ AllLogs /\ LostInv`
says, for each worker, that its groups, then its batch, then its channel are one
queue in the order of positions: within a group, within the batch and within the
channel positions increase, everything grouped is older than everything in the
batch and that is older than everything queued, a group for `p` holds only rows
hashed to this channel and to `p` (`AllQueues`); that what a partition has is
older than whatever of the same channel is still pending, because only its own
worker writes a channel's rows (`AllLogs`); and that nothing pending or written
follows a lost row of its channel, because a panic ends the worker (`LostInv`).
Rows of one key share a channel, so the order per channel gives the order per
key, and "older" is strict, which gives no duplicates. The proof of `Inductive`
has one lemma per part and in it one step per action; lemmas about `SubSeq`,
`Append` and `Range` are stated once.

`NoSilentLoss` is inductive beside `IInv`: a row leaves its worker's hands only to
be settled (`HeldStaysOrSettles`), what is settled stays so (`SettledStays`), and a
row that is sent is queued or lost (`SentRowIsAccounted`). `DoneMeansDrained`
follows from it with `EndInv`: an exited worker has nothing in its hands and sees
no sender any more, and pipeline() has awaited exactly the exited ones, so that no
worker panicked. `Refinement` maps a read to `Read`, a request that was appended
to `Deliver`, whose guard is `LogInv` of the next state, and all else to a stutter.

### BinlogReader_proofs

| Theorem | Statement |
| --- | --- |
| `TypeCorrect` | `Spec => []TypeOK` |
| `ReadingFromSavepoint` | `Spec => []ReadsFromSavepoint` |
| `RowsOfOwnTable` | `Spec => []DecodedByOwnTable` |
| `NoRowPassedOver` | `StartEvent = 0` implies `Spec => []PassedRowsForwarded` |
| `Following` | `StartEvent = 0` implies `Spec => ImplementsFollowed` |

`StartEvent = 0` says that the configured position is the start of a file.
Otherwise the property is false, as `offset` shows.

Why a row is decoded as its own table takes more than the reader knows
(`DecodedInv`): within a file all events with one id are of one table and one
version (`SameIdSameTable`), which the server keeps because an ALTER takes a new
id and a restart, which begins with the old ids again, also begins a new file
(`OpenIds`). The reader's cache is asked with the name of the file it reads
(`CurrentIsRead`), every entry stems from an event with its id in its file, and is
not older than it, because `desc` answers later than the event was written
(`CacheFromEvents`, `NoEventAhead`).

For `PassedRowsForwarded` a transaction's table map has to be before its rows
(`RowsBehindMap`) and a map never the last event of a file (`MapBeforeRows`): then
the reader, which begins at the start of a file or, with an empty savepoint, at
the end of one, never begins between a map and its rows (`FromTransaction`). The
included table map that it has just read is in the cache or its `desc` failed
(`MapTaken`), every event behind the reader is settled, that is forwarded,
excluded, undescribed or passed over by a start from an empty savepoint
(`PassedSettled`), and the savepoint only names a file when all of the files before
it are settled (`SavedSettled`), so that a restart may forget the rest.

`Following` needs no more than these: the server's steps map to `Write`, a table
map and a rows event to `ReadEvent`, a rotate event to `NextFile` or, when it only
announces the file at hand, to `Save`, an emptied savepoint to `Lose`, and the next
start to `Restart` or `RestartAtEnd`. A row that the cache cannot decode has a table
map before it that could not be described (`MapTaken`), which is what `PassOver`
asks for.

### MysqlApply_proofs

| Theorem | Statement |
| --- | --- |
| `TypeCorrect` | `Spec => []TypeOK` |
| `RestartsSkipNothing` | `Spec => []CommittedWereAttempted` |
| `LastRecordWins` | `Spec => []LastChangeDecides` |
| `RowsLeaveWithTheirDeletes` | `~OwnProducer` implies `Spec => []OnlyMovesLeaveRows` |
| `ReplicaFollowsSource` | `~OwnProducer` implies `Spec => []ReplicaConverges` |
| `Refinement` | `Spec => ImplementsReplica` |

`~OwnProducer` says that Debezium writes the records. With the program's own
MySQL source the property is false, as `resurrect` shows.

`CommittedWereAttempted` needs that every record handed out was attempted or is in
hand (`HandedOutAttempted`). `LastChangeDecides` speaks of a consumer that has
caught up; `LastDecides` says the same of any record that was handed out, in any
state. Its core is that an upsert makes of an existing row what an insert would
have made (`UpsertInserts`): columns the statement does not name have their default
in every row, as long as the cache does not know them (`UnknownIsDefault`), whether
it is up to date or was read before an ALTER. For `OnlyMovesLeaveRows` the
source's deletes stand behind what they delete (`DeletesRecorded`), and a row of
the replica was written by a record that no delete behind it has undone
(`RowsWritten`), neither in the first nor in a repeated pass over the topic.

`ReplicaConverges` joins both sides: `LastDecides` says what the replica has of a
record, and `SourceFollows`, an invariant of the source alone, what the source
still has of its last record, in all columns it has not dropped since.
`Refinement` needs `UnknownIsDefault` again: the abstract upsert replaces its row
as a whole, the statement sets only the columns that the cache knows.

### SnapshotInit_proofs

| Theorem | Statement |
| --- | --- |
| `TypeCorrect` | `Spec => []TypeOK` |
| `SuccessMeansExported` | `Spec => []OkMeansExported` |
| `Refinement` | `Spec => ImplementsExport` |
| `ListedAreFollowed` | `ListsTables` implies `Spec => []ExportedAreFollowed` |

`TypeOK` includes the account of the permits and is inductive. `ExportInv` adds
the flow of the rows: what a SELECT returned is always in one of three places, not
fetched yet, in the batch, or a message somewhere, and these hold nothing else
(`RowsFlow`), in every state of the task, for all sinks and after a failure; the
count of fetched rows agrees with it (`RowsCounted`); a table has nothing before
its SELECT (`NothingYet`), a task that finishes has nothing left in the first two
places (`FinishedSentAll`), and the verdict is given with all tasks finished and
the buffer written out (`SuccessVerified`). `EarlierKept` follows the content of
the file from the configuration to its opening, which comes before all tasks
(`TasksAfterSink`).

`Refinement` needs more than where the rows are: a row that is exported or lost
must have been pending. `OnceInv` adds to `ExportInv` that a row is in *one* place
while its task goes on, and that a message is queued, written or given up, never
two of these (`NoneTwice`). A task that failed in the middle of a batch may have
left a row there that is written already; it sends nothing any more. A SELECT
maps to `Read`, a message written or given up to `Export` or `Lose`, and
the step that ends `run()`, which may write out a file's buffer, to `End`.

`ListsTables` says that every item of the list is a table's name behind its
database's or `*` behind one, with blanks around it or not, and that no table of
the server is without a name. For other patterns `ExportedAreFollowed` is false, as
`pattern` shows.
An item has one dot, so that both programs cut it at the same place; an anchored
pattern of literals matches its own text only, and `*` every name (`ItemTakes`);
both programs cut the list at its commas and trim the pieces alike.

### SetInduction, InsertLexer_proofs, InsertSyntax_proofs

The library's induction theorems take a predicate as a parameter, which the
provers cannot instantiate. `SetInduction` states induction for a *set* of
numbers and, for the elements of any set with a rank, by rank (`RankInduction`);
a property is proved for all of them by naming the set of those that have it.
`Recursion` says that a recursive definition whose body looks only at arguments of
smaller rank defines a function; with it the lexer's and the parser's functions
satisfy their equations, and what they compute can be proved for inputs of every
length.

| Theorem | Statement |
| --- | --- |
| `SetInduction`, `RankInduction`, `Recursion` | induction and recursion, for any set and rank |
| `EscapesReadBack` | each character's escape is read back as the character |
| `LiteralReadBack` | each text's literal is read back as the text, and nothing behind it is |
| `InsertReadBack` | each INSERT statement of rows without hexadecimal blobs parses to its rows |
| `HexRefused` | the parser refuses each INSERT statement that has such a blob, in any row and place |

They assume what the constants of `InsertSyntax` say of symbols and runs
(`SymbolsAssumption`, `RunsAssumption`): no bound on texts, values, rows or
statements. `InsertReadBack` goes from the inside to the outside. A literal ends at
the first quote that is not escaped, and whatever the character is, `Escaped` writes
it as itself, and then it neither ends a literal nor begins an escape, or behind a
backslash, where `Unescaped` gives it back. So a value becomes its tokens, in front of
any text that does not begin with a quote (`NoQuote`: two quotes in a row are one
character of the literal); a row is read back in front of any such text
(`RowRead`), which is what makes the induction over its values go through, and
likewise the rows (`RowsRead`) and the statement's head. `HexRefused` is the same
induction with another end: at a hexadecimal blob the row ends with a number and
behind it stands a name, where the parser wants a comma or a parenthesis
(`RowBroken`, `RowsBroken`), whatever came before.

### MysqldumpSource_proofs

| Theorem | Statement |
| --- | --- |
| `LimitsKept` | `Spec => []WithinLimits` |
| `TypeCorrect` | `Spec => []TypeOK` |
| `DumpedRowsCorrect` | `Spec => []DumpedRowsParse` |
| `SentFromDump` | `Spec => []SentIsDumped` |
| `NoRowLeftOut` | `Routed` implies `Spec => []AllRowsSent` |

`LimitsInv` has a part for the batch, one for the tasks and one for the channels;
that a batch never exceeds its size needs to know in which states it is empty.
`TypeOK` says of the cache that its tables have the columns of one of their
definitions, which `WithTables` keeps because the last definition of a batch is
one of them (`LastCreates`). `DumpedRowsCorrect` is `InsertReadBack` for the rows
that the constants name.

`SentFromDump` and `NoRowLeftOut` are about the whole export: dumps of any
length in any number of files, any capacity, number of threads, channels, failures and
interleaving. Neither property is inductive, since the variables do not say where in
the dump the source is. `ExportInv` says that there is such a place
(`ExportAt`): `k` statements and `r` lines of the next one are read (`ReadAt`:
`lines` is the rest of the dump, and with `sql_line` it makes up the statement's
text), those from `b` to `e` are the batch, comments apart (`BatchAt`), and of
the rows to be sent `done` are (`SentAt`). The first `Handled(b, e)` statements have
their tables recorded (`CacheAt`), and each of their rows is in `done` or still to
be sent by the task of its statement: a task sends its rows in their order, so that
`Begun`, the number it has sent, tells which (`TaskSends`). As a state may have
several such places, TLC cannot enumerate them; `ExportInit` and `ExportInductive`
prove the invariant, with one lemma for each action (`ReadLineCounts`,
`ParseCreatesCounts`, `SendRowCounts` and so on).

The lemmas below it go through the program's layers. A statement ends with its last
line and with none before (`IsGathered`), although a literal may hold `;` or
begin with `--`, because each line of a row ends in `,` or `;` and begins with `(`.
classify_sql finds the kinds again (`TextSorts`), and the parser the rows
(`StatementParsed`, from `InsertReadBack` and `HexRefused`: rows beside a
hexadecimal blob are not to be sent, and the source panics there). The next file
starts behind the first end of file (`NextEnd`). That the rows of a batch get the
columns of their place needs `Ordinary`: between an INSERT and a later CREATE of its
table lie more statements than a batch has room for (`CreatedBefore`, by
counting). A statement that a failure skips creates tables that are created only
once, or the property promises nothing (`CacheMoves`). `Routed` says that every key
has a channel: the code takes its hash modulo their number.

### Only model-checked

* All liveness properties: fairness is out of the prover's reach.
* No safety property: each one of the passing runs has a theorem. Those of the
  runs that expect a violation are false, as their counterexamples show.

## Not modelled

* Column values, JSON, time formats and logging of the incremental pipeline: no
  property depends on them, and the conversions that matter (operation, routing
  key, panics) are there. The metrics. The insides of rskafka, librdkafka, Tokio
  and rayon.
* The regular expression syntax that `TableFilter` names no symbol for.
* Composite keys with a part missing, a savepoint whose name was written in part,
  and the CREATE statement of a table with a list of partitions, which takes several
  lines.
* RocketMQ and console sources: one parsed message and one send, without state;
  their channels and workers are `CdcPipeline`'s.
* Routes: a map from topic to table that nothing changes (`Router::find` is
  called by tests only), and target tables without a primary key, whose deletes
  are skipped.
* `MysqlDebezium`, `TableMetaHandler`, `KafkaSink`, `SpmcKafkaSink`, the binlog file
  source and the transforms: no pipeline reaches them, and the binlog file source
  never records a table, because nobody awaits `record_table_meta`.
* Deserialisation and the accessors of the configuration, and most defaults.
* `flink-cdc-oom-lab`: a test tool, one loop (see the plan).
* The switch from the full export to the incremental pipeline, which the project's
  README calls not yet automatic.

## Plan

Done: `CdcPipeline` with `KeyedDelivery`; `BinlogReader` with `FollowedBinlog`;
`SnapshotInit` with `TableFilter` and `TableExport`; `MysqlApply` with
`ReplicatedTable`, columns, key changes and both producers; `MysqldumpSource` with
`InsertSyntax`; the four refinements, and proofs of every safety property.

Left, in this order:

1. An end-to-end composition of pipeline, topic and replica, with its abstract
   specification (a replica that converges when nothing fails). `resurrect` shows
   one step of it.
2. `RateBudget::advance` and `Scenario::phase_at` of the load generator against
   reference definitions, and `SpmcKafkaSink`'s routing should it come into use.
