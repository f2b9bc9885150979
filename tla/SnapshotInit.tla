---------------------------- MODULE SnapshotInit ----------------------------
(***************************************************************************)
(* flink-cdc-init: the full export of the matched MySQL tables to Kafka, a *)
(* file or the console.  run() of init.rs connects, opens the sink, starts *)
(* one Tokio task per table under a semaphore, joins them, flushes the     *)
(* sink and compares the row counts; a task counts the table, loads its    *)
(* columns and streams a SELECT to the sink in batches, while clients go on*)
(* changing the table.                                                     *)
(***************************************************************************)
EXTENDS TableFilter, Integers, FiniteSets, Functions

CONSTANTS
  Catalog,         (* the server's base tables, in the order of their names    *)
  NameOf,          (* NameOf[t]: database and name of table t                  *)
  IncludeTables,   (* source.tables                                            *)
  RowsOf,          (* RowsOf[t]: the rows table t can have                     *)
  Parallelism,     (* pipeline.parallelism                                     *)
  BatchSize,       (* SNAPSHOT_SEND_BATCH_SIZE (1000 in the code)              *)
  Sinks,           (* the sinks the configuration may select; "append" is a    *)
                   (* file with sink.append                                    *)
  Earlier,         (* what an earlier export left in the file                  *)
  QueueSlots,      (* messages librdkafka's producer queue can hold            *)
  Verify,          (* the options that the section verify gives, if any        *)
  SourceMayFail,   (* queries may fail                                         *)
  SinkMayFail,     (* writes may fail                                          *)
  MaxChanges       (* bound: changes of the tables during the export           *)

(* discover_tables: the query asks for the databases of the list. *)
Wanted(t) ==
  /\ NameOf[t].database \in DatabaseNames(IncludeTables)
  /\ CanInclude(IncludeTables, NameOf[t].database, NameOf[t].table)

Tables == {t \in Range(Catalog) : Wanted(t)}
Rows == UNION Range(RowsOf)

(* verify_row_count and verify_fail_on_mismatch, with their defaults. *)
VerifyRowCount == "row_count" \in DOMAIN Verify /\ Verify.row_count
FailOnMismatch == "fail_on_mismatch" \in DOMAIN Verify => Verify.fail_on_mismatch

(* At least one task may run. *)
PipelineParallelism == IF Parallelism = 0 THEN 1 ELSE Parallelism

ASSUME SnapshotAssumption ==
  /\ Catalog \in Seq(Range(Catalog))
  /\ IsInjective(Catalog)
  /\ DOMAIN NameOf = Range(Catalog)
  /\ DOMAIN RowsOf = Range(Catalog)
  /\ IsFiniteSet(Rows)
  /\ Parallelism \in Nat
  /\ {BatchSize, QueueSlots} \subseteq Nat \ {0}
  /\ Sinks \subseteq {"rdkafka", "rskafka", "file", "append", "console"}
  /\ Earlier \notin Tables \X Rows
  /\ DOMAIN Verify \subseteq {"row_count", "fail_on_mismatch"}
  /\ Range(Verify) \cup {SourceMayFail, SinkMayFail} \subseteq BOOLEAN
  /\ MaxChanges \in Nat

VARIABLES
  sink,         (* the configured sink                                         *)
  content,      (* content[t]: rows of t in MySQL                              *)
  changes,      (* number of changes made to the tables                        *)
  main,         (* where run() is                                              *)
  permits,      (* free permits of the semaphore                               *)
  task,         (* task[t]: state of the task of t                             *)
  joined,       (* tables whose task join_next has returned                    *)
  expected,     (* expected[t]: COUNT of t                                     *)
  actual,       (* actual[t]: rows fetched from t                              *)
  selected,     (* history: rows of t when the SELECT started                  *)
  unread,       (* rows the SELECT has not returned yet                        *)
  batch,        (* rows fetched and not handed to the sink                     *)
  awaited,      (* message whose delivery future send().await waits for        *)
  buffer,       (* messages in the producer's queue, or in the file's buffer   *)
  written,      (* messages in the topic, in the file or on the console, with  *)
                (* Earlier while it is in the file                             *)
  undelivered   (* messages librdkafka gave up on                              *)

source == <<content, changes>>
query == <<expected, actual, selected, unread>>
output == <<batch, awaited, buffer, written, undelivered>>
control == <<sink, main, permits, joined>>
vars == <<source, control, task, query, output>>

Unknown == -1

FileSinks == {"file", "append"}

Init ==
  /\ sink \in Sinks
  /\ content \in [Tables -> SUBSET Rows]
  /\ \A t \in Tables : content[t] \subseteq RowsOf[t]
  /\ changes = 0
  /\ main = "starting"
  /\ permits = PipelineParallelism
  /\ task = [t \in Tables |-> "waiting"]
  /\ joined = {}
  /\ expected = [t \in Tables |-> Unknown]
  /\ actual = [t \in Tables |-> 0]
  /\ selected = [t \in Tables |-> {}]
  /\ unread = [t \in Tables |-> {}]
  /\ batch = [t \in Tables |-> {}]
  /\ awaited = [t \in Tables |-> {}]
  /\ buffer = {}
  /\ written = IF sink \in FileSinks THEN {Earlier} ELSE {}
  /\ undelivered = {}

(* DebeziumFormat::insert: a row is exported as a record of its table. *)
Message(t, r) == <<t, r>>

-----------------------------------------------------------------------------
(* Clients insert into and delete from the tables at any time. *)
ChangeTable(t) ==
  /\ changes < MaxChanges
  /\ main \in {"spawning", "joining"}
  /\ changes' = changes + 1
  /\ \E r \in RowsOf[t] :
       content' = [content EXCEPT ![t] = IF r \in @ THEN @ \ {r} ELSE @ \cup {r}]
  /\ UNCHANGED <<control, task, query, output>>

-----------------------------------------------------------------------------
(* A table's task. *)

Becomes(t, state) == task' = [task EXCEPT ![t] = state]

MutKeepsPermitOnError(state) == IF state = "failed" THEN 0 ELSE 1
PermitsReturned(state) == 1

(* The task ends, with its result or with an error; _permit goes with it. *)
Ends(t, state) ==
  /\ Becomes(t, state)
  /\ permits' = permits + PermitsReturned(state)
  /\ UNCHANGED <<sink, main, joined>>

CountRows(t) ==
  /\ task[t] = "counting"
  /\ expected' = [expected EXCEPT ![t] = Cardinality(content[t])]
  /\ Becomes(t, "loading")
  /\ UNCHANGED <<source, control, actual, selected, unread, output>>

(* build_snapshot_query: the SELECT has neither a condition nor a limit. *)
SnapshotRows(t) == content[t]

(* load_table_meta, and the start of the SELECT of snapshot_table: from here on
   the statement returns the rows as they are now. *)
OpenSelect(t) ==
  /\ task[t] = "loading"
  /\ selected' = [selected EXCEPT ![t] = content[t]]
  /\ unread' = [unread EXCEPT ![t] = SnapshotRows(t)]
  /\ Becomes(t, "fetching")
  /\ UNCHANGED <<source, control, expected, actual, output>>

FetchRow(t) ==
  /\ task[t] = "fetching"
  /\ \E r \in unread[t] :
       /\ unread' = [unread EXCEPT ![t] = @ \ {r}]
       /\ batch' = [batch EXCEPT ![t] = @ \cup {r}]
  /\ actual' = [actual EXCEPT ![t] = @ + 1]
  /\ IF Cardinality(batch[t]) + 1 >= BatchSize THEN Becomes(t, "sending") ELSE UNCHANGED task
  /\ UNCHANGED <<source, control, expected, selected, awaited, buffer, written, undelivered>>

(* The rows after the last full batch are sent too. *)
MutForgetsLastBatch(t) == FALSE
RestToSend(t) == batch[t] # {}

EndOfRows(t) ==
  /\ task[t] = "fetching"
  /\ unread[t] = {}
  /\ IF RestToSend(t)
       THEN Becomes(t, "sending") /\ UNCHANGED control
       ELSE Ends(t, "finished")
  /\ UNCHANGED <<source, query, output>>

(* count_rows, load_table_meta or a fetch returns an error: `?` ends the task. *)
QueryFails(t) ==
  /\ SourceMayFail
  /\ task[t] \in {"counting", "loading", "fetching"}
  /\ Ends(t, "failed")
  /\ UNCHANGED <<source, query, output>>

-----------------------------------------------------------------------------
(* send_batch_messages, one sink at a time. *)

MutSendsAgain(t, rows) == UNCHANGED batch
Sent(t, rows) == batch' = [batch EXCEPT ![t] = @ \ rows]

(* RdKafkaSink: send_result queues the message, and its delivery future is
   dropped; when the queue is full, send() is to try again. *)
QueueMessage(t) ==
  /\ sink = "rdkafka"
  /\ task[t] = "sending"
  /\ \/ /\ Cardinality(buffer) < QueueSlots
        /\ \E r \in batch[t] : Sent(t, {r}) /\ buffer' = buffer \cup {Message(t, r)}
        /\ UNCHANGED task
     \/ /\ Cardinality(buffer) >= QueueSlots
        /\ batch[t] # {}
        /\ Becomes(t, "retrying")
        /\ UNCHANGED <<batch, buffer>>
  /\ UNCHANGED <<source, control, query, awaited, written, undelivered>>

(* send(record, 10s) finds room and then waits for the delivery... *)
RetryQueues(t) ==
  /\ task[t] = "retrying"
  /\ awaited[t] = {}
  /\ Cardinality(buffer) < QueueSlots
  /\ \E r \in batch[t] :
       /\ Sent(t, {r})
       /\ awaited' = [awaited EXCEPT ![t] = {Message(t, r)}]
       /\ buffer' = buffer \cup {Message(t, r)}
  /\ UNCHANGED <<source, control, task, query, written, undelivered>>

RetryDelivered(t) ==
  /\ task[t] = "retrying"
  /\ awaited[t] # {} /\ awaited[t] \subseteq written
  /\ awaited' = [awaited EXCEPT ![t] = {}]
  /\ Becomes(t, "sending")
  /\ UNCHANGED <<source, control, query, batch, buffer, written, undelivered>>

(* ...or gives up: no room in time, or the delivery failed. *)
RetryFails(t) ==
  /\ task[t] = "retrying"
  /\ IF awaited[t] = {} THEN Cardinality(buffer) >= QueueSlots
                        ELSE awaited[t] \subseteq undelivered
  /\ Ends(t, "failed")
  /\ UNCHANGED <<source, query, output>>

(* librdkafka's thread: each queued message is delivered, or given up after
   message.timeout.ms. *)
DeliverMessage(m) ==
  /\ sink = "rdkafka"
  /\ buffer' = buffer \ {m}
  /\ \/ written' = written \cup {m} /\ UNCHANGED undelivered
     \/ SinkMayFail /\ undelivered' = undelivered \cup {m} /\ UNCHANGED written
  /\ UNCHANGED <<source, control, task, query, batch, awaited>>

(* RsKafkaSink awaits each message, the console prints it. *)
ProduceMessage(t) ==
  /\ sink \in {"rskafka", "console"}
  /\ task[t] = "sending"
  /\ \E r \in batch[t] : Sent(t, {r}) /\ written' = written \cup {Message(t, r)}
  /\ UNCHANGED <<source, control, task, query, awaited, buffer, undelivered>>

(* FileSink writes a batch as one text, which is buffered until the flush. *)
WriteBatch(t) ==
  /\ sink \in FileSinks
  /\ task[t] = "sending"
  /\ batch[t] # {}
  /\ buffer' = buffer \cup {Message(t, r) : r \in batch[t]}
  /\ Sent(t, batch[t])
  /\ UNCHANGED <<source, control, task, query, awaited, written, undelivered>>

(* The sink returns an error; a message may be written even so. *)
SendFails(t) ==
  /\ SinkMayFail /\ sink # "console"
  /\ task[t] = "sending"
  /\ batch[t] # {}
  /\ Ends(t, "failed")
  /\ \/ UNCHANGED written
     \/ sink = "rskafka" /\ \E r \in batch[t] : written' = written \cup {Message(t, r)}
  /\ UNCHANGED <<source, query, batch, awaited, buffer, undelivered>>

BatchSent(t) ==
  /\ task[t] = "sending"
  /\ batch[t] = {}
  /\ Becomes(t, "fetching")
  /\ UNCHANGED <<source, control, query, output>>

-----------------------------------------------------------------------------
(* run(). *)

(* The start of run(): each step may return its error, and then no later one
   happens. *)
StartStep(from, to, mayFail) ==
  /\ main = from
  /\ main' \in {to} \cup (IF mayFail THEN {"error"} ELSE {})
  /\ UNCHANGED <<source, sink, permits, joined, task, query, batch, awaited, buffer, undelivered>>

(* validate() refuses a list that is no list, as source_table_include does. *)
ReadConfig ==
  /\ StartStep("starting", IF IncludeFails(IncludeTables) THEN "error" ELSE "connecting", FALSE)
  /\ UNCHANGED written

ConnectSource ==
  /\ StartStep("connecting", "building", SourceMayFail)
  /\ UNCHANGED written

(* OutputSink::build.  librdkafka's producer needs no broker, only a valid
   configuration... *)
BuildRdKafkaSink ==
  /\ sink = "rdkafka"
  /\ StartStep("building", "discovering", SinkMayFail)
  /\ UNCHANGED written

(* ...rskafka's asks for the topic and its partitions... *)
BuildRsKafkaSink ==
  /\ sink = "rskafka"
  /\ StartStep("building", "discovering", SinkMayFail)
  /\ UNCHANGED written

(* ...and the file is opened for appending or truncated, whatever comes after. *)
Opened == IF sink = "append" THEN written ELSE {}

BuildFileSink ==
  /\ sink \in FileSinks
  /\ StartStep("building", "discovering", SinkMayFail)
  /\ written' = IF main' = "error" THEN written ELSE Opened

BuildConsoleSink ==
  /\ sink = "console"
  /\ StartStep("building", "discovering", FALSE)
  /\ UNCHANGED written

(* Without any table run() returns at once. *)
DiscoverTables ==
  /\ StartStep("discovering", IF Tables = {} THEN "ok" ELSE "spawning", SourceMayFail)
  /\ UNCHANGED written

MutNoPermitTaken == 0
PermitsTaken == 1

Waiting == {t \in Tables : task[t] = "waiting"}

(* The next table, in the order of the names, and a permit for its task. *)
Spawn ==
  /\ main = "spawning"
  /\ permits > 0
  /\ permits' = permits - PermitsTaken
  /\ \E i \in DOMAIN Catalog :
       /\ Catalog[i] \in Waiting
       /\ \A j \in 1 .. i - 1 : Catalog[j] \notin Waiting
       /\ Becomes(Catalog[i], IF VerifyRowCount THEN "counting" ELSE "loading")
  /\ UNCHANGED <<source, sink, main, joined, query, output>>

(* All tasks are started before the first is joined. *)
StartJoining ==
  /\ main = "spawning"
  /\ Waiting = {}
  /\ main' = "joining"
  /\ UNCHANGED <<source, sink, permits, joined, task, query, output>>

Running == {"counting", "loading", "fetching", "sending", "retrying"}

JoinFinished(t) ==
  /\ main = "joining"
  /\ task[t] = "finished"
  /\ t \notin joined
  /\ joined' = joined \cup {t}
  /\ UNCHANGED <<source, sink, main, permits, task, query, output>>

(* The first error aborts the other tasks, and run() returns it. *)
JoinFailed(t) ==
  /\ main = "joining"
  /\ task[t] = "failed"
  /\ main' = "error"
  /\ task' = [u \in Tables |-> IF task[u] \in Running THEN "aborted" ELSE task[u]]
  /\ UNCHANGED <<source, sink, permits, joined, query, output>>

(* join_next returns None. *)
AllJoined == joined = Tables

(* is_mismatch. *)
Mismatch(t) == VerifyRowCount /\ expected[t] # actual[t]

Verdict ==
  IF FailOnMismatch /\ \E t \in Tables : Mismatch(t) THEN "error" ELSE "ok"

(* RdKafkaSink::flush waits, longer than message.timeout.ms, until the queue is
   empty, and reports nothing; the other sinks do not wait for anybody. *)
FlushReturns == sink = "rdkafka" => buffer = {}

(* FileSink::flush writes and syncs the file; RsKafkaSink::flush has nothing left
   to send, but passes on the error of the first partition that has one. *)
FlushMayFail == SinkMayFail /\ sink \in FileSinks \cup {"rskafka"}

(* flush() and the row count verification. *)
FlushAndVerify ==
  /\ main = "joining"
  /\ AllJoined
  /\ FlushReturns
  /\ \/ /\ main' = Verdict
        /\ written' = written \cup buffer
        /\ buffer' = {}
     \/ /\ FlushMayFail
        /\ main' = "error"
        /\ UNCHANGED <<written, buffer>>
  /\ UNCHANGED <<source, sink, permits, joined, task, query, batch, awaited, undelivered>>

Exited ==
  /\ main \in {"ok", "error"}
  /\ UNCHANGED vars

Fetching(t) == CountRows(t) \/ OpenSelect(t) \/ FetchRow(t) \/ EndOfRows(t) \/ QueryFails(t)

Sending(t) ==
  \/ QueueMessage(t) \/ RetryQueues(t) \/ RetryDelivered(t) \/ RetryFails(t)
  \/ ProduceMessage(t) \/ WriteBatch(t) \/ SendFails(t) \/ BatchSent(t)

Run ==
  \/ ReadConfig
  \/ ConnectSource
  \/ BuildRdKafkaSink \/ BuildRsKafkaSink \/ BuildFileSink \/ BuildConsoleSink
  \/ DiscoverTables
  \/ Spawn
  \/ StartJoining
  \/ \E t \in Tables : JoinFinished(t)
  \/ \E t \in Tables : JoinFailed(t)
  \/ FlushAndVerify

(* Once run() has returned, the process exits with all its tasks. *)
Next ==
  \/ \E t \in Tables : ChangeTable(t)
  \/ main \in {"spawning", "joining"} /\ \E t \in Tables : Fetching(t) \/ Sending(t)
  \/ main \in {"spawning", "joining"} /\ \E m \in buffer : DeliverMessage(m)
  \/ Run
  \/ Exited

Spec == Init /\ [][Next]_vars

(* The runtime schedules main and every task, queries and writes return, and
   librdkafka's thread works its queue off. *)
FairSpec ==
  /\ Spec
  /\ WF_vars(Run)
  /\ \A t \in Tables : WF_vars(main \in {"spawning", "joining"} /\ (Fetching(t) \/ Sending(t)))
  /\ WF_vars(main \in {"spawning", "joining"} /\ \E m \in buffer : DeliverMessage(m))

-----------------------------------------------------------------------------
(* Properties. *)

Messages == Tables \X Rows

(* The tasks that took a permit and gave none back; after an abort nobody asks. *)
Holders == {t \in Tables : task[t] \in Running \cup {"aborted"}}

(* The state has its types; the free permits and those of the tasks make up the
   semaphore, and the producer's queue holds what it can hold. *)
TypeOK ==
  /\ sink \in Sinks
  /\ content \in [Tables -> SUBSET Rows]
  /\ changes \in 0 .. MaxChanges
  /\ main \in {"starting", "connecting", "building", "discovering", "spawning", "joining",
              "ok", "error"}
  /\ permits \in Nat /\ permits + Cardinality(Holders) = PipelineParallelism
  /\ task \in [Tables -> Running \cup {"waiting", "finished", "failed", "aborted"}]
  /\ joined \subseteq Tables
  /\ expected \in [Tables -> Nat \cup {Unknown}]
  /\ actual \in [Tables -> Nat]
  /\ selected \in [Tables -> SUBSET Rows]
  /\ unread \in [Tables -> SUBSET Rows]
  /\ batch \in [Tables -> SUBSET Rows]
  /\ awaited \in [Tables -> SUBSET Messages]
  /\ buffer \subseteq Messages /\ (sink = "rdkafka" => Cardinality(buffer) <= QueueSlots)
  /\ written \subseteq Messages \cup {Earlier}
  /\ undelivered \subseteq Messages

RowsWritten(t) == {r \in Rows : Message(t, r) \in written}

GivenUp(t) == {r \in Rows : Message(t, r) \in undelivered}

(* When the program exits with success, each table's SELECT ran to its end and
   what it returned is, exactly, in the topic or in the file, but for what
   librdkafka gave up on: no partial batch, failed task or buffered write is
   passed over.  With verification on, the COUNTs agree with that too.  An earlier
   export is still in the file if and only if the new one is appended to it. *)
OkMeansExported ==
  main = "ok" =>
    /\ Earlier \in written <=> sink = "append"
    /\ \A t \in Tables :
         /\ task[t] = "finished"
         /\ RowsWritten(t) \cup GivenUp(t) = selected[t]
         /\ VerifyRowCount /\ FailOnMismatch => Cardinality(selected[t]) = expected[t]

(* flink-cdc-init/README.md:15, "compares COUNT of the source table with the
   number of rows really exported": success with verification on means that the
   two agree, although clients change the table between the two statements. *)
OkMeansVerified ==
  main = "ok" /\ VerifyRowCount /\ FailOnMismatch =>
    \A t \in Tables : Cardinality(RowsWritten(t)) = expected[t]

(* flink-cdc-init/README.md:10, the two programs share their configuration: the
   same source.tables makes the incremental pipeline follow the tables that were
   exported, and no others.  It holds for lists of names and `db.*`, however they
   are spaced: to TableInclude the latter is an anchor that may be missing, to
   can_exclude it stands for every name.  It fails for the patterns of README.md:26
   (the run `pattern`): can_exclude takes them for names. *)
ExportedAreFollowed ==
  main = "ok" =>
    \A t \in Range(Catalog) :
      t \in Tables <=> ~CanExclude(IncludeTables, NameOf[t].database, NameOf[t].table)

(* Each table is exported as it was at one moment, row by row and none again,
   whatever tasks, batches, a full queue and failing sends do in between. *)
Promise == INSTANCE TableExport WITH
  snapshot <- selected,
  exported <- [t \in Tables |-> RowsWritten(t)],
  lost <- [t \in Tables |-> GivenUp(t)],
  result <- IF main \in {"ok", "error"} THEN main ELSE "none"

ImplementsExport == Promise!Spec

(* The program ends: neither a failing table, nor a full queue, nor the limit
   of running tasks keeps run() waiting. *)
Terminates == <>(main \in {"ok", "error"})
=============================================================================
