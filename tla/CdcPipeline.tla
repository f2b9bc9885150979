----------------------------- MODULE CdcPipeline -----------------------------
(***************************************************************************)
(* The incremental pipeline of flink-cdc-rs, MySQL binlog to Kafka: one    *)
(* source task (source/mysql.rs, MysqlBinlogEvent) hashes the key of each  *)
(* row onto one of N bounded Tokio channels, one sink worker per channel   *)
(* (sink/kafka.rs, RskafkaSink) takes batches, groups them by Kafka        *)
(* partition and produces the groups concurrently, and pipeline/mod.rs     *)
(* wires the two, waits for the workers and samples the channels.          *)
(*                                                                         *)
(* A row change is named by its position in the history variable binlog:   *)
(* channels, batches, groups and partition logs hold positions.            *)
(***************************************************************************)
EXTENDS Integers, Sequences, Functions

CONSTANTS
  Keys,         (* primary key values: what row_partition_key returns          *)
  Partitions,   (* partitions of the Kafka topic                               *)
  Parallelism,  (* pipeline.parallelism: number of channels and of workers     *)
  Capacity,     (* channel.capacity: slots of one bounded channel              *)
  BatchSize,    (* the limit of recv_many in the worker loop (200 in the code) *)
  ChannelOf,    (* hash(key) % channels.len()                                  *)
  PartitionOf,  (* hash(key) % partition_producers.len()                       *)
  RowChanges,   (* the row changes that may be read from the binlog            *)
  EventRows,    (* bound: rows of one rows event                               *)
  MaxRows,      (* bound: row changes read in one behaviour                    *)
  Sampler,      (* TRUE when spawn_channel_sampler holds clones of the senders *)
  SinkMayFail   (* FALSE for ConsoleSink, which only prints                    *)

Channels == 1 .. Parallelism

(***************************************************************************)
(* A row change.  key is the primary key of the image the row is routed by *)
(* (the only image of an insert or a delete, the before image of an        *)
(* update).  fault says which conversion panics on it: the routing key's   *)
(* in the source task ("key"), or any other column's in the worker         *)
(* ("value").                                                              *)
(***************************************************************************)
RowChange == [op : {"c", "u", "d"}, key : Keys, fault : {"none", "key", "value"}]

ASSUME ConfigAssumption ==
  /\ Parallelism \in Nat \ {0}
  /\ Capacity \in Nat \ {0}
  /\ BatchSize \in Nat \ {0}
  /\ EventRows \in Nat
  /\ MaxRows \in Nat
  /\ ChannelOf \in [Keys -> Channels]
  /\ PartitionOf \in [Keys -> Partitions]
  /\ RowChanges \subseteq RowChange
  /\ Sampler \in BOOLEAN
  /\ SinkMayFail \in BOOLEAN

VARIABLES
  binlog,   (* row changes of all events read so far, in binlog order          *)
  next,     (* position of the next row change the source has to send          *)
  chan,     (* chan[c]: queue of the c-th bounded channel                      *)
  batch,    (* batch[c]: received by worker c and not yet converted            *)
  group,    (* group[c][p]: converted, waiting for the produce request to p    *)
  worker,   (* worker[c]: state of the task that owns receiver c               *)
  log,      (* log[p]: what the broker appended to partition p                 *)
  errored,  (* positions of batches whose produce request returned an error    *)
  lost,     (* positions dropped with a receiver that was dropped by a panic   *)
  pipe,     (* where the task that runs pipeline() is                          *)
  joined    (* how many worker handles pipeline() has awaited                  *)

vars == <<binlog, next, chan, batch, group, worker, log, errored, lost, pipe, joined>>

-----------------------------------------------------------------------------
NoRecords == [p \in Partitions |-> <<>>]

Init ==
  /\ binlog = <<>>
  /\ next = 1
  /\ chan = [c \in Channels |-> <<>>]
  /\ batch = [c \in Channels |-> <<>>]
  /\ group = [c \in Channels |-> NoRecords]
  /\ worker = [c \in Channels |-> "running"]
  /\ log = [p \in Partitions |-> <<>>]
  /\ errored = {}
  /\ lost = {}
  /\ pipe = "reading"
  /\ joined = 0

-----------------------------------------------------------------------------
(* The source task. *)

(* read() returned a rows event of a table whose metadata is cached: its rows,
   which share the event's type, are now to be sent one by one. *)
ReadRowsEvent ==
  /\ pipe = "reading"
  /\ next = Len(binlog) + 1
  /\ \E n \in 1 .. EventRows : \E rows \in [1 .. n -> RowChanges] :
       /\ Len(binlog) + n <= MaxRows
       /\ \A i \in 1 .. n : rows[i].op = rows[1].op
       /\ binlog' = binlog \o rows
  /\ UNCHANGED <<next, chan, batch, group, worker, log, errored, lost, pipe, joined>>

(* The channel a row is sent to: the hash of its routing key. *)
MutRouteFailsOver(row) ==
  LET c == ChannelOf[row.key]
  IN IF worker[c] = "panicked" THEN (c % Parallelism) + 1 ELSE c
Route(row) == ChannelOf[row.key]

(* send_binlog_event: send().await waits while the channel is full; when the
   worker's panic dropped the receiver it fails, which is only logged. *)
MutNoBackpressure(c) == worker[c] = "running"
MutKeepsOneSlotFree(c) == worker[c] = "running" /\ Len(chan[c]) + 1 < Capacity
HasRoom(c) == worker[c] = "running" /\ Len(chan[c]) < Capacity

SendBinlogEvent ==
  /\ pipe = "reading"
  /\ next <= Len(binlog)
  /\ binlog[next].fault # "key"
  /\ LET c == Route(binlog[next]) IN
       \/ /\ HasRoom(c)
          /\ chan' = [chan EXCEPT ![c] = Append(@, next)]
          /\ UNCHANGED lost
       \/ /\ worker[c] = "panicked"
          /\ lost' = lost \cup {next}
          /\ UNCHANGED chan
  /\ next' = next + 1
  /\ UNCHANGED <<binlog, batch, group, worker, log, errored, pipe, joined>>

(* row_partition_key panics on a primary key value it cannot convert: the
   pipeline task unwinds, the source and the handles are dropped, and the rows
   that were still to be sent are never forwarded. *)
SourcePanics ==
  /\ pipe = "reading"
  /\ next <= Len(binlog)
  /\ binlog[next].fault = "key"
  /\ pipe' = "panicked"
  /\ UNCHANGED <<binlog, next, chan, batch, group, worker, log, errored, lost, joined>>

(* read() left its loop on a binlog error, which it sees only between two
   events; pipeline() drops the source and starts to await the handles. *)
SourceStops ==
  /\ pipe = "reading"
  /\ next = Len(binlog) + 1
  /\ pipe' = "joining"
  /\ UNCHANGED <<binlog, next, chan, batch, group, worker, log, errored, lost, joined>>

-----------------------------------------------------------------------------
(* The sink workers. *)

(* Between two batches: nothing to convert and no produce request out. *)
Idle(c) == batch[c] = <<>> /\ group[c] = NoRecords

Smaller(m, n) == IF m <= n THEN m ELSE n

(* recv_many returns as soon as the channel holds a record... *)
MutWaitsForFullBatch(c) == Len(chan[c]) >= BatchSize
HasRecords(c) == chan[c] # <<>>

(* ...and takes what it holds, at most BatchSize records. *)
Remaining(c, n) == SubSeq(chan[c], n + 1, Len(chan[c]))

RecvMany(c) ==
  /\ worker[c] = "running"
  /\ Idle(c)
  /\ HasRecords(c)
  /\ LET n == Smaller(BatchSize, Len(chan[c])) IN
       /\ batch' = [batch EXCEPT ![c] = SubSeq(chan[c], 1, n)]
       /\ chan' = [chan EXCEPT ![c] = Remaining(c, n)]
  /\ UNCHANGED <<binlog, next, group, worker, log, errored, lost, pipe, joined>>

(* message_records converts the next record of the batch and the fold of
   send_batch_messages adds it at the end of its partition's group. *)
MutReplaces(records, s) == <<s>>
MutAddInFront(records, s) == <<s>> \o records
AddRecord(records, s) == Append(records, s)

MessageRecords(c) ==
  /\ worker[c] = "running"
  /\ batch[c] # <<>>
  /\ LET s == Head(batch[c]) IN
       /\ binlog[s].fault # "value"
       /\ group' = [group EXCEPT ![c][PartitionOf[binlog[s].key]] = AddRecord(@, s)]
  /\ batch' = [batch EXCEPT ![c] = Tail(@)]
  /\ UNCHANGED <<binlog, next, chan, worker, log, errored, lost, pipe, joined>>

(* Everything worker c holds or has queued, which its panic drops. *)
Held(c) == Range(chan[c]) \cup Range(batch[c])
             \cup UNION {Range(group[c][p]) : p \in Partitions}

(* The conversion panics: the task ends, its receiver is dropped with all that
   is queued, and so is the converted part of the batch. *)
WorkerPanics(c) ==
  /\ worker[c] = "running"
  /\ batch[c] # <<>>
  /\ binlog[Head(batch[c])].fault = "value"
  /\ worker' = [worker EXCEPT ![c] = "panicked"]
  /\ lost' = lost \cup Held(c)
  /\ chan' = [chan EXCEPT ![c] = <<>>]
  /\ batch' = [batch EXCEPT ![c] = <<>>]
  /\ group' = [group EXCEPT ![c] = NoRecords]
  /\ UNCHANGED <<binlog, next, log, errored, pipe, joined>>

(* What is left of a group after its produce request: there is no retry. *)
MutRetriesErrors(c, p) == IF Range(group[c][p]) \subseteq errored' THEN group[c][p] ELSE <<>>
Unsent(c, p) == <<>>

(* produce_records for one group of a fully converted batch; join_all runs the
   groups concurrently.  The broker appends the record batch or not; an append
   whose answer is lost is an error too.  An error is counted and logged. *)
ProduceRecords(c, p) ==
  /\ worker[c] = "running"
  /\ batch[c] = <<>>
  /\ group[c][p] # <<>>
  /\ \E appended, acked \in BOOLEAN :
       /\ acked => appended
       /\ SinkMayFail \/ acked
       /\ log' = IF appended THEN [log EXCEPT ![p] = @ \o group[c][p]] ELSE log
       /\ errored' = IF acked THEN errored ELSE errored \cup Range(group[c][p])
  /\ group' = [group EXCEPT ![c][p] = Unsent(c, p)]
  /\ UNCHANGED <<binlog, next, chan, batch, worker, lost, pipe, joined>>

(* The receiver sees the end of the channel only when every sender is dropped:
   the source's with the source, the sampler's never. *)
MutSourceKeptUntilJoined == pipe \in {"done", "panicked"} /\ ~Sampler
SendersDropped == pipe # "reading" /\ ~Sampler

(* recv_many returned 0: the worker leaves its loop. *)
MutExitWithQueue(c) == SendersDropped
EndOfChannel(c) == SendersDropped /\ chan[c] = <<>>

WorkerExits(c) ==
  /\ worker[c] = "running"
  /\ Idle(c)
  /\ EndOfChannel(c)
  /\ worker' = [worker EXCEPT ![c] = "exited"]
  /\ UNCHANGED <<binlog, next, chan, batch, group, log, errored, lost, pipe, joined>>

-----------------------------------------------------------------------------
(* pipeline(): the handles are awaited in the order of the channels, and a
   panicked worker makes expect() panic. *)
HandleReady(c) == worker[c] = "exited"

AwaitHandle ==
  /\ pipe = "joining"
  /\ joined < Parallelism
  /\ LET c == joined + 1 IN
       \/ /\ HandleReady(c)
          /\ joined' = c
          /\ pipe' = IF c = Parallelism THEN "done" ELSE "joining"
       \/ /\ worker[c] = "panicked"
          /\ pipe' = "panicked"
          /\ UNCHANGED joined
  /\ UNCHANGED <<binlog, next, chan, batch, group, worker, log, errored, lost>>

(* The sampler's loop: it reads the free slots of every channel for a gauge and
   sleeps, for as long as the process lives. *)
SampleChannels ==
  /\ Sampler
  /\ UNCHANGED vars

(* The pipeline task and all workers have ended.  main() does not look at the
   task's handle, it goes on serving /metrics. *)
MetricsServerOnly ==
  /\ pipe \in {"done", "panicked"}
  /\ \A c \in Channels : worker[c] # "running"
  /\ UNCHANGED vars

Next ==
  \/ ReadRowsEvent
  \/ SendBinlogEvent
  \/ SourcePanics
  \/ SourceStops
  \/ \E c \in Channels : RecvMany(c)
  \/ \E c \in Channels : MessageRecords(c)
  \/ \E c \in Channels : WorkerPanics(c)
  \/ \E c \in Channels, p \in Partitions : ProduceRecords(c, p)
  \/ \E c \in Channels : WorkerExits(c)
  \/ AwaitHandle
  \/ SampleChannels
  \/ MetricsServerOnly

Spec == Init /\ [][Next]_vars

(***************************************************************************)
(* Every task is scheduled by Tokio and every produce request ends with an *)
(* answer or an error.  Nothing says that the binlog has another event or  *)
(* that reading it fails.                                                  *)
(***************************************************************************)
Fairness ==
  /\ WF_vars(SendBinlogEvent \/ SourcePanics)
  /\ WF_vars(AwaitHandle)
  /\ \A c \in Channels :
       /\ WF_vars(RecvMany(c))
       /\ WF_vars(MessageRecords(c) \/ WorkerPanics(c))
       /\ WF_vars(WorkerExits(c))
       /\ \A p \in Partitions : WF_vars(ProduceRecords(c, p))

FairSpec == Spec /\ Fairness

-----------------------------------------------------------------------------
(* Properties. *)

(* The state has its types: queues hold positions of rows that were sent,
   and no channel holds more than its capacity (bounded_channels). *)
TypeOK ==
  /\ binlog \in Seq(RowChange)
  /\ next \in 1 .. Len(binlog) + 1
  /\ chan \in [Channels -> Seq(1 .. next - 1)]
  /\ \A c \in Channels : Len(chan[c]) <= Capacity
  /\ batch \in [Channels -> Seq(1 .. next - 1)]
  /\ group \in [Channels -> [Partitions -> Seq(1 .. next - 1)]]
  /\ worker \in [Channels -> {"running", "exited", "panicked"}]
  /\ log \in [Partitions -> Seq(1 .. next - 1)]
  /\ errored \subseteq 1 .. next - 1
  /\ lost \subseteq 1 .. next - 1
  /\ pipe \in {"reading", "joining", "done", "panicked"}
  /\ joined \in 0 .. Parallelism

Key(s) == binlog[s].key

Landed == UNION {Range(log[p]) : p \in Partitions}

Settled == Landed \cup errored \cup lost

(* Per-key write order (the goal of the Tokio MPSC design): in every partition
   the rows routed by the same key are in binlog order, whatever the workers'
   and the produce requests' interleaving and whichever batches fail. *)
KeyOrder ==
  \A p \in Partitions : \A i, j \in 1 .. Len(log[p]) :
    i < j /\ Key(log[p][i]) = Key(log[p][j]) => log[p][i] < log[p][j]

(* A row that was sent is queued, held by its worker, in a partition, in a
   batch whose error was counted, or was dropped by a panic: no step of the
   source, of a worker or of a failing produce request loses it silently. *)
NoSilentLoss ==
  \A s \in 1 .. next - 1 :
    s \in Settled \/ \E c \in Channels : s \in Held(c)

(* No row is written to Kafka twice in one run of the process, and none that is
   still queued or held has been written already. *)
NoDuplicate ==
  /\ \A p, q \in Partitions : \A i \in DOMAIN log[p], j \in DOMAIN log[q] :
       log[p][i] = log[q][j] => p = q /\ i = j
  /\ \A c \in Channels : Held(c) \cap Landed = {}

(* What a worker's panic costs a key is a suffix of its changes: nothing of the
   key is written after a change that was dropped, so that a consumer never
   sees a later change without the dropped one. *)
PanicLosesSuffix ==
  \A s \in lost, t \in Landed : Key(s) = Key(t) => t < s

(* pipeline() returns only after every row it read was written to Kafka or had
   its error counted: the orderly end of the source drains all channels. *)
DoneMeansDrained ==
  pipe = "done" => 1 .. Len(binlog) \subseteq Landed \cup errored

(* Backpressure is always released: a source waiting in send().await goes on,
   since the worker of the full channel receives again or its receiver goes. *)
SendUnblocks ==
  \A s \in 1 .. MaxRows : (next = s /\ s <= Len(binlog)) ~> (next > s \/ pipe = "panicked")

(* Every row that was sent ends up in Kafka, in a counted error or in a
   panicking worker's drop, also when other workers panic. *)
EventuallySettled ==
  \A s \in 1 .. MaxRows : (s < next) ~> (s \in Settled)

(* The lifecycle of the design document: once the source has ended all workers
   end, and pipeline() has awaited them or panicked on one that panicked. *)
PipelineEnds ==
  (pipe # "reading") ~> (/\ pipe \in {"done", "panicked"}
                         /\ \A c \in Channels : worker[c] # "running")

(* The pipeline implements ordered, at most once, possibly lossy delivery. *)
Delivery == INSTANCE KeyedDelivery WITH source <- binlog, sink <- log

ImplementsDelivery == Delivery!Spec

=============================================================================
