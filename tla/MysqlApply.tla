----------------------------- MODULE MysqlApply -----------------------------
(***************************************************************************)
(* Kafka to MySQL: source/kafka.rs reads the partitions of a topic with one*)
(* consumer and hands one record after the other to sink/mysql.rs, which   *)
(* turns it into an upsert or a delete of the replica table.  Offsets are  *)
(* committed by the Kafka client on its own, whenever it likes.            *)
(*                                                                         *)
(* The records are the changes of one source table, written by Debezium or *)
(* by this project's own MySQL source.  The replica has the source's       *)
(* primary key; the other columns of both tables come and go with ALTER    *)
(* TABLE, and a column that a row has no value for holds its default.      *)
(***************************************************************************)
EXTENDS Integers, Sequences

CONSTANTS
  Keys,         (* primary keys of the table                                   *)
  Columns,      (* columns besides the primary key, of either table            *)
  FirstColumns, (* FirstColumns[t]: those t, "source" or "replica", starts with *)
  Values,       (* contents of a column                                        *)
  Default,      (* the content a column has by default                         *)
  Null,         (* SQL NULL, the default of columns without another            *)
  Absent,       (* the row, or an image's key, does not exist                  *)
  Partitions,   (* partitions of the topic                                     *)
  PartitionOf,  (* partition of the records of a key                           *)
  OwnProducer,  (* TRUE when source/mysql.rs writes the records                *)
  SqlMayFail,   (* TRUE when a statement or `desc` may fail                    *)
  MaxRecords,   (* bound: records of a partition                               *)
  MaxAlters,    (* bound: ALTER statements                                     *)
  MaxKills      (* bound: kills of the process                                 *)

ASSUME ApplyAssumption ==
  /\ FirstColumns \in [{"source", "replica"} -> SUBSET Columns]
  /\ {Default, Null} \subseteq Values
  /\ Absent \notin Keys \cup [Columns -> Values]
  /\ PartitionOf \in [Keys -> Partitions]
  /\ OwnProducer \in BOOLEAN
  /\ SqlMayFail \in BOOLEAN
  /\ {MaxRecords, MaxAlters, MaxKills} \subseteq Nat

Contents == [Columns -> Values]
RowState == Contents \cup {Absent}

VARIABLES
  table,      (* the source table                                              *)
  columns,    (* columns[t]: present columns of t, "source" or "replica"       *)
  topic,      (* topic[p]: records of partition p                              *)
  status,     (* "polling", "processing", "stopped" by a panic, "down"         *)
  position,   (* position[p]: records of p handed to the program               *)
  committed,  (* committed[p]: records of p the next start will not read       *)
  partition,  (* partition the record in hand is from                          *)
  cache,      (* the columns of the replica as cached: at most one element     *)
  replica,    (* the replica table                                             *)
  outcome,    (* history, outcome[p][i]: end of the last attempt at the record *)
              (* and the columns it knew of that were not dropped since        *)
  alters,     (* number of ALTER statements                                    *)
  kills       (* number of kills                                               *)

external == <<table, columns, topic, alters>>
vars == <<external, status, position, committed, partition, cache, replica, outcome, kills>>

New == [how |-> "new", meta |-> {}]
Skipped == [how |-> "skipped", meta |-> {}]

Init ==
  /\ table = [k \in Keys |-> Absent]
  /\ columns = FirstColumns
  /\ topic = [p \in Partitions |-> <<>>]
  /\ status = "down"
  /\ position = [p \in Partitions |-> 0]
  /\ committed = [p \in Partitions |-> 0]
  /\ partition \in Partitions
  /\ cache = {}
  /\ replica = [k \in Keys |-> Absent]
  /\ outcome = [p \in Partitions |-> <<>>]
  /\ alters = 0
  /\ kills = 0

-----------------------------------------------------------------------------
(* Whoever fills the topic, and whoever alters the tables. *)

AppendRecord(p, r) ==
  /\ Len(topic[p]) < MaxRecords
  /\ topic' = [topic EXCEPT ![p] = Append(@, r)]
  /\ outcome' = [outcome EXCEPT ![p] = Append(@, New)]
  /\ UNCHANGED <<columns, status, position, committed, partition, cache, replica, alters, kills>>

(* from and to are the keys of the images before and after, columns those the
   images have. *)
Change(op, from, to, content) ==
  [op |-> op, from |-> from, to |-> to, columns |-> columns["source"], content |-> content]

(* Rows of the source hold values in its present columns only. *)
SourceContents ==
  {content \in Contents : \A c \in Columns \ columns["source"] : content[c] = Default}

(* "c" stands for created and for snapshot ("r") rows, which process() does not
   tell apart. *)
InsertRow(k, content) ==
  /\ table[k] = Absent
  /\ table' = [table EXCEPT ![k] = content]
  /\ AppendRecord(PartitionOf[k], Change("c", Absent, k, content))

(* An update that changes the key goes to the partition of the old one. *)
UpdateRow(k, to, content) ==
  /\ table[k] # Absent
  /\ IF to = k THEN content # table[k] ELSE table[to] = Absent
  /\ table' = [table EXCEPT ![k] = Absent, ![to] = content]
  /\ AppendRecord(PartitionOf[k], Change("u", k, to, content))

(* parse_delete_rows of message.rs builds an insert of the deleted row. *)
DeleteRow(k) ==
  /\ table[k] # Absent
  /\ table' = [table EXCEPT ![k] = Absent]
  /\ AppendRecord(PartitionOf[k], IF OwnProducer THEN Change("c", Absent, k, table[k])
                                                 ELSE Change("d", k, Absent, table[k]))

(* A tombstone, a text that is no Debezium record or one with another op, "t";
   or a delete whose image before lacks the primary key. *)
ForeignRecord(p) ==
  /\ \E op \in {"t", "d"} :
       AppendRecord(p, Change(op, Absent, Absent, [c \in Columns |-> Default]))
  /\ UNCHANGED table

Without(rows, c) ==
  [k \in Keys |-> IF rows[k] = Absent THEN Absent ELSE [rows[k] EXCEPT ![c] = Default]]

Forgotten(c) ==
  [p \in Partitions |-> [i \in DOMAIN outcome[p] |-> [outcome[p][i] EXCEPT !.meta = @ \ {c}]]]

(* ALTER TABLE adds column c, or drops it with its values. *)
AlterTable(t, c) ==
  /\ alters < MaxAlters
  /\ alters' = alters + 1
  /\ columns' = [columns EXCEPT ![t] = IF c \in @ THEN @ \ {c} ELSE @ \cup {c}]
  /\ table' = IF t = "source" THEN Without(table, c) ELSE table
  /\ replica' = IF t = "replica" THEN Without(replica, c) ELSE replica
  /\ outcome' = IF t = "replica" THEN Forgotten(c) ELSE outcome
  /\ UNCHANGED <<topic, status, position, committed, partition, cache, kills>>

-----------------------------------------------------------------------------
(* The program. *)

(* A consumer starts behind the committed offsets of its group. *)
MutStartsFromEarliest(p) == 0
MutStartsFromLatest(p) == IF committed[p] = 0 THEN Len(topic[p]) ELSE committed[p]
FirstOffset(p) == committed[p]

(* MysqlSink::create and build_consumer: auto.offset.reset is earliest. *)
StartConsumer ==
  /\ status = "down"
  /\ status' = "polling"
  /\ position' = [p \in Partitions |-> FirstOffset(p)]
  /\ cache' = {}
  /\ UNCHANGED <<external, committed, partition, replica, outcome, kills>>

(* try_for_each awaits process() before it asks the stream for another record. *)
MutPollsAhead == status \in {"polling", "processing"}
AsksForRecord == status = "polling"

(* The stream yields the next record of some partition. *)
Poll(p) ==
  /\ AsksForRecord
  /\ position[p] < Len(topic[p])
  /\ status' = "processing"
  /\ position' = [position EXCEPT ![p] = @ + 1]
  /\ partition' = p
  /\ UNCHANGED <<external, committed, cache, replica, outcome, kills>>

Record == topic[partition][position[partition]]

Upsert == {"c", "u"}
Recognized(op) == op \in Upsert \cup {"d"}

(* table_info: the columns come from the cache, or else from `desc`. *)
Described == columns["replica"]
Meta == IF cache = {} THEN Described ELSE CHOOSE m \in cache : TRUE

MutInsertsMissing(r, meta) ==
  [c \in Columns |-> IF c \in meta \ r.columns THEN r.content[c] ELSE Default]

(* The statement that the tests of sink/mysql.rs build, which names all columns
   of meta. *)
MutMissingIsNull(r, meta) ==
  [c \in Columns |-> IF c \notin meta THEN Default
                     ELSE IF c \in r.columns THEN r.content[c] ELSE Null]

(* What INSERT makes of a record by itself: it names the columns that the replica
   has, as far as meta knows, and the record too; the others get their default. *)
Inserted(r, meta) ==
  [c \in Columns |-> IF c \in meta \cap r.columns THEN r.content[c] ELSE Default]

(* ON DUPLICATE KEY UPDATE sets all columns of meta to what INSERT would have
   given them. *)
Upserted(r, meta) ==
  [c \in Columns |-> IF c \in meta \/ replica[r.to] = Absent
                       THEN Inserted(r, meta)[c] ELSE replica[r.to][c]]

(* DELETE: the key of the image before is the WHERE clause; without it there is
   none. *)
MutDeletesByAfter(r) == {r.to} \cap Keys
Deleted(r) == IF r.from = Absent THEN Keys ELSE {r.from}

Applied(r, meta) ==
  IF r.op \in Upsert
    THEN [replica EXCEPT ![r.to] = Upserted(r, meta)]
    ELSE [k \in Keys |-> IF k \in Deleted(r) THEN Absent ELSE replica[k]]

(* The server refuses a statement with a column that is gone. *)
Refused(r, meta) == r.op \in Upsert /\ ~ meta \subseteq columns["replica"]

Finish(how) ==
  outcome' = [outcome EXCEPT ![partition] = [@ EXCEPT ![position[partition]] = how]]

(* process(): the sink awaits the statement; its error is only logged, and the
   statement may have been executed even so. *)
ProcessRecord ==
  /\ status = "processing"
  /\ Recognized(Record.op)
  /\ cache' = {Meta}
  /\ \/ /\ ~Refused(Record, Meta)
        /\ replica' = Applied(Record, Meta)
        /\ Finish([how |-> "applied", meta |-> Meta])
     \/ /\ SqlMayFail \/ Refused(Record, Meta)
        /\ replica' \in {replica} \cup (IF Refused(Record, Meta) THEN {}
                                         ELSE {Applied(Record, Meta)})
        /\ Finish(Skipped)
  /\ status' = "polling"
  /\ UNCHANGED <<external, position, committed, partition, kills>>

(* Anything else is logged and passed over. *)
MutRetriesForeign(r) == FALSE
PassedOver(r) == ~Recognized(r.op)

SkipRecord ==
  /\ status = "processing"
  /\ PassedOver(Record)
  /\ Finish(Skipped)
  /\ status' = "polling"
  /\ UNCHANGED <<external, position, committed, partition, cache, replica, kills>>

(* desc_table unwraps an error: the panic ends the task, not the process. *)
DescPanics ==
  /\ SqlMayFail
  /\ status = "processing"
  /\ Recognized(Record.op)
  /\ cache = {}
  /\ Finish(Skipped)
  /\ status' = "stopped"
  /\ UNCHANGED <<external, position, committed, partition, cache, replica, kills>>

(* start() expects the stream to return no error. *)
StreamFails ==
  /\ status = "polling"
  /\ status' = "stopped"
  /\ UNCHANGED <<external, position, committed, partition, cache, replica, outcome, kills>>

-----------------------------------------------------------------------------
(* The Kafka client's auto commit stores the offset behind a record as soon as
   the record is handed out, whether or not the sink is done with it. *)
Stored(p) == position[p]

AutoCommit ==
  /\ status # "down"
  /\ kills < MaxKills
  /\ committed' = [p \in Partitions |-> Stored(p)]
  /\ UNCHANGED <<external, status, position, partition, cache, replica, outcome, kills>>

(* The process is killed, perhaps while a statement is on its way. *)
Kill ==
  /\ status # "down"
  /\ kills < MaxKills
  /\ kills' = kills + 1
  /\ status' = "down"
  /\ IF status = "processing"
       THEN /\ Finish(Skipped)
            /\ replica' \in {replica} \cup
                 (IF Recognized(Record.op) /\ ~Refused(Record, Meta)
                    THEN {Applied(Record, Meta)} ELSE {})
       ELSE UNCHANGED <<replica, outcome>>
  /\ UNCHANGED <<external, position, committed, partition, cache>>

Next ==
  \/ \E k \in Keys, content \in SourceContents : InsertRow(k, content)
  \/ \E k, to \in Keys, content \in SourceContents : UpdateRow(k, to, content)
  \/ \E k \in Keys : DeleteRow(k)
  \/ \E t \in {"source", "replica"}, c \in Columns : AlterTable(t, c)
  \/ \E p \in Partitions : ForeignRecord(p)
  \/ StartConsumer
  \/ \E p \in Partitions : Poll(p)
  \/ ProcessRecord
  \/ SkipRecord
  \/ DescPanics
  \/ StreamFails
  \/ AutoCommit
  \/ Kill

Spec == Init /\ [][Next]_vars

(* The consumer's queue holds the records of all partitions in the order of
   their arrival, so that none waits forever; statements return. *)
FairSpec ==
  /\ Spec
  /\ \A p \in Partitions : SF_vars(Poll(p))
  /\ WF_vars(ProcessRecord \/ SkipRecord)

-----------------------------------------------------------------------------
(* Properties. *)

Records == [op : Upsert \cup {"d", "t"}, from : Keys \cup {Absent}, to : Keys \cup {Absent},
            columns : SUBSET Columns, content : Contents]
Outcomes == [how : {"new", "applied", "skipped"}, meta : SUBSET Columns]

(* The state has its types, no offset lies behind the end of a partition, and
   no row has a value in a column its table has not. *)
TypeOK ==
  /\ table \in [Keys -> SourceContents \cup {Absent}]
  /\ columns \in [{"source", "replica"} -> SUBSET Columns]
  /\ topic \in [Partitions -> Seq(Records)]
  /\ outcome \in [Partitions -> Seq(Outcomes)]
  /\ status \in {"down", "polling", "processing", "stopped"}
  /\ {position, committed} \subseteq [Partitions -> Nat]
  /\ \A p \in Partitions :
       /\ position[p] \in 0 .. Len(topic[p])
       /\ committed[p] \in 0 .. position[p]
       /\ Len(outcome[p]) = Len(topic[p])
  /\ partition \in Partitions
  /\ cache \in {{}} \cup {{m} : m \in SUBSET Columns}
  /\ replica \in [Keys -> RowState]
  /\ \A k \in Keys, c \in Columns \ columns["replica"] :
       replica[k] # Absent => replica[k][c] = Default
  /\ alters \in 0 .. MaxAlters
  /\ kills \in 0 .. MaxKills

CaughtUp == status = "polling" /\ \A p \in Partitions : position[p] = Len(topic[p])

(* The records that write or delete the replica's row k. *)
Touches(r, k) == (r.op \in Upsert /\ r.to = k) \/ (r.op = "d" /\ k \in Deleted(r))

LastTouching(p, i, k) ==
  /\ Touches(topic[p][i], k)
  /\ \A j \in DOMAIN topic[p] : Touches(topic[p][j], k) => j <= i
  /\ \A q \in Partitions \ {p} : \A j \in DOMAIN topic[q] : ~Touches(topic[q][j], k)

(* A row is what its last record says and nothing else: once the program has
   caught up, the row holds the record's values in the columns that were known
   to both and that were not dropped since, and defaults in all others.  Neither
   an older record's value nor the number and order of earlier attempts shows,
   after a restart that applied older records again, after ALTERs of either
   table, and with a cache that is older than the last ALTER of the replica.

   sink/mysql.rs:439 expects NULL, not the default, in a column that the record
   lacks: of a statement that the test builds by itself, without the filter of
   :101 that leaves such columns out. *)
LastChangeDecides ==
  CaughtUp => \A p \in Partitions : \A i \in DOMAIN topic[p], k \in Keys :
    LastTouching(p, i, k) /\ outcome[p][i].how = "applied" =>
      IF topic[p][i].op = "d"
        THEN replica[k] = Absent
        ELSE /\ replica[k] # Absent
             /\ \A c \in Columns :
                  replica[k][c] = IF c \in outcome[p][i].meta \cap topic[p][i].columns
                                    THEN topic[p][i].content[c] ELSE Default

(* What may leave a row behind, or bring one back. *)
MovesFrom(r, k) == r.op = "u" /\ r.from = k /\ r.to # k
MovesAcross(r, k) == r.op = "u" /\ r.to = k /\ PartitionOf[r.from] # PartitionOf[k]
Deletes(r, k) == r.op = "d" /\ k \in Deleted(r)

(* sink/mysql.rs:246, "d:delete c:create r:read u:update": the replica keeps a
   row that the source table no longer has only when an update moved it to
   another key, when an update moved it there from a key of another partition,
   whose records may come late, or when an attempt at its delete failed. *)
OnlyMovesLeaveRows ==
  CaughtUp => \A k \in Keys :
    replica[k] # Absent /\ table[k] = Absent =>
      \E p \in Partitions : \E i \in DOMAIN topic[p] :
        \/ MovesFrom(topic[p][i], k)
        \/ MovesAcross(topic[p][i], k)
        \/ Deletes(topic[p][i], k) /\ outcome[p][i].how = "skipped"

(* The records that tell what became of row k, and those that name it at all. *)
Settles(r, k) == (r.op \in Upsert /\ r.to = k) \/ (r.op = "d" /\ r.from = k)
Names(r, k) == r.from = k \/ Touches(r, k)

LastNaming(p, i, k) ==
  /\ \A j \in DOMAIN topic[p] : Names(topic[p][j], k) => j <= i
  /\ \A q \in Partitions \ {p} : \A j \in DOMAIN topic[q] : ~Names(topic[q][j], k)

(* The replica converges: once the program has caught up, a row whose last
   record was applied exists on both sides or on none, and agrees in all columns
   that the record had and the replica knew; after an ALTER TABLE only in those in
   which the source row does not hold the default, since it may have lost its
   value there with the column.  Restarts that apply old records again and
   failures of earlier records do not show.  It is promised for a row whose keys
   are in one partition and that no update moved away last. *)
ReplicaConverges ==
  CaughtUp => \A p \in Partitions : \A i \in DOMAIN topic[p], k \in Keys :
    (/\ LastNaming(p, i, k)
     /\ Settles(topic[p][i], k)
     /\ outcome[p][i].how = "applied")
    => /\ replica[k] = Absent <=> table[k] = Absent
       /\ table[k] # Absent =>
            \A c \in topic[p][i].columns \cap outcome[p][i].meta :
              \/ replica[k][c] = table[k][c]
              \/ alters > 0 /\ table[k][c] = Default

(* The records of each partition that the sink is through with: all that were
   handed out but the one in hand. *)
Done ==
  [p \in Partitions |->
     IF status = "processing" /\ partition = p THEN position[p] - 1 ELSE position[p]]

(* The replica is what ReplicatedTable promises: records are applied in the order
   of their partition, an upsert replaces its row as a whole although its
   statement sets only the columns that the cache knows, and only a restart
   applies records again. *)
Replicated == INSTANCE ReplicatedTable WITH
  log <- topic,
  done <- Done,
  rows <- replica,
  shape <- columns["replica"],
  known <- Meta

ImplementsReplica == Replicated!Spec

(* A restart passes over no record that the sink has not had in hand: the auto
   commit never runs ahead of what the consumer was given. *)
CommittedWereAttempted ==
  \A p \in Partitions : \A i \in 1 .. committed[p] :
    \/ outcome[p][i].how # "new"
    \/ status = "processing" /\ partition = p /\ position[p] = i

(* No record blocks those after it: each is attempted, as long as the program
   is running, tombstones and foreign records included. *)
EventuallyAttempted ==
  \A p \in Partitions, i \in 1 .. MaxRecords :
    (status \in {"polling", "processing"} /\ i <= Len(topic[p]))
      ~> (status \in {"stopped", "down"} \/ (i <= Len(outcome[p]) /\ outcome[p][i].how # "new"))
=============================================================================
