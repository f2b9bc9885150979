------------------------- MODULE SnapshotInit_proofs -------------------------
(***************************************************************************)
(* Proofs about SnapshotInit, for every catalog, every list of tables,     *)
(* every number of permits, batch and queue sizes, all sinks and all       *)
(* failures the constants allow.                                           *)
(***************************************************************************)
EXTENDS SnapshotInit, SetInduction, FiniteSetTheorems, TLAPS

-----------------------------------------------------------------------------
(* Counting. *)

(* There are finitely many tables, rows and messages. *)
LEMMA Finite == IsFiniteSet(Tables) /\ IsFiniteSet(Rows) /\ IsFiniteSet(Messages)
<1>1. IsFiniteSet(DOMAIN Catalog)
  BY SnapshotAssumption, FS_Interval DEF SnapshotAssumption
<1>2. Catalog \in Surjection(DOMAIN Catalog, Range(Catalog))
  BY SnapshotAssumption DEF SnapshotAssumption, Surjection, Range
<1>3. IsFiniteSet(Range(Catalog))
  BY <1>1, <1>2, FS_Surjection
<1>4. IsFiniteSet(Tables)
  BY <1>3, FS_Subset DEF Tables
<1>5. IsFiniteSet(Rows)
  BY SnapshotAssumption DEF SnapshotAssumption
<1> QED
  BY <1>4, <1>5, FS_Product DEF Messages

(* A set of tables or of rows can be counted. *)
LEMMA Countable ==
  /\ \A T \in SUBSET Tables : IsFiniteSet(T) /\ Cardinality(T) \in Nat
  /\ \A R \in SUBSET Rows : IsFiniteSet(R) /\ Cardinality(R) \in Nat
  /\ \A M \in SUBSET Messages : IsFiniteSet(M) /\ Cardinality(M) \in Nat
BY Finite, FS_Subset, FS_CardinalityType


-----------------------------------------------------------------------------
(* Types, permits and the producer's queue. *)

TaskStates == Running \cup {"waiting", "finished", "failed", "aborted"}

MainStates ==
  {"starting", "connecting", "building", "discovering", "spawning", "joining", "ok", "error"}

(* The semaphore's part of TypeOK. *)
PermitsOK ==
  /\ permits \in Nat /\ permits + Cardinality(Holders) = PipelineParallelism
  /\ task \in [Tables -> TaskStates]

(* The rows' part of TypeOK. *)
RowsOK ==
  /\ content \in [Tables -> SUBSET Rows]
  /\ changes \in 0 .. MaxChanges
  /\ expected \in [Tables -> Nat \cup {Unknown}]
  /\ actual \in [Tables -> Nat]
  /\ selected \in [Tables -> SUBSET Rows]
  /\ unread \in [Tables -> SUBSET Rows]
  /\ batch \in [Tables -> SUBSET Rows]

(* The messages' part of TypeOK. *)
MessagesOK ==
  /\ awaited \in [Tables -> SUBSET Messages]
  /\ buffer \subseteq Messages /\ (sink = "rdkafka" => Cardinality(buffer) <= QueueSlots)
  /\ written \subseteq Messages \cup {Earlier}
  /\ undelivered \subseteq Messages

(* The rest of TypeOK. *)
MainOK ==
  /\ sink \in Sinks
  /\ main \in MainStates
  /\ joined \subseteq Tables

(* TypeOK and its parts. *)
LEMMA TypeParts ==
  /\ TypeOK <=> MainOK /\ PermitsOK /\ RowsOK /\ MessagesOK
  /\ TypeOK' <=> MainOK' /\ PermitsOK' /\ RowsOK' /\ MessagesOK'
BY DEF TypeOK, MainOK, PermitsOK, RowsOK, MessagesOK, TaskStates, MainStates

(* A message of a row of a table. *)
LEMMA MessageTyped == \A t \in Tables, r \in Rows : Message(t, r) \in Messages
BY DEF Message, Messages

(* The permits stay where they are, or one is given back. *)
LEMMA PermitsOfTask ==
  ASSUME PermitsOK, NEW t \in Tables, task[t] \in Running
  PROVE  /\ \A s \in Running : Becomes(t, s) /\ UNCHANGED permits => PermitsOK'
         /\ \A s \in {"finished", "failed"} : Ends(t, s) => PermitsOK'
<1>1. ASSUME NEW s \in Running, Becomes(t, s), UNCHANGED permits PROVE PermitsOK'
  <2>1. task' \in [Tables -> TaskStates]
    BY <1>1 DEF PermitsOK, Becomes, TaskStates
  <2>2. Holders' = Holders
    BY <1>1 DEF PermitsOK, Becomes, Holders
  <2> QED
    BY <1>1, <2>1, <2>2 DEF PermitsOK
<1>2. ASSUME NEW s \in {"finished", "failed"}, Ends(t, s) PROVE PermitsOK'
  <2>1. task' \in [Tables -> TaskStates]
    BY <1>2 DEF PermitsOK, Ends, Becomes, TaskStates
  <2>2. Holders' = Holders \ {t} /\ t \in Holders /\ Holders \in SUBSET Tables
    BY <1>2 DEF PermitsOK, Ends, Becomes, Holders, Running
  <2>3. Cardinality(Holders') = Cardinality(Holders) - 1 /\ Cardinality(Holders) \in Nat
    BY <2>2, Countable, FS_RemoveElement
  <2>4. permits' = permits + 1
    BY <1>2 DEF Ends, PermitsReturned
  <2>5. permits' \in Nat
    BY <2>4 DEF PermitsOK
  <2>6. permits' + Cardinality(Holders') = permits + Cardinality(Holders)
    BY <2>3, <2>4 DEF PermitsOK
  <2>7. PipelineParallelism' = PipelineParallelism
    BY DEF PipelineParallelism
  <2> QED
    BY <2>1, <2>5, <2>6, <2>7 DEF PermitsOK
<1> QED
  BY <1>1, <1>2

(* A message more in librdkafka's queue, when there is room. *)
LEMMA QueueTyped ==
  ASSUME MessagesOK, NEW m \in Messages, Cardinality(buffer) < QueueSlots
  PROVE  /\ buffer \cup {m} \subseteq Messages
         /\ Cardinality(buffer \cup {m}) <= QueueSlots
<1>1. IsFiniteSet(buffer) /\ Cardinality(buffer) \in Nat
  BY Countable DEF MessagesOK
<1>2. QueueSlots \in Nat
  BY SnapshotAssumption DEF SnapshotAssumption
<1>3. Cardinality(buffer \cup {m}) \in {Cardinality(buffer), Cardinality(buffer) + 1}
  BY <1>1, FS_AddElement
<1>4. buffer \cup {m} \subseteq Messages
  BY DEF MessagesOK
<1> QED
  BY <1>1, <1>2, <1>3, <1>4

(* In the initial state all permits are free and nothing is written. *)
LEMMA TypeInit == Init => TypeOK
<1> SUFFICES ASSUME Init PROVE TypeOK
  OBVIOUS
<1>1. MainOK
  BY DEF Init, MainOK, MainStates
<1>2. PermitsOK
  <2>1. task \in [Tables -> TaskStates] /\ Holders = {}
    BY DEF Init, TaskStates, Holders, Running
  <2>2. PipelineParallelism \in Nat
    BY SnapshotAssumption DEF SnapshotAssumption, PipelineParallelism
  <2> QED
    BY <2>1, <2>2, FS_EmptySet DEF Init, PermitsOK
<1>3. RowsOK
  BY SnapshotAssumption DEF SnapshotAssumption, Init, RowsOK
<1>4. MessagesOK
  BY SnapshotAssumption, FS_EmptySet DEF SnapshotAssumption, Init, MessagesOK
<1> QED
  BY <1>1, <1>2, <1>3, <1>4, TypeParts

-----------------------------------------------------------------------------
(* The steps of a task. *)

(* Fetching changes neither messages nor anything else of run(). *)
LEMMA FetchingType ==
  ASSUME TypeOK, NEW t \in Tables, Fetching(t)
  PROVE  TypeOK'
<1> USE TypeParts
<1>0. content[t] \in SUBSET Rows /\ unread[t] \in SUBSET Rows /\ batch[t] \in SUBSET Rows
  BY DEF RowsOK
<1>1. CASE CountRows(t)
  <2>1. PermitsOK'
    BY <1>1, PermitsOfTask DEF CountRows, Running, control
  <2>2. RowsOK'
    <3>1. Cardinality(content[t]) \in Nat
      BY <1>0, Countable
    <3>2. expected' \in [Tables -> Nat \cup {Unknown}]
      BY <1>1, <3>1 DEF CountRows, RowsOK
    <3> QED
      BY <1>1, <3>2 DEF CountRows, RowsOK, source, output
  <2> QED
    BY <1>1, <2>1, <2>2 DEF CountRows, MainOK, MessagesOK, control, output
<1>2. CASE OpenSelect(t)
  <2>1. PermitsOK'
    BY <1>2, PermitsOfTask DEF OpenSelect, Running, control
  <2>2. RowsOK'
    BY <1>0, <1>2 DEF OpenSelect, RowsOK, SnapshotRows, source, output
  <2> QED
    BY <1>2, <2>1, <2>2 DEF OpenSelect, MainOK, MessagesOK, control, output
<1>3. CASE FetchRow(t)
  <2>1. PermitsOK'
    BY <1>3, PermitsOfTask DEF FetchRow, Running, control, PermitsOK, Holders
  <2>2. RowsOK'
    <3>1. PICK r \in unread[t] :
            /\ unread' = [unread EXCEPT ![t] = @ \ {r}]
            /\ batch' = [batch EXCEPT ![t] = @ \cup {r}]
      BY <1>3 DEF FetchRow
    <3>2. unread' \in [Tables -> SUBSET Rows] /\ batch' \in [Tables -> SUBSET Rows]
      BY <1>0, <3>1 DEF RowsOK
    <3>3. actual' \in [Tables -> Nat]
      BY <1>3 DEF FetchRow, RowsOK
    <3> QED
      BY <1>3, <3>2, <3>3 DEF FetchRow, RowsOK, source
  <2> QED
    BY <1>3, <2>1, <2>2 DEF FetchRow, MainOK, MessagesOK, control
<1>4. CASE EndOfRows(t)
  <2>1. PermitsOK'
    BY <1>4, PermitsOfTask DEF EndOfRows, Running, control
  <2> QED
    BY <1>4, <2>1 DEF EndOfRows, Ends, MainOK, RowsOK, MessagesOK, control, source, query, output
<1>5. CASE QueryFails(t)
  <2>1. PermitsOK'
    BY <1>5, PermitsOfTask DEF QueryFails, Running
  <2> QED
    BY <1>5, <2>1 DEF QueryFails, Ends, MainOK, RowsOK, MessagesOK, source, query, output
<1> QED
  BY <1>1, <1>2, <1>3, <1>4, <1>5 DEF Fetching

(* Sending takes rows out of the batch and makes them messages. *)
LEMMA SendingType ==
  ASSUME TypeOK, NEW t \in Tables, Sending(t)
  PROVE  TypeOK'
<1> USE TypeParts
<1>0. batch[t] \in SUBSET Rows /\ \A r \in batch[t] : Message(t, r) \in Messages
  BY MessageTyped DEF RowsOK
<1>a. ASSUME NEW R, Sent(t, R) PROVE batch' \in [Tables -> SUBSET Rows]
  BY <1>0, <1>a DEF Sent, RowsOK
<1>1. CASE QueueMessage(t)
  <2>1. PermitsOK'
    BY <1>1, PermitsOfTask DEF QueueMessage, Running, control, PermitsOK, Holders
  <2>2. RowsOK'
    BY <1>1, <1>a DEF QueueMessage, RowsOK, source, query
  <2>3. MessagesOK'
    BY <1>0, <1>1, QueueTyped DEF QueueMessage, MessagesOK, control
  <2> QED
    BY <1>1, <2>1, <2>2, <2>3 DEF QueueMessage, MainOK, control
<1>2. CASE RetryQueues(t)
  <2>1. PermitsOK' /\ MainOK'
    BY <1>2 DEF RetryQueues, PermitsOK, MainOK, Holders, control, PipelineParallelism
  <2>2. RowsOK'
    BY <1>2, <1>a DEF RetryQueues, RowsOK, source, query
  <2>3. MessagesOK'
    BY <1>0, <1>2, QueueTyped DEF RetryQueues, MessagesOK, control
  <2> QED
    BY <2>1, <2>2, <2>3
<1>3. CASE RetryDelivered(t)
  <2>1. PermitsOK'
    BY <1>3, PermitsOfTask DEF RetryDelivered, Running, control
  <2>2. MessagesOK'
    BY <1>3 DEF RetryDelivered, MessagesOK, control
  <2> QED
    BY <1>3, <2>1, <2>2 DEF RetryDelivered, MainOK, RowsOK, control, source, query
<1>4. CASE RetryFails(t)
  <2>1. PermitsOK'
    BY <1>4, PermitsOfTask DEF RetryFails, Running
  <2> QED
    BY <1>4, <2>1 DEF RetryFails, Ends, MainOK, RowsOK, MessagesOK, source, query, output
<1>5. CASE ProduceMessage(t)
  <2>1. PermitsOK' /\ MainOK'
    BY <1>5 DEF ProduceMessage, PermitsOK, MainOK, Holders, control, PipelineParallelism
  <2>2. RowsOK'
    BY <1>5, <1>a DEF ProduceMessage, RowsOK, source, query
  <2>3. MessagesOK'
    BY <1>0, <1>5 DEF ProduceMessage, MessagesOK, control
  <2> QED
    BY <2>1, <2>2, <2>3
<1>6. CASE WriteBatch(t)
  <2>1. PermitsOK' /\ MainOK'
    BY <1>6 DEF WriteBatch, PermitsOK, MainOK, Holders, control, PipelineParallelism
  <2>2. RowsOK'
    BY <1>6, <1>a DEF WriteBatch, RowsOK, source, query
  <2>3. MessagesOK'
    BY <1>0, <1>6 DEF WriteBatch, MessagesOK, control, FileSinks
  <2> QED
    BY <2>1, <2>2, <2>3
<1>7. CASE SendFails(t)
  <2>1. PermitsOK'
    BY <1>7, PermitsOfTask DEF SendFails, Running
  <2>2. MessagesOK'
    BY <1>0, <1>7 DEF SendFails, Ends, MessagesOK
  <2> QED
    BY <1>7, <2>1, <2>2 DEF SendFails, Ends, MainOK, RowsOK, source, query
<1>8. CASE BatchSent(t)
  <2>1. PermitsOK'
    BY <1>8, PermitsOfTask DEF BatchSent, Running, control
  <2> QED
    BY <1>8, <2>1 DEF BatchSent, MainOK, RowsOK, MessagesOK, control, source, query, output
<1> QED
  BY <1>1, <1>2, <1>3, <1>4, <1>5, <1>6, <1>7, <1>8 DEF Sending

-----------------------------------------------------------------------------
(* The steps of run(), of the clients and of librdkafka. *)

(* A step of run() before the tasks moves `main` and what is in the file. *)
LEMMA StartType ==
  ASSUME TypeOK, NEW from, NEW to \in MainStates, NEW mayFail, StartStep(from, to, mayFail),
         written' \subseteq written
  PROVE  TypeOK'
<1>1. PermitsOK'
  BY TypeParts DEF StartStep, PermitsOK, Holders, PipelineParallelism
<1>2. RowsOK'
  BY TypeParts DEF StartStep, RowsOK, source, query
<1>3. MessagesOK'
  BY TypeParts DEF StartStep, MessagesOK
<1>4. MainOK'
  BY TypeParts DEF StartStep, MainOK, MainStates
<1> QED
  BY <1>1, <1>2, <1>3, <1>4, TypeParts

(* The first steps of run(), up to the list of tables. *)
Starting ==
  \/ ReadConfig \/ ConnectSource
  \/ BuildRdKafkaSink \/ BuildRsKafkaSink \/ BuildFileSink \/ BuildConsoleSink
  \/ DiscoverTables

(* Each of them is a step StartStep. *)
LEMMA StartingType == ASSUME TypeOK, Starting PROVE TypeOK'
<1>1. CASE ReadConfig
  <2>1. (IF IncludeFails(IncludeTables) THEN "error" ELSE "connecting") \in MainStates
    BY DEF MainStates
  <2> QED
    BY <1>1, <2>1, StartType DEF ReadConfig
<1>2. CASE ConnectSource
  BY <1>2, StartType DEF ConnectSource, MainStates
<1>3. CASE BuildRdKafkaSink \/ BuildRsKafkaSink \/ BuildConsoleSink
  BY <1>3, StartType DEF BuildRdKafkaSink, BuildRsKafkaSink, BuildConsoleSink, MainStates
<1>4. CASE BuildFileSink
  <2>1. written' \subseteq written
    BY <1>4 DEF BuildFileSink, Opened
  <2> QED
    BY <1>4, <2>1, StartType DEF BuildFileSink, MainStates
<1>5. CASE DiscoverTables
  <2>1. (IF Tables = {} THEN "ok" ELSE "spawning") \in MainStates
    BY DEF MainStates
  <2> QED
    BY <1>5, <2>1, StartType DEF DiscoverTables
<1> QED
  BY <1>1, <1>2, <1>3, <1>4, <1>5 DEF Starting

(* A table's task starts with a permit of its own. *)
LEMMA SpawnType == ASSUME TypeOK, Spawn PROVE TypeOK'
<1>1. PermitsOK'
  <2>1. PICK t \in Waiting : Becomes(t, IF VerifyRowCount THEN "counting" ELSE "loading")
    BY DEF Spawn
  <2>2. t \in Tables /\ t \notin Holders
    BY <2>1 DEF Waiting, Holders, Running
  <2>3. task' \in [Tables -> TaskStates]
    BY <2>1, <2>2, TypeParts DEF Becomes, PermitsOK, TaskStates, Running
  <2>4. Holders' = Holders \cup {t}
    BY <2>1, <2>2, TypeParts DEF Becomes, PermitsOK, Holders, Running
  <2>5. Holders \in SUBSET Tables
    BY DEF Holders
  <2>6. Cardinality(Holders') = Cardinality(Holders) + 1 /\ Cardinality(Holders) \in Nat
    BY <2>2, <2>4, <2>5, Countable, FS_AddElement
  <2>7. permits \in Nat /\ permits > 0 /\ permits' = permits - 1
    BY TypeParts DEF Spawn, PermitsTaken, PermitsOK
  <2>8. permits' \in Nat /\ permits' + Cardinality(Holders') = permits + Cardinality(Holders)
    BY <2>6, <2>7
  <2> QED
    BY <2>3, <2>8, TypeParts DEF PermitsOK, PipelineParallelism
<1> QED
  BY <1>1, TypeParts DEF Spawn, MainOK, RowsOK, MessagesOK, source, query, output

(* The abort of the other tasks returns no permit. *)
LEMMA JoinFailedType == ASSUME TypeOK, NEW t \in Tables, JoinFailed(t) PROVE TypeOK'
<1>1. task' = [u \in Tables |-> IF task[u] \in Running THEN "aborted" ELSE task[u]]
  BY DEF JoinFailed
<1>2. task' \in [Tables -> TaskStates]
  BY <1>1, TypeParts DEF PermitsOK, TaskStates
<1>3. Holders' = Holders
  BY <1>1, TypeParts DEF PermitsOK, Holders, Running
<1>4. PermitsOK'
  BY <1>2, <1>3, TypeParts DEF JoinFailed, PermitsOK, PipelineParallelism
<1> QED
  BY <1>4, TypeParts
     DEF JoinFailed, MainOK, MainStates, RowsOK, MessagesOK, source, query, output

(* The other steps of run() once tables are there. *)
LEMMA JoiningType ==
  ASSUME TypeOK, StartJoining \/ (\E t \in Tables : JoinFinished(t)) \/ FlushAndVerify
  PROVE  TypeOK'
<1>1. CASE StartJoining
  BY <1>1, TypeParts DEF StartJoining, MainOK, MainStates, PermitsOK, Holders, RowsOK, MessagesOK,
                         PipelineParallelism, source, query, output
<1>2. CASE \E t \in Tables : JoinFinished(t)
  BY <1>2, TypeParts DEF JoinFinished, MainOK, PermitsOK, Holders, RowsOK, MessagesOK,
                         PipelineParallelism, source, query, output
<1>3. CASE FlushAndVerify
  <2>1. PermitsOK' /\ RowsOK'
    BY <1>3, TypeParts DEF FlushAndVerify, PermitsOK, Holders, RowsOK, PipelineParallelism,
                           source, query
  <2>2. MessagesOK'
    <3>1. Cardinality({}) <= QueueSlots
      BY FS_EmptySet, SnapshotAssumption DEF SnapshotAssumption
    <3>2. buffer' = {} \/ buffer' = buffer
      BY <1>3 DEF FlushAndVerify
    <3> QED
      BY <1>3, <3>1, <3>2, TypeParts DEF FlushAndVerify, MessagesOK
  <2>3. MainOK'
    BY <1>3, TypeParts DEF FlushAndVerify, Verdict, MainOK, MainStates
  <2> QED
    BY <2>1, <2>2, <2>3, TypeParts
<1> QED
  BY <1>1, <1>2, <1>3

(* Clients change rows of a table, librdkafka's thread takes from its queue. *)
LEMMA OutsideType ==
  ASSUME TypeOK, (\E t \in Tables : ChangeTable(t)) \/ (\E m \in buffer : DeliverMessage(m))
  PROVE  TypeOK'
<1>1. ASSUME NEW t \in Tables, ChangeTable(t) PROVE TypeOK'
  <2>1. RowsOf[t] \subseteq Rows
    BY SnapshotAssumption DEF SnapshotAssumption, Tables, Rows, Range
  <2>2. RowsOK'
    <3>1. content[t] \in SUBSET Rows /\ MaxChanges \in Nat
      BY TypeParts, SnapshotAssumption DEF RowsOK, SnapshotAssumption
    <3>2. content' \in [Tables -> SUBSET Rows]
      BY <1>1, <2>1, <3>1, TypeParts DEF ChangeTable, RowsOK
    <3>3. changes' \in 0 .. MaxChanges
      BY <1>1, <3>1, TypeParts DEF ChangeTable, RowsOK
    <3> QED
      BY <1>1, <3>2, <3>3, TypeParts DEF ChangeTable, RowsOK, query, output
  <2> QED
    BY <1>1, <2>2, TypeParts DEF ChangeTable, MainOK, PermitsOK, Holders, MessagesOK,
                                 PipelineParallelism, control, output
<1>2. ASSUME NEW m \in buffer, DeliverMessage(m) PROVE TypeOK'
  <2>1. MessagesOK'
    <3>1. IsFiniteSet(buffer) /\ Cardinality(buffer) \in Nat
      BY Countable, TypeParts DEF MessagesOK
    <3>2. Cardinality(buffer \ {m}) = Cardinality(buffer) - 1
      BY <3>1, FS_RemoveElement
    <3>3. QueueSlots \in Nat
      BY SnapshotAssumption DEF SnapshotAssumption
    <3>4. sink' = "rdkafka" => Cardinality(buffer') <= QueueSlots
      BY <1>2, <3>1, <3>2, <3>3, TypeParts DEF DeliverMessage, MessagesOK, control
    <3> QED
      BY <1>2, <3>4, TypeParts DEF DeliverMessage, MessagesOK
  <2> QED
    BY <1>2, <2>1, TypeParts DEF DeliverMessage, MainOK, PermitsOK, Holders, RowsOK,
                                 PipelineParallelism, source, control, query
<1> QED
  BY <1>1, <1>2

(* Every step keeps the types. *)
LEMMA TypeInductive == TypeOK /\ [Next]_vars => TypeOK'
<1> SUFFICES ASSUME TypeOK, [Next]_vars PROVE TypeOK'
  OBVIOUS
<1>1. CASE UNCHANGED vars
  BY <1>1, TypeParts DEF vars, source, control, query, output, MainOK, PermitsOK, Holders,
                         RowsOK, MessagesOK, PipelineParallelism
<1>2. CASE Next
  BY <1>1, <1>2, StartingType, SpawnType, JoiningType, JoinFailedType, OutsideType,
     FetchingType, SendingType DEF Next, Run, Starting, Exited
<1> QED
  BY <1>1, <1>2

(* The export has its types in every state, whatever the catalog and the list
   of tables are; each running task holds one of pipeline.parallelism permits,
   none is lost when a task fails, and the producer's queue is never overfilled. *)
THEOREM TypeCorrect == Spec => []TypeOK
<1>1. Init => TypeOK
  BY TypeInit
<1>2. TypeOK /\ [Next]_vars => TypeOK'
  BY TypeInductive
<1> QED
  BY <1>1, <1>2, PTL DEF Spec

-----------------------------------------------------------------------------
(* Success means exported. *)

(* Rows of t that are messages, wherever these are. *)
RowsOut(t) == {r \in Rows : Message(t, r) \in buffer \cup written \cup undelivered}

(* What a SELECT returned is still to be fetched, in the batch, or a message;
   nothing else of the table is. *)
RowsFlow == \A t \in Tables : selected[t] = unread[t] \cup batch[t] \cup RowsOut(t)

(* actual counts the rows fetched. *)
RowsCounted == \A t \in Tables : actual[t] = Cardinality(selected[t] \ unread[t])

(* Before its SELECT a table has nothing on its way. *)
NothingYet ==
  \A t \in Tables : task[t] \in {"waiting", "counting", "loading"} =>
                      selected[t] = {} /\ unread[t] = {} /\ batch[t] = {} /\ actual[t] = 0

(* A task that ends well has neither rows left to fetch nor an open batch. *)
FinishedSentAll ==
  /\ \A t \in Tables : task[t] = "finished" => unread[t] = {} /\ batch[t] = {}
  /\ \A t \in joined : task[t] = "finished"

(* The tasks start after the sink is built. *)
TasksAfterSink ==
  main \in {"starting", "connecting", "building", "discovering"} =>
    \A t \in Tables : task[t] = "waiting"

(* The earlier export stays until the file is opened, and then only if the new
   one is appended to it. *)
EarlierKept ==
  /\ main \in {"starting", "connecting", "building"} => (Earlier \in written <=> sink \in FileSinks)
  /\ main \in {"discovering", "spawning", "joining", "ok"} =>
       (Earlier \in written <=> sink = "append")

(* The verdict stands. *)
SuccessVerified ==
  main = "ok" =>
    /\ joined = Tables
    /\ Tables # {} => buffer = {}
    /\ FailOnMismatch => \A t \in Tables : ~Mismatch(t)

ExportInv ==
  /\ TypeOK
  /\ RowsFlow
  /\ RowsCounted
  /\ NothingYet
  /\ FinishedSentAll
  /\ TasksAfterSink
  /\ EarlierKept
  /\ SuccessVerified

(* What a state of success has, is what OkMeansExported says. *)
LEMMA ExportSafe == ExportInv => OkMeansExported
<1> SUFFICES ASSUME ExportInv, main = "ok" PROVE OkMeansExported
  BY DEF OkMeansExported
<1>1. Earlier \in written <=> sink = "append"
  BY DEF ExportInv, EarlierKept
<1>2. ASSUME NEW t \in Tables
      PROVE  /\ task[t] = "finished"
             /\ RowsWritten(t) \cup GivenUp(t) = selected[t]
             /\ VerifyRowCount /\ FailOnMismatch => Cardinality(selected[t]) = expected[t]
  <2>1. task[t] = "finished" /\ unread[t] = {} /\ batch[t] = {} /\ buffer = {}
    BY <1>2 DEF ExportInv, FinishedSentAll, SuccessVerified
  <2>2. selected[t] = RowsOut(t)
    BY <2>1 DEF ExportInv, RowsFlow
  <2>3. RowsOut(t) = RowsWritten(t) \cup GivenUp(t)
    BY <2>1 DEF RowsOut, RowsWritten, GivenUp
  <2>4. actual[t] = Cardinality(selected[t])
    <3>1. selected[t] \ unread[t] = selected[t]
      BY <2>1
    <3> QED
      BY <3>1 DEF ExportInv, RowsCounted
  <2>5. VerifyRowCount /\ FailOnMismatch => expected[t] = actual[t]
    BY DEF ExportInv, SuccessVerified, Mismatch
  <2> QED
    BY <2>1, <2>2, <2>3, <2>4, <2>5
<1> QED
  BY <1>1, <1>2 DEF OkMeansExported

(* Nothing is exported yet in the initial state. *)
LEMMA ExportInit == Init => ExportInv
<1> SUFFICES ASSUME Init PROVE ExportInv
  OBVIOUS
<1>1. \A t \in Tables, r \in Rows : Message(t, r) \notin written
  BY SnapshotAssumption DEF SnapshotAssumption, Init, Message
<1>2. RowsFlow
  BY <1>1 DEF Init, RowsFlow, RowsOut
<1>3. RowsCounted
  BY FS_EmptySet DEF Init, RowsCounted
<1>4. NothingYet /\ FinishedSentAll /\ TasksAfterSink /\ EarlierKept /\ SuccessVerified
  BY DEF Init, NothingYet, FinishedSentAll, TasksAfterSink, EarlierKept, SuccessVerified
<1> QED
  BY <1>2, <1>3, <1>4, TypeInit DEF ExportInv

(* While the tasks run, their steps leave run() and the earlier export alone. *)
LEMMA RunUntouched ==
  ASSUME ExportInv, main \in {"spawning", "joining"}, UNCHANGED <<sink, main>>,
         Earlier \in written' <=> Earlier \in written
  PROVE  TasksAfterSink' /\ EarlierKept' /\ SuccessVerified'
BY DEF ExportInv, TasksAfterSink, EarlierKept, SuccessVerified

(* Rows of t that become messages are rows of its batch; those that leave the
   batch are among them. *)
LEMMA BatchFlows ==
  ASSUME ExportInv, NEW t \in Tables, NEW R \in SUBSET batch[t], NEW S \in SUBSET R,
         UNCHANGED query,
         batch' = [batch EXCEPT ![t] = @ \ S],
         buffer' \cup written' \cup undelivered'
           = (buffer \cup written \cup undelivered) \cup {Message(t, r) : r \in R}
  PROVE  RowsFlow' /\ RowsCounted'
<1>1. batch[t] \in SUBSET Rows /\ batch'[t] = batch[t] \ S
  BY DEF ExportInv, TypeOK
<1>2. RowsOut(t)' = RowsOut(t) \cup R
  BY <1>1 DEF RowsOut, Message
<1>3. ASSUME NEW u \in Tables \ {t} PROVE RowsOut(u)' = RowsOut(u) /\ batch'[u] = batch[u]
  BY <1>3 DEF RowsOut, Message, ExportInv, TypeOK
<1>4. selected' = selected /\ unread' = unread /\ actual' = actual
  BY DEF query
<1>5. ASSUME NEW u \in Tables PROVE (selected[u] = unread[u] \cup batch[u] \cup RowsOut(u))'
  <2>1. CASE u = t
    BY <1>1, <1>2, <1>4, <2>1 DEF ExportInv, RowsFlow
  <2>2. CASE u # t
    BY <1>3, <1>4, <2>2 DEF ExportInv, RowsFlow
  <2> QED
    BY <2>1, <2>2
<1>6. RowsCounted'
  BY <1>4 DEF ExportInv, RowsCounted
<1> QED
  BY <1>5, <1>6 DEF RowsFlow

(* Where nothing of the rows changes, their flow does not either. *)
LEMMA FlowUntouched ==
  ASSUME ExportInv, UNCHANGED <<query, batch>>,
         buffer' \cup written' \cup undelivered' = buffer \cup written \cup undelivered
  PROVE  RowsFlow' /\ RowsCounted'
<1>1. ASSUME NEW t \in Tables PROVE RowsOut(t)' = RowsOut(t)
  BY DEF RowsOut, Message
<1> QED
  BY <1>1 DEF ExportInv, RowsFlow, RowsCounted, query

(* A task goes from one state to another; what its next state asks for is there. *)
LEMMA TaskMoves ==
  ASSUME ExportInv, NEW t \in Tables, NEW s, task[t] \in Running, Becomes(t, s),
         UNCHANGED joined,
         \A u \in Tables \ {t} :
           /\ selected'[u] = selected[u] /\ unread'[u] = unread[u]
           /\ batch'[u] = batch[u] /\ actual'[u] = actual[u],
         s \in {"waiting", "counting", "loading"} =>
           selected'[t] = {} /\ unread'[t] = {} /\ batch'[t] = {} /\ actual'[t] = 0,
         s = "finished" => unread'[t] = {} /\ batch'[t] = {}
  PROVE  NothingYet' /\ FinishedSentAll'
<1>1. task'[t] = s /\ \A u \in Tables \ {t} : task'[u] = task[u]
  BY DEF Becomes, ExportInv, TypeOK
<1>2. NothingYet'
  BY <1>1 DEF ExportInv, NothingYet
<1>3. t \notin joined /\ joined \subseteq Tables
  BY DEF ExportInv, FinishedSentAll, Running, TypeOK
<1>4. FinishedSentAll'
  BY <1>1, <1>3 DEF ExportInv, FinishedSentAll
<1> QED
  BY <1>2, <1>4

(* A table's SELECT moves rows into the batch, its end is noticed. *)
LEMMA FetchingExport ==
  ASSUME ExportInv, main \in {"spawning", "joining"}, NEW t \in Tables, Fetching(t)
  PROVE  ExportInv'
<1>1. TypeOK' /\ TypeOK
  BY FetchingType DEF ExportInv
<1>2. UNCHANGED <<sink, main, joined, awaited, buffer, written, undelivered>>
  BY DEF Fetching, CountRows, OpenSelect, FetchRow, EndOfRows, QueryFails, Ends, control, output
<1>3. TasksAfterSink' /\ EarlierKept' /\ SuccessVerified'
  BY <1>2, RunUntouched
<1>4. CASE CountRows(t)
  <2>1. UNCHANGED <<actual, selected, unread, batch>> /\ Becomes(t, "loading")
        /\ task[t] = "counting"
    BY <1>4 DEF CountRows, output
  <2>2. NothingYet' /\ FinishedSentAll'
    BY <1>2, <2>1, TaskMoves DEF ExportInv, NothingYet, Running
  <2>3. RowsFlow' /\ RowsCounted'
    <3>1. \A u \in Tables : RowsOut(u)' = RowsOut(u)
      BY <1>2 DEF RowsOut, Message
    <3> QED
      BY <2>1, <3>1 DEF ExportInv, RowsFlow, RowsCounted
  <2> QED
    BY <1>1, <1>3, <2>2, <2>3 DEF ExportInv
<1>5. CASE OpenSelect(t)
  <2>1. /\ task[t] = "loading" /\ Becomes(t, "fetching")
        /\ selected' = [selected EXCEPT ![t] = content[t]]
        /\ unread' = [unread EXCEPT ![t] = content[t]]
        /\ UNCHANGED <<actual, batch>>
    BY <1>5 DEF OpenSelect, SnapshotRows, output
  <2>2. selected'[t] = content[t] /\ unread'[t] = content[t]
        /\ \A u \in Tables \ {t} : selected'[u] = selected[u] /\ unread'[u] = unread[u]
    BY <1>1, <2>1 DEF TypeOK
  <2>3. selected[t] = {} /\ batch[t] = {} /\ actual[t] = 0 /\ RowsOut(t) = {}
    BY <2>1 DEF ExportInv, NothingYet, RowsFlow
  <2>4. NothingYet' /\ FinishedSentAll'
    BY <1>2, <2>1, <2>2, TaskMoves DEF Running
  <2>5. \A u \in Tables : RowsOut(u)' = RowsOut(u)
    BY <1>2 DEF RowsOut, Message
  <2>6. RowsFlow'
    BY <2>1, <2>2, <2>3, <2>5 DEF ExportInv, RowsFlow
  <2>7. selected'[t] \ unread'[t] = {} /\ actual'[t] = 0
    BY <2>1, <2>2, <2>3
  <2>8. RowsCounted'
    BY <2>1, <2>2, <2>7, FS_EmptySet DEF ExportInv, RowsCounted
  <2> QED
    BY <1>1, <1>3, <2>4, <2>6, <2>8 DEF ExportInv
<1>6. CASE FetchRow(t)
  <2>1. PICK r \in unread[t] : /\ unread' = [unread EXCEPT ![t] = @ \ {r}]
                               /\ batch' = [batch EXCEPT ![t] = @ \cup {r}]
    BY <1>6 DEF FetchRow
  <2>2. /\ task[t] = "fetching"
        /\ actual' = [actual EXCEPT ![t] = @ + 1]
        /\ UNCHANGED selected
        /\ Becomes(t, "sending") \/ UNCHANGED task
    BY <1>6 DEF FetchRow
  <2>3. /\ unread'[t] = unread[t] \ {r} /\ batch'[t] = batch[t] \cup {r}
        /\ actual'[t] = actual[t] + 1
        /\ \A u \in Tables \ {t} :
             unread'[u] = unread[u] /\ batch'[u] = batch[u] /\ actual'[u] = actual[u]
    BY <1>1, <2>1, <2>2 DEF TypeOK
  <2>4. NothingYet' /\ FinishedSentAll'
    <3>1. CASE Becomes(t, "sending")
      BY <1>2, <2>2, <2>3, <3>1, TaskMoves DEF Running
    <3>2. CASE UNCHANGED task
      BY <1>2, <2>2, <2>3, <3>2 DEF ExportInv, NothingYet, FinishedSentAll
    <3> QED
      BY <2>2, <3>1, <3>2
  <2>5. \A u \in Tables : RowsOut(u)' = RowsOut(u)
    BY <1>2 DEF RowsOut, Message
  <2>6. RowsFlow'
    BY <2>2, <2>3, <2>5 DEF ExportInv, RowsFlow
  <2>7. /\ selected'[t] \ unread'[t] = (selected[t] \ unread[t]) \cup {r}
        /\ r \notin selected[t] \ unread[t]
    BY <2>2, <2>3 DEF ExportInv, RowsFlow
  <2>8. IsFiniteSet(selected[t] \ unread[t])
    <3>1. selected[t] \ unread[t] \in SUBSET Rows
      BY <1>1 DEF TypeOK
    <3> QED
      BY <3>1, Countable
  <2>9. Cardinality(selected'[t] \ unread'[t]) = Cardinality(selected[t] \ unread[t]) + 1
    BY <2>7, <2>8, FS_AddElement
  <2>10. RowsCounted'
    BY <2>2, <2>3, <2>9 DEF ExportInv, RowsCounted
  <2> QED
    BY <1>1, <1>3, <2>4, <2>6, <2>10 DEF ExportInv
<1>7. CASE EndOfRows(t) \/ QueryFails(t)
  <2>1. UNCHANGED <<query, batch>>
    BY <1>7 DEF EndOfRows, QueryFails, output
  <2>2. RowsFlow' /\ RowsCounted'
    BY <1>2, <2>1, FlowUntouched
  <2>3. PICK s \in {"sending", "finished", "failed"} :
          Becomes(t, s) /\ (s = "finished" => unread[t] = {} /\ batch[t] = {})
    BY <1>7 DEF EndOfRows, QueryFails, Ends, RestToSend
  <2>4. task[t] \in Running
    BY <1>7 DEF EndOfRows, QueryFails, Running
  <2>5. NothingYet' /\ FinishedSentAll'
    BY <1>2, <2>1, <2>3, <2>4, TaskMoves DEF query
  <2> QED
    BY <1>1, <1>3, <2>2, <2>5 DEF ExportInv
<1> QED
  BY <1>4, <1>5, <1>6, <1>7 DEF Fetching

(* What leaves a batch is a message; a task that gives up keeps its rows. *)
LEMMA SendingExport ==
  ASSUME ExportInv, main \in {"spawning", "joining"}, NEW t \in Tables, Sending(t)
  PROVE  ExportInv'
<1>1. TypeOK' /\ TypeOK
  BY SendingType DEF ExportInv
<1>2. /\ UNCHANGED <<sink, main, joined, query>>
      /\ task[t] \in {"sending", "retrying"}
  BY DEF Sending, QueueMessage, RetryQueues, RetryDelivered, RetryFails, ProduceMessage, WriteBatch,
         SendFails, BatchSent, Ends, control
<1>3. \A r \in batch[t] : Message(t, r) # Earlier
  BY <1>1, SnapshotAssumption DEF SnapshotAssumption, TypeOK, Message
<1>4. Earlier \in written' <=> Earlier \in written
  BY <1>3 DEF Sending, QueueMessage, RetryQueues, RetryDelivered, RetryFails, ProduceMessage,
              WriteBatch, SendFails, BatchSent, output
<1>5. TasksAfterSink' /\ EarlierKept' /\ SuccessVerified'
  BY <1>2, <1>4, RunUntouched
<1>6. RowsFlow' /\ RowsCounted'
  <2>1. CASE QueueMessage(t) \/ RetryQueues(t) \/ ProduceMessage(t)
    <3>1. CASE UNCHANGED <<batch, buffer, written, undelivered>>
      BY <1>2, <3>1, FlowUntouched
    <3>2. CASE ~UNCHANGED <<batch, buffer, written, undelivered>>
      <4>1. PICK r \in batch[t] :
              /\ Sent(t, {r})
              /\ buffer' \cup written' \cup undelivered'
                   = (buffer \cup written \cup undelivered) \cup {Message(t, r)}
        BY <2>1, <3>2 DEF QueueMessage, RetryQueues, ProduceMessage
      <4>2. {Message(t, r)} = {Message(t, x) : x \in {r}}
        OBVIOUS
      <4> QED
        BY <1>2, <4>1, <4>2, BatchFlows DEF Sent
    <3> QED
      BY <3>1, <3>2
  <2>2. CASE WriteBatch(t)
    <3>1. /\ Sent(t, batch[t])
          /\ buffer' \cup written' \cup undelivered'
               = (buffer \cup written \cup undelivered) \cup {Message(t, r) : r \in batch[t]}
      BY <2>2 DEF WriteBatch
    <3> QED
      BY <1>2, <3>1, BatchFlows DEF Sent
  <2>3. CASE SendFails(t)
    <3>1. CASE UNCHANGED written
      BY <1>2, <2>3, <3>1, FlowUntouched DEF SendFails
    <3>2. CASE ~UNCHANGED written
      <4>1. PICK r \in batch[t] : written' = written \cup {Message(t, r)}
        BY <2>3, <3>2 DEF SendFails
      <4>2. UNCHANGED <<batch, buffer, undelivered>>
        BY <2>3 DEF SendFails
      <4>3. batch' = [batch EXCEPT ![t] = @ \ {}]
        BY <1>1, <4>2 DEF TypeOK
      <4>4. /\ {r} \in SUBSET batch[t] /\ {} \in SUBSET {r}
            /\ buffer' \cup written' \cup undelivered'
                 = (buffer \cup written \cup undelivered) \cup {Message(t, x) : x \in {r}}
        BY <4>1, <4>2
      <4> QED
        BY <1>2, <4>3, <4>4, BatchFlows
    <3> QED
      BY <3>1, <3>2
  <2>4. CASE RetryDelivered(t) \/ RetryFails(t) \/ BatchSent(t)
    BY <1>2, <2>4, FlowUntouched DEF RetryDelivered, RetryFails, BatchSent, output
  <2> QED
    BY <2>1, <2>2, <2>3, <2>4 DEF Sending
<1>7. NothingYet' /\ FinishedSentAll'
  <2>1. \A u \in Tables \ {t} : batch'[u] = batch[u]
    BY <1>1 DEF Sending, QueueMessage, RetryQueues, RetryDelivered, RetryFails, ProduceMessage,
                WriteBatch, SendFails, BatchSent, output, Sent, TypeOK
  <2>2. selected' = selected /\ unread' = unread /\ actual' = actual
    BY <1>2 DEF query
  <2>3. CASE UNCHANGED task
    BY <1>2, <2>1, <2>2, <2>3 DEF ExportInv, NothingYet, FinishedSentAll
  <2>4. CASE \E s \in {"sending", "retrying", "fetching", "failed"} : Becomes(t, s)
    BY <1>2, <2>1, <2>2, <2>4, TaskMoves DEF Running
  <2> QED
    BY <2>3, <2>4 DEF Sending, QueueMessage, RetryQueues, RetryDelivered, RetryFails, ProduceMessage,
                      WriteBatch, SendFails, BatchSent, Ends
<1> QED
  BY <1>1, <1>5, <1>6, <1>7 DEF ExportInv

(* Before the tasks there is no row; the file is emptied unless it is appended to. *)
LEMMA StartingExport == ASSUME ExportInv, Starting PROVE ExportInv'
<1>1. TypeOK' /\ TypeOK
  BY StartingType DEF ExportInv
<1>2. /\ main \in {"starting", "connecting", "building", "discovering"}
      /\ UNCHANGED <<source, sink, permits, joined, task, query, batch, awaited, buffer,
                     undelivered>>
      /\ written' \subseteq written
  BY DEF Starting, ReadConfig, ConnectSource, BuildRdKafkaSink, BuildRsKafkaSink, BuildFileSink,
         BuildConsoleSink, DiscoverTables, StartStep, Opened
<1>3. \A t \in Tables : /\ task[t] = "waiting" /\ task'[t] = "waiting"
                        /\ selected[t] = {} /\ unread[t] = {} /\ batch[t] = {}
  BY <1>2 DEF ExportInv, TasksAfterSink, NothingYet
<1>4. RowsFlow'
  <2>1. \A t \in Tables : RowsOut(t)' = {}
    BY <1>2, <1>3 DEF ExportInv, RowsFlow, RowsOut, Message
  <2> QED
    BY <1>2, <1>3, <2>1 DEF RowsFlow, query
<1>5. RowsCounted' /\ NothingYet' /\ FinishedSentAll' /\ TasksAfterSink'
  BY <1>2, <1>3 DEF ExportInv, RowsCounted, NothingYet, FinishedSentAll, TasksAfterSink, query
<1>6. EarlierKept'
  BY <1>2 DEF ExportInv, EarlierKept, Starting, ReadConfig, ConnectSource, BuildRdKafkaSink,
              BuildRsKafkaSink, BuildFileSink, BuildConsoleSink, DiscoverTables, StartStep,
              Opened, FileSinks
<1>7. SuccessVerified'
  <2> SUFFICES ASSUME main' = "ok" PROVE Tables = {}
    BY <1>1, <1>2 DEF SuccessVerified, TypeOK
  <2> QED
    BY DEF Starting, ReadConfig, ConnectSource, BuildRdKafkaSink, BuildRsKafkaSink, BuildFileSink,
           BuildConsoleSink, DiscoverTables, StartStep
<1> QED
  BY <1>1, <1>4, <1>5, <1>6, <1>7 DEF ExportInv

(* Tasks are started and joined; the verdict and the flush end a good run. *)
LEMMA RunExport ==
  ASSUME ExportInv,
         \/ Spawn \/ StartJoining \/ FlushAndVerify
         \/ \E t \in Tables : JoinFinished(t) \/ JoinFailed(t)
  PROVE  ExportInv'
<1>1. TypeOK' /\ TypeOK
  BY SpawnType, JoiningType, JoinFailedType DEF ExportInv
<1>2. /\ main \in {"spawning", "joining"} /\ main' \in {"spawning", "joining", "ok", "error"}
      /\ UNCHANGED <<sink, query, batch, undelivered>>
      /\ buffer' \cup written' = buffer \cup written
  BY DEF Spawn, StartJoining, FlushAndVerify, Verdict, JoinFinished, JoinFailed, output
<1>3. RowsFlow' /\ RowsCounted'
  BY <1>2, FlowUntouched
<1>4. Earlier \notin buffer
  BY <1>1, SnapshotAssumption DEF SnapshotAssumption, TypeOK, Messages
<1>5. Earlier \in written' <=> Earlier \in written
  BY <1>4 DEF Spawn, StartJoining, FlushAndVerify, JoinFinished, JoinFailed, output
<1>6. TasksAfterSink' /\ EarlierKept'
  BY <1>2, <1>5 DEF ExportInv, TasksAfterSink, EarlierKept
<1>7. NothingYet' /\ FinishedSentAll'
  <2>1. CASE Spawn
    <3>1. PICK t \in Waiting : Becomes(t, IF VerifyRowCount THEN "counting" ELSE "loading")
      BY <2>1 DEF Spawn
    <3>2. t \in Tables /\ task[t] = "waiting" /\ UNCHANGED joined
      BY <2>1, <3>1 DEF Waiting, Spawn
    <3>3. task'[t] \in {"counting", "loading"} /\ \A u \in Tables \ {t} : task'[u] = task[u]
      BY <1>1, <3>1, <3>2 DEF Becomes, TypeOK
    <3>4. NothingYet'
      BY <1>2, <3>2, <3>3 DEF ExportInv, NothingYet, query
    <3>5. FinishedSentAll'
      BY <1>1, <1>2, <3>2, <3>3 DEF ExportInv, FinishedSentAll, query, TypeOK
    <3> QED
      BY <3>4, <3>5
  <2>2. CASE StartJoining \/ FlushAndVerify \/ \E t \in Tables : JoinFinished(t)
    BY <1>2, <2>2 DEF StartJoining, FlushAndVerify, JoinFinished, ExportInv, NothingYet,
                      FinishedSentAll, query
  <2>3. CASE \E t \in Tables : JoinFailed(t)
    <3>1. /\ task' = [u \in Tables |-> IF task[u] \in Running THEN "aborted" ELSE task[u]]
          /\ UNCHANGED joined
      BY <2>3 DEF JoinFailed
    <3>2. \A u \in Tables : task'[u] = task[u] \/ (task[u] \in Running /\ task'[u] = "aborted")
      BY <3>1
    <3>3. NothingYet'
      BY <1>2, <3>2 DEF ExportInv, NothingYet, query
    <3>4. FinishedSentAll'
      BY <1>1, <1>2, <3>1, <3>2 DEF ExportInv, FinishedSentAll, query, TypeOK, Running
    <3> QED
      BY <3>3, <3>4
  <2> QED
    BY <2>1, <2>2, <2>3
<1>8. SuccessVerified'
  <2> SUFFICES ASSUME main' = "ok" PROVE SuccessVerified'
    BY DEF SuccessVerified
  <2>1. FlushAndVerify
    BY <1>2 DEF Spawn, StartJoining, JoinFinished, JoinFailed
  <2>2. joined' = Tables /\ buffer' = {} /\ Verdict = "ok"
    BY <2>1 DEF FlushAndVerify, AllJoined
  <2>3. FailOnMismatch => \A t \in Tables : ~Mismatch(t)
    BY <2>2 DEF Verdict
  <2>4. \A t \in Tables : Mismatch(t)' <=> Mismatch(t)
    BY <1>2 DEF Mismatch, query
  <2> QED
    BY <2>2, <2>3, <2>4 DEF SuccessVerified
<1> QED
  BY <1>1, <1>3, <1>6, <1>7, <1>8 DEF ExportInv

(* Clients and librdkafka's thread take nothing from an export under way. *)
LEMMA OutsideExport ==
  ASSUME ExportInv, main \in {"spawning", "joining"},
         (\E t \in Tables : ChangeTable(t)) \/ (\E m \in buffer : DeliverMessage(m))
  PROVE  ExportInv'
<1>1. TypeOK' /\ TypeOK
  BY OutsideType DEF ExportInv
<1>2. UNCHANGED <<sink, main, joined, task, query, batch>>
  BY DEF ChangeTable, DeliverMessage, control, output
<1>3. buffer' \cup written' \cup undelivered' = buffer \cup written \cup undelivered
  BY DEF ChangeTable, DeliverMessage, output
<1>4. Earlier \notin buffer
  BY <1>1, SnapshotAssumption DEF SnapshotAssumption, TypeOK, Messages
<1>5. Earlier \in written' <=> Earlier \in written
  BY <1>4 DEF ChangeTable, DeliverMessage, output
<1>6. RowsFlow' /\ RowsCounted'
  BY <1>2, <1>3, FlowUntouched
<1>7. TasksAfterSink' /\ EarlierKept' /\ SuccessVerified'
  BY <1>2, <1>5, RunUntouched
<1>8. NothingYet' /\ FinishedSentAll'
  BY <1>2 DEF ExportInv, NothingYet, FinishedSentAll, query
<1> QED
  BY <1>1, <1>6, <1>7, <1>8 DEF ExportInv

(* Every step keeps the flow of the rows. *)
LEMMA ExportInductive == ExportInv /\ [Next]_vars => ExportInv'
<1> SUFFICES ASSUME ExportInv, [Next]_vars PROVE ExportInv'
  OBVIOUS
<1>1. CASE UNCHANGED vars
  <2>1. TypeOK'
    BY TypeInductive DEF ExportInv
  <2>2. RowsFlow' /\ RowsCounted'
    BY <1>1, FlowUntouched DEF vars, query, output
  <2>3. UNCHANGED <<sink, main, joined, task, buffer, written, batch, query>>
    BY <1>1 DEF vars, control, output
  <2>4. \A t \in Tables : Mismatch(t)' <=> Mismatch(t)
    BY <2>3 DEF Mismatch, query
  <2>5. NothingYet' /\ FinishedSentAll' /\ TasksAfterSink' /\ EarlierKept' /\ SuccessVerified'
    BY <2>3, <2>4 DEF ExportInv, NothingYet, FinishedSentAll, TasksAfterSink, EarlierKept,
                      SuccessVerified, query
  <2> QED
    BY <2>1, <2>2, <2>5 DEF ExportInv
<1>2. CASE \E t \in Tables : ChangeTable(t)
  BY <1>2, OutsideExport DEF ChangeTable
<1>3. CASE main \in {"spawning", "joining"} /\ \E t \in Tables : Fetching(t) \/ Sending(t)
  BY <1>3, FetchingExport, SendingExport
<1>4. CASE main \in {"spawning", "joining"} /\ \E m \in buffer : DeliverMessage(m)
  BY <1>4, OutsideExport
<1>5. CASE Run
  BY <1>5, StartingExport, RunExport DEF Run, Starting
<1> QED
  BY <1>1, <1>2, <1>3, <1>4, <1>5 DEF Next, Exited

(* A run that ends with success has exported every matched table: no partial
   batch, failed task or buffered write is passed over, whatever the sink, the
   number of tasks, the sizes of batches and queue, the failures and the clients'
   changes; with verification the counts agree; an earlier export is still in the
   file if and only if the new one is appended to it. *)
THEOREM SuccessMeansExported == Spec => []OkMeansExported
<1>1. Init => ExportInv
  BY ExportInit
<1>2. ExportInv /\ [Next]_vars => ExportInv'
  BY ExportInductive
<1>3. ExportInv => OkMeansExported
  BY ExportSafe
<1> QED
  BY <1>1, <1>2, <1>3, PTL DEF Spec

-----------------------------------------------------------------------------
(* Each step of the export is one of TableExport, or nothing to it. *)

(* A row is in one place at a time, as long as its task goes on with it; a
   message is queued, written or given up. *)
NoneTwice ==
  /\ \A t \in Tables : task[t] \in Running =>
       /\ unread[t] \cap (batch[t] \cup RowsOut(t)) = {}
       /\ batch[t] \cap RowsOut(t) = {}
  /\ buffer \cap (written \cup undelivered) = {}
  /\ written \cap undelivered = {}

OnceInv == ExportInv /\ NoneTwice

(* Tables that have not begun have no row anywhere. *)
LEMMA NotBegun ==
  ASSUME ExportInv, NEW t \in Tables, task[t] \in {"waiting", "counting", "loading"}
  PROVE  selected[t] = {} /\ unread[t] = {} /\ batch[t] = {} /\ RowsOut(t) = {}
BY DEF ExportInv, NothingYet, RowsFlow

(* Where no row moves, none is in a second place. *)
LEMMA TwiceUntouched ==
  ASSUME OnceInv, UNCHANGED <<unread, batch, buffer, written, undelivered>>,
         \A t \in Tables : task'[t] \in Running => task[t] \in Running \cup {"waiting"}
  PROVE  NoneTwice'
<1>1. \A t \in Tables : RowsOut(t)' = RowsOut(t)
  BY DEF RowsOut, Message
<1>2. ASSUME NEW t \in Tables, task'[t] \in Running
      PROVE  /\ unread[t] \cap (batch[t] \cup RowsOut(t)) = {}
             /\ batch[t] \cap RowsOut(t) = {}
  <2>1. CASE task[t] \in Running
    BY <2>1 DEF OnceInv, NoneTwice
  <2>2. CASE task[t] = "waiting"
    BY <2>2, NotBegun DEF OnceInv
  <2> QED
    BY <1>2, <2>1, <2>2
<1> QED
  BY <1>1, <1>2 DEF OnceInv, NoneTwice

(* Rows that leave a batch were no messages before; a row that stays in the batch
   although it was written stays there for good. *)
LEMMA LeavesBatch ==
  ASSUME OnceInv, NEW t \in Tables, task[t] \in Running, NEW R \in SUBSET batch[t],
         UNCHANGED <<unread, undelivered>>,
         \A u \in Tables \ {t} : task'[u] = task[u],
         batch' = [batch EXCEPT ![t] = @ \ R] \/ (batch' = batch /\ task'[t] \notin Running),
         \/ buffer' = buffer \cup {Message(t, r) : r \in R} /\ UNCHANGED written
         \/ written' = written \cup {Message(t, r) : r \in R} /\ UNCHANGED buffer
  PROVE  NoneTwice'
<1> DEFINE M == {Message(t, r) : r \in R}
<1>1. batch[t] \in SUBSET Rows /\ batch \in [Tables -> SUBSET Rows]
  BY DEF OnceInv, ExportInv, TypeOK
<1>2. \A m \in M : m \notin buffer \cup written \cup undelivered
  BY <1>1 DEF OnceInv, NoneTwice, RowsOut
<1>3. buffer' \cap (written' \cup undelivered') = {} /\ written' \cap undelivered' = {}
  BY <1>2 DEF OnceInv, NoneTwice
<1>4. RowsOut(t)' = RowsOut(t) \cup R
  BY <1>1 DEF RowsOut, Message
<1>5. ASSUME NEW u \in Tables, task'[u] \in Running
      PROVE  (/\ unread[u] \cap (batch[u] \cup RowsOut(u)) = {}
              /\ batch[u] \cap RowsOut(u) = {})'
  <2>1. CASE u = t
    <3>1. batch'[t] = batch[t] \ R
      BY <1>1, <1>5, <2>1
    <3> QED
      BY <1>4, <2>1, <3>1 DEF OnceInv, NoneTwice
  <2>2. CASE u # t
    <3>1. RowsOut(u)' = RowsOut(u) /\ batch'[u] = batch[u]
      BY <1>1, <2>2 DEF RowsOut, Message
    <3> QED
      BY <1>5, <2>2, <3>1 DEF OnceInv, NoneTwice
  <2> QED
    BY <2>1, <2>2
<1> QED
  BY <1>3, <1>5 DEF NoneTwice

(* Fetching takes a row from the SELECT to the batch. *)
LEMMA FetchingOnce == ASSUME OnceInv, NEW t \in Tables, Fetching(t) PROVE NoneTwice'
<1>1. TypeOK
  BY DEF OnceInv, ExportInv
<1>2. task[t] \in Running /\ UNCHANGED <<buffer, written, undelivered>>
      /\ \A u \in Tables \ {t} : task'[u] = task[u]
  BY <1>1 DEF Fetching, CountRows, OpenSelect, FetchRow, EndOfRows, QueryFails, Ends, Becomes,
              Running, output, TypeOK
<1>3. CASE UNCHANGED <<unread, batch>>
  BY <1>2, <1>3, TwiceUntouched
<1>4. \A u \in Tables : RowsOut(u)' = RowsOut(u)
  BY <1>2 DEF RowsOut, Message
<1>5. CASE OpenSelect(t)
  <2>1. batch' = batch /\ task[t] = "loading"
    BY <1>5 DEF OpenSelect, output
  <2>2. \A u \in Tables \ {t} : unread'[u] = unread[u]
    BY <1>1, <1>5 DEF OpenSelect, TypeOK
  <2>3. batch[t] = {} /\ RowsOut(t) = {}
    BY <2>1, NotBegun DEF OnceInv
  <2> QED
    BY <1>2, <1>4, <2>1, <2>2, <2>3 DEF OnceInv, NoneTwice
<1>6. CASE FetchRow(t)
  <2>1. PICK r \in unread[t] : /\ unread' = [unread EXCEPT ![t] = @ \ {r}]
                               /\ batch' = [batch EXCEPT ![t] = @ \cup {r}]
    BY <1>6 DEF FetchRow
  <2>2. /\ unread'[t] = unread[t] \ {r} /\ batch'[t] = batch[t] \cup {r}
        /\ \A u \in Tables \ {t} : unread'[u] = unread[u] /\ batch'[u] = batch[u]
    BY <1>1, <2>1 DEF TypeOK
  <2> QED
    BY <1>2, <1>4, <2>2 DEF OnceInv, NoneTwice
<1> QED
  BY <1>3, <1>5, <1>6 DEF Fetching, CountRows, EndOfRows, QueryFails, output, query

(* Sending takes rows from the batch to the output. *)
LEMMA SendingOnce == ASSUME OnceInv, NEW t \in Tables, Sending(t) PROVE NoneTwice'
<1>1. TypeOK
  BY DEF OnceInv, ExportInv
<1>2. /\ task[t] \in Running /\ UNCHANGED <<unread, undelivered>>
      /\ \A u \in Tables \ {t} : task'[u] = task[u]
  BY <1>1 DEF Sending, QueueMessage, RetryQueues, RetryDelivered, RetryFails, ProduceMessage,
              WriteBatch, SendFails, BatchSent, Ends, Becomes, Running, output, query, TypeOK
<1>3. CASE UNCHANGED <<batch, buffer, written>>
  BY <1>2, <1>3, TwiceUntouched
<1>4. CASE \E r \in batch[t] :
             /\ Sent(t, {r})
             /\ \/ buffer' = buffer \cup {Message(t, r)} /\ UNCHANGED written
                \/ written' = written \cup {Message(t, r)} /\ UNCHANGED buffer
  <2>1. PICK r \in batch[t] :
          /\ Sent(t, {r})
          /\ \/ buffer' = buffer \cup {Message(t, r)} /\ UNCHANGED written
             \/ written' = written \cup {Message(t, r)} /\ UNCHANGED buffer
    BY <1>4
  <2>2. {Message(t, r)} = {Message(t, x) : x \in {r}} /\ {r} \in SUBSET batch[t]
    OBVIOUS
  <2> QED
    BY <1>2, <2>1, <2>2, LeavesBatch DEF Sent
<1>5. CASE WriteBatch(t)
  <2>1. /\ batch' = [batch EXCEPT ![t] = @ \ batch[t]]
        /\ buffer' = buffer \cup {Message(t, r) : r \in batch[t]} /\ UNCHANGED written
    BY <1>5 DEF WriteBatch, Sent
  <2> QED
    BY <1>2, <2>1, LeavesBatch
<1>6. CASE SendFails(t) /\ ~UNCHANGED written
  <2>1. PICK r \in batch[t] : written' = written \cup {Message(t, r)}
    BY <1>6 DEF SendFails
  <2>2. {Message(t, r)} = {Message(t, x) : x \in {r}} /\ {r} \in SUBSET batch[t]
    OBVIOUS
  <2>3. batch' = batch /\ UNCHANGED buffer /\ task'[t] \notin Running
    BY <1>1, <1>6 DEF SendFails, Ends, Becomes, Running, TypeOK
  <2> QED
    BY <1>2, <2>1, <2>2, <2>3, LeavesBatch
<1> QED
  BY <1>3, <1>4, <1>5, <1>6 DEF Sending, QueueMessage, RetryQueues, RetryDelivered, RetryFails,
     ProduceMessage, SendFails, BatchSent, output

(* The steps of run(), of librdkafka and of the clients. *)
LEMMA RunOnce ==
  ASSUME OnceInv,
         Run \/ (\E m \in buffer : DeliverMessage(m)) \/ (\E t \in Tables : ChangeTable(t))
             \/ UNCHANGED vars
  PROVE  NoneTwice'
<1>1. TypeOK /\ ExportInv
  BY DEF OnceInv, ExportInv
<1>2. UNCHANGED <<unread, batch>>
  BY DEF Run, ReadConfig, ConnectSource, BuildRdKafkaSink, BuildRsKafkaSink, BuildFileSink,
         BuildConsoleSink, DiscoverTables, StartStep, Spawn, StartJoining, JoinFinished, JoinFailed,
         FlushAndVerify, DeliverMessage, ChangeTable, vars, query, output
<1>3. \A t \in Tables : task'[t] \in Running => task[t] \in Running \cup {"waiting"}
  BY <1>1 DEF Run, ReadConfig, ConnectSource, BuildRdKafkaSink, BuildRsKafkaSink, BuildFileSink,
     BuildConsoleSink, DiscoverTables, StartStep, Spawn, Becomes, Waiting, StartJoining,
     JoinFinished, JoinFailed, FlushAndVerify, DeliverMessage, ChangeTable, vars, Running, TypeOK
<1>4. CASE UNCHANGED <<buffer, written, undelivered>>
  BY <1>2, <1>3, <1>4, TwiceUntouched
<1>5. CASE BuildFileSink
  <2>1. /\ main = "building" /\ UNCHANGED <<buffer, undelivered, task>> /\ written' \subseteq written
    BY <1>5 DEF BuildFileSink, StartStep, Opened
  <2>2. \A t \in Tables : unread[t] = {} /\ batch[t] = {}
    BY <1>1, <2>1 DEF ExportInv, TasksAfterSink, NothingYet
  <2> QED
    BY <1>2, <2>1, <2>2 DEF OnceInv, NoneTwice
<1>6. CASE \/ \E m \in buffer : DeliverMessage(m)
           \/ FlushAndVerify
  <2>1. /\ buffer' \cup written' \cup undelivered' = buffer \cup written \cup undelivered
        /\ task' = task
    BY <1>6 DEF DeliverMessage, FlushAndVerify
  <2>2. \A t \in Tables : RowsOut(t)' = RowsOut(t)
    BY <2>1 DEF RowsOut, Message
  <2>3. buffer' \cap (written' \cup undelivered') = {} /\ written' \cap undelivered' = {}
    BY <1>6 DEF DeliverMessage, FlushAndVerify, OnceInv, NoneTwice
  <2> QED
    BY <1>2, <2>1, <2>2, <2>3 DEF OnceInv, NoneTwice
<1> QED
  BY <1>4, <1>5, <1>6 DEF Run, ReadConfig, ConnectSource, BuildRdKafkaSink, BuildRsKafkaSink,
     BuildConsoleSink, DiscoverTables, StartStep, Spawn, StartJoining, JoinFinished, JoinFailed,
     ChangeTable, vars, output

(* No row is ever in a second place. *)
LEMMA OnceInductive == OnceInv /\ [Next]_vars => OnceInv'
<1> SUFFICES ASSUME OnceInv, [Next]_vars PROVE OnceInv'
  OBVIOUS
<1>1. ExportInv'
  BY ExportInductive DEF OnceInv
<1>2. NoneTwice'
  BY FetchingOnce, SendingOnce, RunOnce DEF Next, Exited
<1> QED
  BY <1>1, <1>2 DEF OnceInv

(* In the initial state no row is exported or lost. *)
LEMMA PromiseInit == Init => Promise!Init /\ NoneTwice
<1> SUFFICES ASSUME Init PROVE Promise!Init /\ NoneTwice
  OBVIOUS
<1>1. \A t \in Tables, r \in Rows : Message(t, r) \notin written
  BY SnapshotAssumption DEF SnapshotAssumption, Init, Message
<1>2. \A t \in Tables : RowsWritten(t) = {} /\ GivenUp(t) = {}
  BY <1>1 DEF Init, RowsWritten, GivenUp
<1>3. Promise!Init
  BY <1>2 DEF Init, Promise!Init
<1>4. NoneTwice
  BY DEF Init, NoneTwice
<1> QED
  BY <1>3, <1>4

Result == IF main \in {"ok", "error"} THEN main ELSE "none"

(* Steps that are nothing to the promise: no row gets to its place. *)
LEMMA Stutters ==
  ASSUME UNCHANGED <<selected, undelivered>>, Result' = Result,
         \A t \in Tables, r \in Rows : Message(t, r) \in written' <=> Message(t, r) \in written
  PROVE  UNCHANGED Promise!vars
<1>1. \A t \in Tables : RowsWritten(t)' = RowsWritten(t) /\ GivenUp(t)' = GivenUp(t)
  BY DEF RowsWritten, GivenUp, Message
<1> QED
  BY <1>1 DEF Promise!vars, Result

(* A message that gets to the output is a row exported, or was there. *)
LEMMA ExportRefines ==
  ASSUME OnceInv, NEW t \in Tables, NEW r \in selected[t],
         Message(t, r) \notin written \cup undelivered,
         written' = written \cup {Message(t, r)},
         UNCHANGED <<selected, undelivered>>, Result = "none", Result' = Result
  PROVE  Promise!Export(t)
<1>1. r \in Rows
  BY DEF OnceInv, ExportInv, TypeOK
<1>2. RowsWritten(t)' = RowsWritten(t) \cup {r} /\ r \notin RowsWritten(t) /\ r \notin GivenUp(t)
  BY <1>1 DEF RowsWritten, GivenUp, Message
<1>3. \A u \in Tables \ {t} : RowsWritten(u)' = RowsWritten(u)
  BY DEF RowsWritten, Message
<1>4. \A u \in Tables : GivenUp(u)' = GivenUp(u)
  BY DEF GivenUp, Message
<1>5. [u \in Tables |-> RowsWritten(u)'] =
        [[u \in Tables |-> RowsWritten(u)] EXCEPT ![t] = @ \cup {r}]
  BY <1>2, <1>3
<1>6. r \in Promise!Pending(t)
  BY <1>2 DEF Promise!Pending
<1> QED
  BY <1>4, <1>5, <1>6 DEF Promise!Export, Result

(* So is a message that librdkafka gives up on a row lost. *)
LEMMA LoseRefines ==
  ASSUME OnceInv, NEW t \in Tables, NEW r \in selected[t],
         Message(t, r) \notin written \cup undelivered,
         undelivered' = undelivered \cup {Message(t, r)},
         UNCHANGED <<selected, written>>, Result = "none", Result' = Result
  PROVE  Promise!Lose(t)
<1>1. r \in Rows
  BY DEF OnceInv, ExportInv, TypeOK
<1>2. GivenUp(t)' = GivenUp(t) \cup {r} /\ r \notin RowsWritten(t) /\ r \notin GivenUp(t)
  BY <1>1 DEF RowsWritten, GivenUp, Message
<1>3. \A u \in Tables \ {t} : GivenUp(u)' = GivenUp(u)
  BY DEF GivenUp, Message
<1>4. \A u \in Tables : RowsWritten(u)' = RowsWritten(u)
  BY DEF RowsWritten, Message
<1>5. [u \in Tables |-> GivenUp(u)'] =
        [[u \in Tables |-> GivenUp(u)] EXCEPT ![t] = @ \cup {r}]
  BY <1>2, <1>3
<1>6. r \in Promise!Pending(t)
  BY <1>2 DEF Promise!Pending
<1> QED
  BY <1>4, <1>5, <1>6 DEF Promise!Lose, Result

(* The start of a SELECT is the reading of a table. *)
LEMMA ReadRefines ==
  ASSUME OnceInv, main \in {"spawning", "joining"}, NEW t \in Tables, OpenSelect(t)
  PROVE  Promise!Read(t)
<1>1. /\ selected' = [selected EXCEPT ![t] = content[t]] /\ content[t] \in SUBSET Rows
      /\ selected[t] = {}
  BY NotBegun DEF OpenSelect, OnceInv, ExportInv, TypeOK
<1>2. UNCHANGED <<main, written, undelivered>>
  BY DEF OpenSelect, control, output
<1>3. \A u \in Tables : RowsWritten(u)' = RowsWritten(u) /\ GivenUp(u)' = GivenUp(u)
  BY <1>2 DEF RowsWritten, GivenUp, Message
<1> QED
  BY <1>1, <1>2, <1>3 DEF Promise!Read

(* The end of run(), on whatever way, exports what was buffered if anything. *)
LEMMA EndRefines ==
  ASSUME OnceInv, Result = "none", Result' \in {"ok", "error"},
         UNCHANGED <<selected, undelivered>>,
         NEW B \in SUBSET buffer,
         \A t \in Tables, r \in Rows :
           Message(t, r) \in written' <=> Message(t, r) \in written \cup B,
         Result' = "ok" =>
           B = buffer /\ \A t \in Tables : unread[t] = {} /\ batch[t] = {}
  PROVE  Promise!End
<1> DEFINE rest == [t \in Tables |-> {r \in Rows : Message(t, r) \in B}]
<1>1. rest \in [Tables -> SUBSET Rows]
  OBVIOUS
<1>2. ASSUME NEW t \in Tables PROVE rest[t] \subseteq Promise!Pending(t)
  <2>1. rest[t] \subseteq selected[t]
    BY DEF OnceInv, ExportInv, RowsFlow, RowsOut
  <2>2. rest[t] \cap (RowsWritten(t) \cup GivenUp(t)) = {}
    BY DEF OnceInv, NoneTwice, RowsWritten, GivenUp
  <2> QED
    BY <2>1, <2>2 DEF Promise!Pending
<1>3. \A t \in Tables : RowsWritten(t)' = RowsWritten(t) \cup rest[t] /\ GivenUp(t)' = GivenUp(t)
  BY DEF RowsWritten, GivenUp, Message
<1>4. ASSUME Result' = "ok", NEW t \in Tables PROVE rest[t] = Promise!Pending(t)
  <2>1. selected[t] = RowsOut(t)
    BY <1>4 DEF OnceInv, ExportInv, RowsFlow
  <2>2. Promise!Pending(t) \subseteq rest[t]
    BY <1>4, <2>1 DEF Promise!Pending, RowsOut, RowsWritten, GivenUp
  <2> QED
    BY <1>2, <2>2
<1>5. [t \in Tables |-> RowsWritten(t)'] =
        [t \in Tables |-> [u \in Tables |-> RowsWritten(u)][t] \cup rest[t]]
  BY <1>3
<1>6. [t \in Tables |-> GivenUp(t)'] = [t \in Tables |-> GivenUp(t)]
  BY <1>3
<1> HIDE DEF rest
<1> QED
  BY <1>1, <1>2, <1>4, <1>5, <1>6 DEF Promise!End, Result

(* A table's task: the start of its SELECT, or a row sent to rskafka or the
   console, is a step of the promise. *)
LEMMA TaskRefines ==
  ASSUME OnceInv, main \in {"spawning", "joining"}, NEW t \in Tables, Fetching(t) \/ Sending(t)
  PROVE  Promise!Next \/ UNCHANGED Promise!vars
<1>1. UNCHANGED <<main, undelivered>> /\ Result = "none" /\ Result' = Result
  BY DEF Fetching, CountRows, OpenSelect, FetchRow, EndOfRows, QueryFails, Sending, QueueMessage,
         RetryQueues, RetryDelivered, RetryFails, ProduceMessage, WriteBatch, SendFails, BatchSent,
         Ends, control, output, Result
<1>2. CASE OpenSelect(t)
  BY <1>2, ReadRefines DEF Promise!Next
<1>3. CASE UNCHANGED <<selected, written>>
  BY <1>1, <1>3, Stutters
<1>4. CASE ProduceMessage(t) \/ (SendFails(t) /\ ~UNCHANGED written)
  <2>1. PICK r \in batch[t] : written' = written \cup {Message(t, r)}
    BY <1>4 DEF ProduceMessage, SendFails
  <2>2. UNCHANGED selected /\ task[t] \in Running
    BY <1>4 DEF ProduceMessage, SendFails, query, Running
  <2>3. r \in Rows /\ r \in selected[t] /\ r \notin RowsOut(t)
    BY <2>2 DEF OnceInv, NoneTwice, ExportInv, RowsFlow, TypeOK
  <2>4. Message(t, r) \notin written \cup undelivered
    BY <2>3 DEF RowsOut
  <2> QED
    BY <1>1, <2>1, <2>2, <2>3, <2>4, ExportRefines DEF Promise!Next
<1> QED
  BY <1>2, <1>3, <1>4
     DEF Fetching, CountRows, FetchRow, EndOfRows, QueryFails, Sending, QueueMessage, RetryQueues,
         RetryDelivered, RetryFails, WriteBatch, SendFails, BatchSent, query, output

(* librdkafka's thread exports a row, or loses it. *)
LEMMA DeliverRefines ==
  ASSUME OnceInv, main \in {"spawning", "joining"}, NEW m \in buffer, DeliverMessage(m)
  PROVE  Promise!Next \/ UNCHANGED Promise!vars
<1>1. PICK t \in Tables, r \in Rows : m = Message(t, r)
  BY DEF OnceInv, ExportInv, TypeOK, Messages, Message
<1>2. r \in selected[t] /\ m \notin written \cup undelivered
  BY <1>1 DEF OnceInv, NoneTwice, ExportInv, RowsFlow, RowsOut
<1>3. UNCHANGED selected /\ Result = "none" /\ Result' = Result
  BY DEF DeliverMessage, control, query, Result
<1>4. \/ written' = written \cup {m} /\ UNCHANGED undelivered
      \/ undelivered' = undelivered \cup {m} /\ UNCHANGED written
  BY DEF DeliverMessage
<1> QED
  BY <1>1, <1>2, <1>3, <1>4, ExportRefines, LoseRefines DEF Promise!Next

(* run(): the end of the promise is its return. *)
LEMMA RunRefines == ASSUME OnceInv, Run PROVE Promise!Next \/ UNCHANGED Promise!vars
<1>1. Result = "none" /\ UNCHANGED <<selected, undelivered>> /\ Result' \in {"none", "ok", "error"}
  BY DEF Run, ReadConfig, ConnectSource, BuildRdKafkaSink, BuildRsKafkaSink, BuildFileSink,
         BuildConsoleSink, DiscoverTables, StartStep, Spawn, StartJoining, JoinFinished, JoinFailed,
         FlushAndVerify, Verdict, query, output, Result
<1>2. CASE ~FlushAndVerify
  <2>1. \A t \in Tables, r \in Rows : Message(t, r) \in written' <=> Message(t, r) \in written
    <3>1. CASE UNCHANGED written
      BY <3>1 DEF Message
    <3>2. CASE BuildFileSink
      <4>1. main = "building" /\ written' \subseteq written
        BY <3>2 DEF BuildFileSink, StartStep, Opened
      <4>2. \A t \in Tables : RowsOut(t) = {}
        BY <4>1, NotBegun DEF OnceInv, ExportInv, TasksAfterSink
      <4> QED
        BY <4>1, <4>2 DEF RowsOut, Message
    <3> QED
      BY <1>2, <3>1, <3>2 DEF Run, ReadConfig, ConnectSource, BuildRdKafkaSink, BuildRsKafkaSink,
         BuildConsoleSink, DiscoverTables, Spawn, StartJoining, JoinFinished, JoinFailed, output
  <2>2. CASE Result' = "none"
    BY <1>1, <2>1, <2>2, Stutters
  <2>3. CASE Result' \in {"ok", "error"}
    <3>1. Result' = "ok" => Tables = {}
      BY <1>2 DEF Run, ReadConfig, ConnectSource, BuildRdKafkaSink, BuildRsKafkaSink, BuildFileSink,
         BuildConsoleSink, DiscoverTables, StartStep, Spawn, StartJoining, JoinFinished, JoinFailed,
         Result
    <3>2. Tables = {} => buffer = {}
      BY DEF OnceInv, ExportInv, TypeOK, Messages
    <3>3. Promise!End
      <4> DEFINE B == {}
      <4>1. \A t \in Tables, r \in Rows :
              Message(t, r) \in written' <=> Message(t, r) \in written \cup B
        BY <2>1
      <4>2. Result' = "ok" => B = buffer /\ \A t \in Tables : unread[t] = {} /\ batch[t] = {}
        BY <3>1, <3>2
      <4>3. B \in SUBSET buffer
        OBVIOUS
      <4> HIDE DEF B
      <4> QED
        BY <1>1, <2>3, <4>1, <4>2, <4>3, EndRefines
    <3> QED
      BY <3>3 DEF Promise!Next
  <2> QED
    BY <1>1, <2>2, <2>3
<1>3. CASE FlushAndVerify
  <2>1. Result' \in {"ok", "error"} /\ joined = Tables
    BY <1>3 DEF FlushAndVerify, AllJoined, Verdict, Result
  <2>2. \A t \in Tables : unread[t] = {} /\ batch[t] = {}
    BY <2>1 DEF OnceInv, ExportInv, FinishedSentAll
  <2>3. PICK B \in {buffer, {}} : written' = written \cup B /\ (Result' = "ok" => B = buffer)
    BY <1>3 DEF FlushAndVerify, Result
  <2>4. \A t \in Tables, r \in Rows :
          Message(t, r) \in written' <=> Message(t, r) \in written \cup B
    BY <2>3 DEF Message
  <2>5. Promise!End
    BY <1>1, <2>1, <2>2, <2>3, <2>4, EndRefines
  <2> QED
    BY <2>5 DEF Promise!Next
<1> QED
  BY <1>2, <1>3

(* The export keeps the promise of TableExport: each table is exported as its SELECT
   saw it, no row twice or after it was given up, and success means all of it; each
   step is a read, a row exported or lost, the end, or nothing to the promise. *)
THEOREM Refinement == Spec => ImplementsExport
<1>1. Init => Promise!Init /\ OnceInv
  BY PromiseInit, ExportInit DEF OnceInv
<1>2. OnceInv /\ [Next]_vars => OnceInv'
  BY OnceInductive
<1>3. OnceInv /\ [Next]_vars => [Promise!Next]_(Promise!vars)
  <2> SUFFICES ASSUME OnceInv, [Next]_vars
               PROVE  Promise!Next \/ UNCHANGED Promise!vars
    OBVIOUS
  <2>1. CASE UNCHANGED vars \/ \E t \in Tables : ChangeTable(t)
    <3>1. UNCHANGED <<selected, written, undelivered, main>>
      BY <2>1 DEF vars, ChangeTable, control, query, output
    <3> QED
      BY <3>1, Stutters DEF Result
  <2> QED
    BY <2>1, TaskRefines, DeliverRefines, RunRefines DEF Next, Exited
<1> QED
  BY <1>1, <1>2, <1>3, PTL DEF Spec, ImplementsExport, Promise!Spec

-----------------------------------------------------------------------------
(* Lists of tables. *)

(* The symbols that mean something in a regular expression. *)
Marks == {"^", "$", ".", "*", "+", "|", "[0-9]"}

(* All symbols of the list and of the tables' names. *)
Symbols ==
  Marks \cup {" ", ","} \cup Range(IncludeTables)
  \cup UNION {Range(NameOf[t].table) : t \in Range(Catalog)}

(* Texts in which each symbol stands for itself. *)
Literals == {text \in Seq(Symbols) : Range(text) \cap Marks = {}}

(* A text without the separator is in one piece. *)
LEMMA OnePiece ==
  ASSUME NEW text \in Seq(Symbols), NEW separator, separator \notin Range(text)
  PROVE  Split(text, separator) = {text}
<1> DEFINE n == Len(text)
           cuts == {i \in DOMAIN text : text[i] = separator} \cup {0, n + 1}
           End(i) == Min({j \in cuts : j > i})
<1>1. n \in Nat /\ DOMAIN text = 1 .. n
  OBVIOUS
<1>2. cuts = {0, n + 1}
  BY <1>1 DEF Range
<1> HIDE DEF cuts
<1>3. {j \in cuts : j > 0} = {n + 1}
  BY <1>1, <1>2
<1>4. Min({n + 1}) = n + 1
  BY <1>1 DEF Min
<1>5. End(0) = n + 1
  BY <1>3, <1>4
<1>6. SubSeq(text, 1, n) = text
  OBVIOUS
<1> HIDE DEF End
<1>7. {SubSeq(text, i + 1, End(i) - 1) : i \in cuts \ {n + 1}} = {SubSeq(text, 0 + 1, End(0) - 1)}
  BY <1>1, <1>2
<1>8. SubSeq(text, 0 + 1, End(0) - 1) = text
  BY <1>1, <1>5, <1>6
<1>9. Split(text, separator) = {SubSeq(text, i + 1, End(i) - 1) : i \in cuts \ {n + 1}}
  BY DEF Split, End, cuts
<1> QED BY <1>7, <1>8, <1>9

-----------------------------------------------------------------------------
(* Regular expressions. *)

(* From where to where a branch can be matched with a name. *)
Places(branch, name) == (1 .. Len(branch) + 1) \X (1 .. Len(name) + 1)

Distance(branch, name) ==
  [at \in Places(branch, name) |-> (Len(branch) + 1 - at[1]) + (Len(name) + 1 - at[2])]

(* An atom takes the name's next symbol, or an anchor nothing. *)
LEMMA AfterBounds ==
  ASSUME NEW atom, NEW name \in Seq(Symbols), NEW j \in 1 .. Len(name) + 1, NEW k \in After(atom, name, j)
  PROVE  k \in 1 .. Len(name) + 1 /\ (k = j \/ k = j + 1)
BY DEF After

LEMMA QuantifierCases ==
  ASSUME NEW branch \in Seq(Symbols), NEW i \in 1 .. Len(branch)
  PROVE  \/ Quantifier(branch, i) = "1"
         \/ Quantifier(branch, i) \in {"*", "+"} /\ i + 2 \in 1 .. Len(branch) + 1
BY DEF Quantifier

LEMMA MatchesCases ==
  ASSUME NEW branch \in Seq(Symbols), NEW name, NEW i \in 1 .. Len(branch) + 1, NEW j, NEW g
  PROVE  /\ i = Len(branch) + 1 => MatchesAt(branch, name, i, j, g) = TRUE
         /\ i <= Len(branch) /\ Quantifier(branch, i) = "1" =>
              MatchesAt(branch, name, i, j, g)
                = \E k \in After(branch[i], name, j) : g[<<i + 1, k>>]
         /\ i <= Len(branch) /\ Quantifier(branch, i) = "*" =>
              MatchesAt(branch, name, i, j, g)
                = (g[<<i + 2, j>>] \/ \E k \in After(branch[i], name, j) \ {j} : g[<<i, k>>])
         /\ i <= Len(branch) /\ Quantifier(branch, i) = "+" =>
              MatchesAt(branch, name, i, j, g)
                = \E k \in After(branch[i], name, j) : g[<<i + 2, k>>] \/ (k # j /\ g[<<i, k>>])
<1>1. CASE i = Len(branch) + 1
  <2>1. i > Len(branch) /\ ~(i <= Len(branch))
    BY <1>1
  <2>2. MatchesAt(branch, name, i, j, g) = TRUE
    BY <2>1, Zenon DEF MatchesAt
  <2> QED BY <2>1, <2>2
<1>2. CASE i <= Len(branch)
  <2>1. ~(i > Len(branch)) /\ i # Len(branch) + 1
    BY <1>2
  <2> QED BY <1>2, <2>1 DEF MatchesAt
<1> QED BY <1>1, <1>2

LEMMA MatchesSteps ==
  ASSUME NEW branch \in Seq(Symbols), NEW name \in Seq(Symbols),
         NEW i \in 1 .. Len(branch) + 1, NEW j \in 1 .. Len(name) + 1, NEW g
  PROVE  /\ MatchesAt(branch, name, i, j, g) \in BOOLEAN
         /\ \A h : (\A at \in Places(branch, name) :
                      Distance(branch, name)[at] < Distance(branch, name)[<<i, j>>] => g[at] = h[at])
                   => MatchesAt(branch, name, i, j, g) = MatchesAt(branch, name, i, j, h)
<1>1. /\ Len(branch) \in Nat /\ Len(name) \in Nat
      /\ \A a \in 1 .. Len(branch) + 1, b \in 1 .. Len(name) + 1 :
           /\ <<a, b>> \in Places(branch, name)
           /\ Distance(branch, name)[<<a, b>>] = (Len(branch) + 1 - a) + (Len(name) + 1 - b)
  BY DEF Places, Distance
<1> DEFINE closer(a, b) == a \in 1 .. Len(branch) + 1 /\ b \in 1 .. Len(name) + 1 /\ a + b > i + j
<1>2. ASSUME NEW a, NEW b, closer(a, b)
      PROVE  /\ <<a, b>> \in Places(branch, name)
             /\ Distance(branch, name)[<<a, b>>] < Distance(branch, name)[<<i, j>>]
  BY <1>1, <1>2
<1>a. \A k \in After(branch[i], name, j) : k \in 1 .. Len(name) + 1 /\ k >= j /\ (k # j => k > j)
  BY AfterBounds
<1>3. CASE i > Len(branch)
  <2>0. i = Len(branch) + 1
    BY <1>1, <1>3
  <2>1. ASSUME NEW h PROVE MatchesAt(branch, name, i, j, h) = TRUE
    BY <2>0, MatchesCases
  <2> QED BY <2>1
<1>4. CASE i <= Len(branch) /\ Quantifier(branch, i) = "1"
  <2>1. \A k \in After(branch[i], name, j) : closer(i + 1, k)
    BY <1>1, <1>4, <1>a
  <2>2. ASSUME NEW h PROVE MatchesAt(branch, name, i, j, h) = \E k \in After(branch[i], name, j) : h[<<i + 1, k>>]
    BY <1>4, MatchesCases
  <2> QED BY <1>2, <2>1, <2>2
<1>5. CASE i <= Len(branch) /\ Quantifier(branch, i) = "*"
  <2>1. closer(i + 2, j) /\ \A k \in After(branch[i], name, j) \ {j} : closer(i, k)
    BY <1>1, <1>5, <1>a, QuantifierCases
  <2>2. ASSUME NEW h PROVE MatchesAt(branch, name, i, j, h)
                 = (h[<<i + 2, j>>] \/ \E k \in After(branch[i], name, j) \ {j} : h[<<i, k>>])
    BY <1>5, MatchesCases
  <2> QED BY <1>2, <2>1, <2>2
<1>6. CASE i <= Len(branch) /\ Quantifier(branch, i) = "+"
  <2>1. \A k \in After(branch[i], name, j) : closer(i + 2, k) /\ (k # j => closer(i, k))
    BY <1>1, <1>6, <1>a, QuantifierCases
  <2>2. ASSUME NEW h PROVE MatchesAt(branch, name, i, j, h)
                 = \E k \in After(branch[i], name, j) : h[<<i + 2, k>>] \/ (k # j /\ h[<<i, k>>])
    <3>1. i <= Len(branch) /\ Quantifier(branch, i) = "+" /\ ~(i > Len(branch))
      BY <1>1, <1>6
    <3> QED BY <3>1 DEF MatchesAt
  <2> QED BY <1>2, <2>1, <2>2
<1> QED BY <1>1, <1>3, <1>4, <1>5, <1>6, QuantifierCases

LEMMA MatchesDefined ==
  ASSUME NEW branch \in Seq(Symbols), NEW name \in Seq(Symbols)
  PROVE  \A i \in 1 .. Len(branch) + 1, j \in 1 .. Len(name) + 1 :
           MatchesFrom(branch, name)[<<i, j>>]
             = MatchesAt(branch, name, i, j, MatchesFrom(branch, name))
<1> DEFINE D == Places(branch, name)
           V == BOOLEAN
           rank == Distance(branch, name)
           step == [g \in [D -> V] |-> [at \in D |-> MatchesAt(branch, name, at[1], at[2], g)]]
<1>1. \A at \in D : at[1] \in 1 .. Len(branch) + 1 /\ at[2] \in 1 .. Len(name) + 1 /\ at = <<at[1], at[2]>>
  BY DEF Places
<1>2. rank \in [D -> Nat]
  BY <1>1 DEF Distance
<1>3. step \in [[D -> V] -> [D -> V]]
  BY <1>1, MatchesSteps
<1>4. Falls(D, V, rank, step)
  <2> SUFFICES ASSUME NEW g \in [D -> V], NEW h \in [D -> V], NEW at \in D,
                      \A y \in D : rank[y] < rank[at] => g[y] = h[y]
               PROVE  step[g][at] = step[h][at]
    BY DEF Falls
  <2>1. MatchesAt(branch, name, at[1], at[2], g) = MatchesAt(branch, name, at[1], at[2], h)
    BY <1>1, MatchesSteps
  <2> QED BY <2>1
<1>5. PICK found \in [D -> V] : found = step[found]
  <2>0. V # {}
    OBVIOUS
  <2> HIDE DEF D, V, rank, step
  <2>1. WellDefined(D, V, rank, step)
    BY <2>0, <1>2, <1>3, <1>4 DEF WellDefined
  <2> QED BY <2>1, Recursion
<1> DEFINE Solution(f) == f = [at \in D |-> MatchesAt(branch, name, at[1], at[2], f)]
<1>6. Solution(found)
  BY <1>5
<1>7. MatchesFrom(branch, name) = CHOOSE f : Solution(f)
  BY DEF MatchesFrom, Places
<1>8. Solution(MatchesFrom(branch, name))
  <2> HIDE DEF Solution
  <2> QED BY <1>6, <1>7
<1> SUFFICES ASSUME NEW i \in 1 .. Len(branch) + 1, NEW j \in 1 .. Len(name) + 1
             PROVE  MatchesFrom(branch, name)[<<i, j>>]
                      = MatchesAt(branch, name, i, j, MatchesFrom(branch, name))
  OBVIOUS
<1>9. <<i, j>> \in D
  BY DEF Places
<1> QED BY <1>8, <1>9


(* What Rule makes of a table's name. *)
Anchored(text) == <<"^">> \o text \o <<"$">>

LEMMA Enclosed ==
  ASSUME NEW T, NEW text \in Seq(T), NEW a \in T, NEW z \in T
  PROVE  /\ <<a>> \o text \o <<z>> \in Seq(T)
         /\ Len(<<a>> \o text \o <<z>>) = Len(text) + 2
         /\ (<<a>> \o text \o <<z>>)[1] = a
         /\ \A i \in 1 .. Len(text) : (<<a>> \o text \o <<z>>)[i + 1] = text[i]
         /\ (<<a>> \o text \o <<z>>)[Len(text) + 2] = z
<1> DEFINE front == <<a>> \o text
<1>1. /\ front \in Seq(T) /\ Len(front) = Len(text) + 1 /\ front[1] = a
      /\ \A i \in 1 .. Len(text) : front[i + 1] = text[i]
  OBVIOUS
<1>2. <<z>> \in Seq(T) /\ Len(<<z>>) = 1 /\ <<z>>[1] = z
  OBVIOUS
<1> HIDE DEF front
<1>3. /\ front \o <<z>> \in Seq(T) /\ Len(front \o <<z>>) = Len(front) + 1
      /\ \A i \in 1 .. Len(front) : (front \o <<z>>)[i] = front[i]
      /\ (front \o <<z>>)[Len(front) + 1] = z
  BY <1>1, <1>2
<1>4. \A i \in 1 .. Len(text) : i + 1 \in 1 .. Len(front)
  BY <1>1
<1>5. 1 \in 1 .. Len(front) /\ Len(front) + 1 = Len(text) + 2
  BY <1>1
<1> QED BY <1>1, <1>3, <1>4, <1>5 DEF front

LEMMA AnchoredIsText ==
  ASSUME NEW text \in Seq(Symbols)
  PROVE  /\ Anchored(text) \in Seq(Symbols)
         /\ Len(Anchored(text)) = Len(text) + 2
         /\ Anchored(text)[1] = "^"
         /\ \A i \in 1 .. Len(text) : Anchored(text)[i + 1] = text[i]
         /\ Anchored(text)[Len(text) + 2] = "$"
<1>1. "^" \in Symbols /\ "$" \in Symbols
  BY DEF Symbols, Marks
<1> DEFINE a == "^" z == "$"
<1> HIDE DEF a, z
<1>2. /\ <<a>> \o text \o <<z>> \in Seq(Symbols)
      /\ Len(<<a>> \o text \o <<z>>) = Len(text) + 2
      /\ (<<a>> \o text \o <<z>>)[1] = a
      /\ \A i \in 1 .. Len(text) : (<<a>> \o text \o <<z>>)[i + 1] = text[i]
      /\ (<<a>> \o text \o <<z>>)[Len(text) + 2] = z
  <2>1. a \in Symbols /\ z \in Symbols
    BY <1>1 DEF a, z
  <2> QED BY <2>1, Enclosed
<1> QED BY <1>2 DEF Anchored, a, z

(* A branch in one piece is the whole regular expression. *)
LEMMA OneBranch ==
  ASSUME NEW text \in Seq(Symbols), "|" \notin Range(text), NEW name
  PROVE  IsMatch(Anchored(text), name)
           <=> \E j \in 1 .. Len(name) + 1 : MatchesFrom(Anchored(text), name)[<<1, j>>]
<1>1. "|" \notin Range(Anchored(text))
  <2>0. /\ Anchored(text) \in Seq(Symbols) /\ Len(Anchored(text)) = Len(text) + 2
        /\ Anchored(text)[1] = "^" /\ Anchored(text)[Len(text) + 2] = "$"
        /\ \A i \in 1 .. Len(text) : Anchored(text)[i + 1] = text[i]
    BY AnchoredIsText
  <2> SUFFICES ASSUME NEW i \in 1 .. Len(text) + 2 PROVE Anchored(text)[i] # "|"
    BY <2>0 DEF Range
  <2>1. i = 1 \/ i = Len(text) + 2 \/ (i - 1 \in 1 .. Len(text) /\ (i - 1) + 1 = i)
    OBVIOUS
  <2>2. \A k \in 1 .. Len(text) : text[k] # "|"
    BY DEF Range
  <2>3. CASE i - 1 \in 1 .. Len(text) /\ (i - 1) + 1 = i
    BY <2>0, <2>2, <2>3
  <2> QED BY <2>0, <2>1, <2>3
<1>2. Split(Anchored(text), "|") = {Anchored(text)}
  BY <1>1, AnchoredIsText, OnePiece
<1> QED BY <1>2 DEF IsMatch

(* From its i-th symbol on, text is the name from j on. *)
SameFrom(text, i, name, j) ==
  /\ Len(name) + i = Len(text) + j
  /\ \A x \in i .. Len(text) : text[x] = name[x + (j - i)]

LEMMA SameFromSteps ==
  ASSUME NEW text \in Seq(Symbols), NEW name \in Seq(Symbols)
  PROVE  /\ \A j \in 1 .. Len(name) + 1 :
              SameFrom(text, Len(text) + 1, name, j) <=> j = Len(name) + 1
         /\ \A i \in 1 .. Len(text), j \in 1 .. Len(name) + 1 :
              SameFrom(text, i, name, j)
                <=> (/\ j <= Len(name) /\ text[i] = name[j]
                     /\ SameFrom(text, i + 1, name, j + 1))
         /\ SameFrom(text, 1, name, 1) <=> name = text
<1>1. Len(text) \in Nat /\ Len(name) \in Nat
  OBVIOUS
<1>2. \A j \in 1 .. Len(name) + 1 : SameFrom(text, Len(text) + 1, name, j) <=> j = Len(name) + 1
  BY <1>1 DEF SameFrom
<1>3. ASSUME NEW i \in 1 .. Len(text), NEW j \in 1 .. Len(name) + 1
      PROVE  SameFrom(text, i, name, j)
               <=> (j <= Len(name) /\ text[i] = name[j] /\ SameFrom(text, i + 1, name, j + 1))
  <2>1. /\ \A x : x \in i .. Len(text) <=> x = i \/ x \in i + 1 .. Len(text)
        /\ i + (j - i) = j /\ (j + 1) - (i + 1) = j - i
    BY <1>1
  <2>2. Len(name) + i = Len(text) + j
          <=> (j <= Len(name) /\ Len(name) + (i + 1) = Len(text) + (j + 1))
    BY <1>1
  <2> QED BY <2>1, <2>2 DEF SameFrom
<1>4. ASSUME SameFrom(text, 1, name, 1) PROVE name = text
  <2>1. Len(name) = Len(text)
    BY <1>1, <1>4 DEF SameFrom
  <2>2. ASSUME NEW x \in 1 .. Len(text) PROVE name[x] = text[x]
    <3>1. x + (1 - 1) = x
      OBVIOUS
    <3> QED BY <1>4, <3>1 DEF SameFrom
  <2> QED BY <1>1, <2>1, <2>2
<1>5. SameFrom(text, 1, text, 1)
  BY <1>1 DEF SameFrom
<1> QED BY <1>2, <1>3, <1>4, <1>5

(* A name without marks matches itself only: the anchors leave no room. *)
LEMMA LiteralMatches ==
  ASSUME NEW text \in Literals, NEW name \in Seq(Symbols)
  PROVE  IsMatch(Anchored(text), name) <=> name = text
<1> DEFINE b == Anchored(text)
           l == Len(text)
           m == Len(name)
           M == MatchesFrom(b, name)
<1>1. /\ text \in Seq(Symbols) /\ l \in Nat /\ m \in Nat
      /\ \A i \in 1 .. l : text[i] \notin Marks
  BY DEF Literals, Range
<1>2. /\ b \in Seq(Symbols) /\ Len(b) = l + 2 /\ b[1] = "^" /\ b[l + 2] = "$"
      /\ \A i \in 1 .. l : b[i + 1] = text[i]
  BY <1>1, AnchoredIsText
<1> HIDE DEF b
<1>3. \A i \in 1 .. l + 2 : Quantifier(b, i) = "1"
  <2> SUFFICES ASSUME NEW i \in 1 .. l + 1 PROVE b[i + 1] \notin {"*", "+"}
    BY <1>1, <1>2 DEF Quantifier
  <2>1. i = l + 1 \/ i \in 1 .. l
    BY <1>1
  <2> QED BY <1>1, <1>2, <2>1 DEF Marks
<1>4. \A i \in 1 .. l + 3, j \in 1 .. m + 1 : M[<<i, j>>] = MatchesAt(b, name, i, j, M)
  <2>1. Len(b) + 1 = l + 3
    BY <1>1, <1>2
  <2> QED BY <1>2, <2>1, MatchesDefined
<1> HIDE DEF M
<1>5. \A j \in 1 .. m + 1 : M[<<l + 3, j>>]
  <2> SUFFICES ASSUME NEW j \in 1 .. m + 1 PROVE M[<<l + 3, j>>]
    OBVIOUS
  <2>1. l + 3 = Len(b) + 1 /\ l + 3 \in 1 .. l + 3 /\ l + 3 \in 1 .. Len(b) + 1
    BY <1>1, <1>2
  <2>2. M[<<l + 3, j>>] = MatchesAt(b, name, l + 3, j, M)
    BY <1>4, <2>1
  <2> QED BY <1>2, <2>1, <2>2, MatchesCases
<1>6. ASSUME NEW i \in 1 .. l + 2, NEW j \in 1 .. m + 1
      PROVE  M[<<i, j>>] <=> \E k \in After(b[i], name, j) : M[<<i + 1, k>>]
  <2>1. i <= Len(b) /\ i \in 1 .. l + 3 /\ i \in 1 .. Len(b) + 1 /\ Quantifier(b, i) = "1"
    BY <1>1, <1>2, <1>3
  <2>2. M[<<i, j>>] = MatchesAt(b, name, i, j, M)
    BY <1>4, <2>1
  <2> QED BY <1>2, <2>1, <2>2, MatchesCases
<1>7. \A j \in 1 .. m + 1 : M[<<l + 2, j>>] <=> j = m + 1
  <2> SUFFICES ASSUME NEW j \in 1 .. m + 1 PROVE M[<<l + 2, j>>] <=> j = m + 1
    OBVIOUS
  <2>1. After(b[l + 2], name, j) = {k \in {j} : j = m + 1}
    BY <1>2 DEF After
  <2>3. l + 2 + 1 = l + 3 /\ l + 2 \in 1 .. l + 2
    BY <1>1
  <2>2. M[<<l + 2, j>>] <=> \E k \in After(b[l + 2], name, j) : M[<<l + 2 + 1, k>>]
    BY <1>6, <2>3
  <2> QED BY <1>5, <2>1, <2>2, <2>3
<1>8. ASSUME NEW i \in 1 .. l, NEW j \in 1 .. m + 1
      PROVE  M[<<i + 1, j>>] <=> (j <= m /\ text[i] = name[j] /\ M[<<i + 2, j + 1>>])
  <2>1. After(b[i + 1], name, j) = {k \in {j + 1} : j <= m /\ text[i] = name[j]}
    BY <1>1, <1>2 DEF After, Marks
  <2>2. i + 1 \in 1 .. l + 2 /\ (i + 1) + 1 = i + 2
    BY <1>1
  <2>3. M[<<i + 1, j>>] <=> \E k \in After(b[i + 1], name, j) : M[<<(i + 1) + 1, k>>]
    BY <1>6, <2>2
  <2> QED BY <2>1, <2>2, <2>3
<1> DEFINE S == {d \in Nat : \A i \in 1 .. l + 1 : l + 1 - i = d =>
                    \A j \in 1 .. m + 1 : M[<<i + 1, j>>] <=> SameFrom(text, i, name, j)}
<1>9. 0 \in S
  <2> SUFFICES ASSUME NEW j \in 1 .. m + 1
               PROVE  M[<<l + 1 + 1, j>>] <=> SameFrom(text, l + 1, name, j)
    BY <1>1
  <2>1. l + 1 + 1 = l + 2
    BY <1>1
  <2> QED BY <1>1, <1>7, <2>1, SameFromSteps
<1>10. ASSUME NEW d \in Nat, d \in S PROVE d + 1 \in S
  <2> SUFFICES ASSUME NEW i \in 1 .. l + 1, l + 1 - i = d + 1, NEW j \in 1 .. m + 1
               PROVE  M[<<i + 1, j>>] <=> SameFrom(text, i, name, j)
    OBVIOUS
  <2>1. i \in 1 .. l /\ i + 1 \in 1 .. l + 1 /\ l + 1 - (i + 1) = d /\ i + 1 + 1 = i + 2
        /\ (j <= m => j + 1 \in 1 .. m + 1)
    BY <1>1
  <2>2. M[<<i + 1, j>>] <=> (j <= m /\ text[i] = name[j] /\ M[<<i + 2, j + 1>>])
    BY <1>8, <2>1
  <2>3. j <= m => (M[<<i + 2, j + 1>>] <=> SameFrom(text, i + 1, name, j + 1))
    BY <1>10, <2>1
  <2> HIDE DEF S
  <2> QED BY <1>1, <2>1, <2>2, <2>3, SameFromSteps
<1> HIDE DEF S
<1>11. l \in S
  BY <1>1, <1>9, <1>10, SetInduction
<1>12. M[<<2, 1>>] <=> SameFrom(text, 1, name, 1)
  <2>1. 1 \in 1 .. l + 1 /\ l + 1 - 1 = l /\ 1 \in 1 .. m + 1 /\ 1 + 1 = 2
    BY <1>1
  <2> QED BY <1>11, <2>1 DEF S
<1>13. SameFrom(text, 1, name, 1) <=> name = text
  BY <1>1, SameFromSteps
<1>14. \A j \in 1 .. m + 1 : M[<<1, j>>] <=> (j = 1 /\ M[<<2, 1>>])
  <2> SUFFICES ASSUME NEW j \in 1 .. m + 1 PROVE M[<<1, j>>] <=> (j = 1 /\ M[<<2, 1>>])
    OBVIOUS
  <2>1. After(b[1], name, j) = {k \in {j} : j = 1}
    BY <1>2 DEF After
  <2>2. 1 \in 1 .. l + 2 /\ 1 + 1 = 2
    BY <1>1
  <2>3. M[<<1, j>>] <=> \E k \in After(b[1], name, j) : M[<<1 + 1, k>>]
    BY <1>6, <2>2
  <2> QED BY <2>1, <2>2, <2>3
<1>15. IsMatch(b, name) <=> \E j \in 1 .. m + 1 : M[<<1, j>>]
  <2>1. "|" \notin Range(text)
    BY <1>1 DEF Range, Marks
  <2> QED BY <1>1, <2>1, OneBranch DEF b, M
<1>16. 1 \in 1 .. m + 1
  BY <1>1
<1> QED BY <1>12, <1>13, <1>14, <1>15, <1>16 DEF b

LEMMA StarIsText ==
  Star \in Seq(Symbols) /\ Len(Star) = 1 /\ Star[1] = "*" /\ Range(Star) = {"*"}
<1> DEFINE c == "*"
<1>1. c \in Symbols
  BY DEF Symbols, Marks
<1> HIDE DEF c
<1>2. <<c>> \in Seq(Symbols) /\ Len(<<c>>) = 1 /\ <<c>>[1] = c
  BY <1>1
<1>3. Range(<<c>>) = {c}
  BY <1>2 DEF Range
<1> QED BY <1>2, <1>3 DEF Star, c

(* `db.*` takes every name: the anchor in front may be missing. *)
LEMMA StarMatches == ASSUME NEW name \in Seq(Symbols)
                   PROVE  IsMatch(Anchored(Star), name)
<1> DEFINE b == Anchored(Star)
           j == Len(name) + 1
           M == MatchesFrom(b, name)
<1>1. b \in Seq(Symbols) /\ Len(b) = 3 /\ b[1] = "^" /\ b[2] = "*" /\ b[3] = "$"
  <2>1. Star \in Seq(Symbols) /\ Len(Star) = 1 /\ Star[1] = "*"
    BY StarIsText
  <2> DEFINE s == Star
  <2> HIDE DEF s
  <2>2. /\ Anchored(s) \in Seq(Symbols) /\ Len(Anchored(s)) = Len(s) + 2 /\ Anchored(s)[1] = "^"
        /\ (\A i \in 1 .. Len(s) : Anchored(s)[i + 1] = s[i]) /\ Anchored(s)[Len(s) + 2] = "$"
    BY <2>1, AnchoredIsText DEF s
  <2>3. Len(s) = 1 /\ s[1] = "*" /\ 1 \in 1 .. Len(s)
    BY <2>1 DEF s
  <2>4. Len(s) + 2 = 3 /\ 1 + 1 = 2
    BY <2>3
  <2>5. Anchored(s)[1 + 1] = s[1]
    BY <2>2, <2>3
  <2> QED BY <2>2, <2>3, <2>4, <2>5 DEF s
<1>2. j \in 1 .. Len(name) + 1 /\ Len(name) \in Nat
  OBVIOUS
<1> HIDE DEF b, j
<1>3. \A i \in 1 .. 4 : i \in 1 .. Len(b) + 1 /\ M[<<i, j>>] = MatchesAt(b, name, i, j, M)
  <2>1. Len(b) + 1 = 4
    BY <1>1
  <2> QED BY <1>1, <1>2, <2>1, MatchesDefined
<1> HIDE DEF M
<1>4. M[<<4, j>>]
  <2>1. 4 = Len(b) + 1 /\ 4 \in 1 .. Len(b) + 1 /\ M[<<4, j>>] = MatchesAt(b, name, 4, j, M)
    BY <1>1, <1>3
  <2>2. MatchesAt(b, name, 4, j, M) = TRUE
    BY <1>1, <2>1, MatchesCases
  <2> QED BY <2>1, <2>2
<1>5. M[<<3, j>>]
  <2>1. Quantifier(b, 3) = "1" /\ After(b[3], name, j) = {k \in {j} : j = Len(name) + 1}
    BY <1>1 DEF Quantifier, After
  <2>2. 3 <= Len(b) /\ 3 \in 1 .. Len(b) + 1 /\ M[<<3, j>>] = MatchesAt(b, name, 3, j, M)
    BY <1>1, <1>3
  <2>3. M[<<3, j>>] = \E k \in After(b[3], name, j) : M[<<3 + 1, k>>]
    BY <1>1, <2>1, <2>2, MatchesCases
  <2>4. 3 + 1 = 4
    OBVIOUS
  <2> QED BY <1>4, <2>1, <2>3, <2>4 DEF j
<1>6. M[<<1, j>>]
  <2>1. Quantifier(b, 1) = "*"
    BY <1>1 DEF Quantifier
  <2>2. M[<<1, j>>] = (M[<<1 + 2, j>>] \/ \E k \in After(b[1], name, j) \ {j} : M[<<1, k>>])
    <3>1. 1 <= Len(b) /\ 1 \in 1 .. Len(b) + 1 /\ M[<<1, j>>] = MatchesAt(b, name, 1, j, M)
      BY <1>1, <1>3
    <3> QED BY <1>1, <2>1, <3>1, MatchesCases
  <2>3. 1 + 2 = 3
    OBVIOUS
  <2> QED BY <1>5, <2>2, <2>3
<1>7. "|" \notin Range(Star) /\ Star \in Seq(Symbols)
  BY StarIsText
<1> QED BY <1>2, <1>6, <1>7, OneBranch DEF b, M


-----------------------------------------------------------------------------
(* Items of the list. *)

(* A table of a database, or with `db.*` all of them. *)
Names(text, d, n) == text = d \o <<".">> \o n

Item(text) == \E d \in Literals, n \in Literals \cup {Star} : Names(text, d, n)

LEMMA Joined ==
  ASSUME NEW T, NEW d \in Seq(T), NEW n \in Seq(T), NEW c \in T
  PROVE  /\ d \o <<c>> \o n \in Seq(T)
         /\ Len(d \o <<c>> \o n) = Len(d) + 1 + Len(n)
         /\ \A i \in 1 .. Len(d) : (d \o <<c>> \o n)[i] = d[i]
         /\ (d \o <<c>> \o n)[Len(d) + 1] = c
         /\ \A i \in 1 .. Len(n) : (d \o <<c>> \o n)[Len(d) + 1 + i] = n[i]
         /\ SubSeq(d \o <<c>> \o n, 1, Len(d)) = d
         /\ SubSeq(d \o <<c>> \o n, Len(d) + 2, Len(d) + 1 + Len(n)) = n
<1> DEFINE front == d \o <<c>>
           t == front \o n
<1>1. /\ front \in Seq(T) /\ Len(front) = Len(d) + 1 /\ front[Len(d) + 1] = c
      /\ \A i \in 1 .. Len(d) : front[i] = d[i]
  OBVIOUS
<1> HIDE DEF front
<1>2. /\ t \in Seq(T) /\ Len(t) = Len(front) + Len(n)
      /\ \A i \in 1 .. Len(front) : t[i] = front[i]
      /\ \A i \in 1 .. Len(n) : t[Len(front) + i] = n[i]
  BY <1>1
<1> HIDE DEF t
<1>3. /\ Len(t) = Len(d) + 1 + Len(n)
      /\ \A i \in 1 .. Len(d) : t[i] = d[i]
      /\ t[Len(d) + 1] = c
      /\ \A i \in 1 .. Len(n) : t[Len(d) + 1 + i] = n[i]
  <2>1. Len(d) + 1 \in 1 .. Len(front) /\ \A i \in 1 .. Len(d) : i \in 1 .. Len(front)
    BY <1>1
  <2> QED BY <1>1, <1>2, <2>1
<1>4. SubSeq(t, 1, Len(d)) = d
  BY <1>2, <1>3
<1>5. SubSeq(t, Len(d) + 2, Len(d) + 1 + Len(n)) = n
  <2> DEFINE u == SubSeq(t, Len(d) + 2, Len(d) + 1 + Len(n))
  <2>1. u \in Seq(T) /\ Len(u) = Len(n)
    BY <1>2, <1>3
  <2>2. ASSUME NEW i \in 1 .. Len(n) PROVE u[i] = n[i]
    <3>1. u[i] = t[Len(d) + 2 + i - 1] /\ Len(d) + 2 + i - 1 = Len(d) + 1 + i
      BY <1>2, <1>3
    <3> QED BY <1>3, <3>1
  <2> HIDE DEF u
  <2>3. u = n
    BY <2>1, <2>2
  <2> QED BY <2>3 DEF u
<1> QED BY <1>2, <1>3, <1>4, <1>5 DEF t, front

(* An item has one dot, where both programs divide it. *)
LEMMA ItemRead ==
  ASSUME NEW d \in Literals, NEW n \in Literals \cup {Star}, NEW text, Names(text, d, n)
  PROVE  /\ text \in Seq(Symbols) /\ HasDot(text)
         /\ Len(text) = Len(d) + 1 + Len(n) /\ text[Len(d) + 1] = "."
         /\ \A i \in 1 .. Len(text) : text[i] = "." => i = Len(d) + 1
         /\ \A i \in 1 .. Len(d) : text[i] \notin Marks
         /\ Rule(text) = [database |-> d, regex |-> Anchored(n)]
         /\ \A database, table :
              RuleTakes(text, database, table) <=> d \in {Star, database} /\ n \in {Star, table}
<1> DEFINE p == Len(d) + 1
           c == "."
<1>1. /\ d \in Seq(Symbols) /\ n \in Seq(Symbols) /\ c \in Symbols
      /\ \A i \in 1 .. Len(d) : d[i] \notin Marks
      /\ \A i \in 1 .. Len(n) : n[i] # "."
  <2>1. c \in Symbols
    BY DEF Symbols, Marks
  <2>2. d \in Seq(Symbols) /\ \A i \in 1 .. Len(d) : d[i] \notin Marks
    BY DEF Literals, Range
  <2>3. CASE n \in Literals
    <3>1. n \in Seq(Symbols) /\ \A i \in 1 .. Len(n) : n[i] \notin Marks
      BY <2>3 DEF Literals, Range
    <3> QED BY <2>1, <2>2, <3>1 DEF Marks
  <2>4. CASE n = Star
    <3>1. n \in Seq(Symbols) /\ Len(n) = 1 /\ n[1] = "*"
      BY <2>4, StarIsText
    <3>2. \A i \in 1 .. Len(n) : n[i] # "."
      BY <3>1
    <3> QED BY <2>1, <2>2, <3>1, <3>2
  <2> QED BY <2>3, <2>4
<1> HIDE DEF c
<1>2. /\ text \in Seq(Symbols) /\ Len(text) = p + Len(n)
      /\ \A i \in 1 .. Len(d) : text[i] = d[i]
      /\ text[p] = c
      /\ \A i \in 1 .. Len(n) : text[p + i] = n[i]
      /\ SubSeq(text, 1, Len(d)) = d
      /\ SubSeq(text, Len(d) + 2, p + Len(n)) = n
  BY <1>1, Joined DEF Names, c
<1>3. p \in 1 .. Len(text) /\ p - 1 = Len(d) /\ p + 1 = Len(d) + 2
  BY <1>1, <1>2
<1>4. \A i \in 1 .. Len(text) : text[i] = "." => i = p
  <2> SUFFICES ASSUME NEW i \in 1 .. Len(text), i # p PROVE text[i] # "."
    OBVIOUS
  <2>1. CASE i < p
    <3>1. i \in 1 .. Len(d)
      BY <1>1, <2>1
    <3> QED BY <1>1, <1>2, <3>1 DEF Marks
  <2>2. CASE i > p
    <3>1. i - p \in 1 .. Len(n) /\ p + (i - p) = i
      BY <1>1, <1>2, <2>2
    <3> QED BY <1>1, <1>2, <3>1
  <2> QED BY <1>1, <2>1, <2>2
<1>5. {i \in DOMAIN text : text[i] = "."} = {p}
  BY <1>2, <1>3, <1>4 DEF c
<1>6. Max({p}) = p /\ Min({p}) = p
  BY <1>1 DEF Max, Min
<1>7. HasDot(text)
  BY <1>2, <1>3 DEF HasDot, Range, c
<1> HIDE DEF p
<1>8. Rule(text) = [database |-> d, regex |-> Anchored(n)]
  BY <1>2, <1>3, <1>5, <1>6 DEF Rule, Anchored
<1>9. \A database, table :
        RuleTakes(text, database, table) <=> d \in {Star, database} /\ n \in {Star, table}
  BY <1>2, <1>3, <1>5, <1>6, <1>7 DEF RuleTakes
<1> QED BY <1>1, <1>2, <1>3, <1>4, <1>7, <1>8, <1>9 DEF p, c

(* A text without blanks is not trimmed. *)
Blank == " "

LEMMA TrimmedOf ==
  ASSUME NEW text
  PROVE  LET shown == {i \in DOMAIN text : text[i] # Blank}
         IN Trimmed(text) = IF shown = {} THEN <<>> ELSE SubSeq(text, Min(shown), Max(shown))
BY Zenon DEF Trimmed, Blank

LEMMA EndsOfInterval ==
  ASSUME NEW n \in Nat \ {0}
  PROVE  Min(1 .. n) = 1 /\ Max(1 .. n) = n
<1>1. /\ 1 \in 1 .. n /\ n \in 1 .. n
      /\ \A x \in 1 .. n : x >= 1 /\ n >= x /\ 1 =< x /\ (x >= n => x = n) /\ (x =< 1 => x = 1)
  OBVIOUS
<1>2. \A x \in 1 .. n : (\A y \in 1 .. n : x =< y) <=> x = 1
  BY <1>1
<1>3. \A x \in 1 .. n : (\A y \in 1 .. n : x >= y) <=> x = n
  BY <1>1
<1>4. Min(1 .. n) = 1
  <2> DEFINE P(x) == \A y \in 1 .. n : x =< y
  <2>1. (CHOOSE x \in 1 .. n : P(x)) = 1
    <3>1. 1 \in 1 .. n /\ P(1) /\ \A x \in 1 .. n : P(x) => x = 1
      BY <1>1, <1>2
    <3> HIDE DEF P
    <3> QED BY <3>1
  <2> QED BY <2>1 DEF Min
<1>5. Max(1 .. n) = n
  <2> DEFINE P(x) == \A y \in 1 .. n : x >= y
  <2>1. (CHOOSE x \in 1 .. n : P(x)) = n
    <3>1. n \in 1 .. n /\ P(n) /\ \A x \in 1 .. n : P(x) => x = n
      BY <1>1, <1>3
    <3> HIDE DEF P
    <3> QED BY <3>1
  <2> QED BY <2>1 DEF Max
<1> QED BY <1>4, <1>5

LEMMA NothingTrimmed ==
  ASSUME NEW text \in Seq(Symbols), text # <<>>, Blank \notin Range(text)
  PROVE  Trimmed(text) = text
<1> DEFINE shown == {i \in DOMAIN text : text[i] # Blank}
           n == Len(text)
<1>1. n \in Nat \ {0} /\ DOMAIN text = 1 .. n
  OBVIOUS
<1>2. shown = 1 .. n
  BY <1>1 DEF Range
<1> HIDE DEF shown
<1>3. Min(1 .. n) = 1 /\ Max(1 .. n) = n
  BY <1>1, EndsOfInterval
<1>5. SubSeq(text, 1, n) = text
  OBVIOUS
<1>6. shown # {}
  <2>1. 1 \in 1 .. n
    BY <1>1
  <2> QED BY <1>2, <2>1
<1>7. Trimmed(text) = IF shown = {} THEN <<>> ELSE SubSeq(text, Min(shown), Max(shown))
  BY TrimmedOf, Zenon DEF shown
<1> QED BY <1>2, <1>3, <1>5, <1>6, <1>7

(* What this is said of: the list's items are tables or whole databases, and no
   table of the server is without a name. *)
ListsTables ==
  /\ IncludeTables \in Seq(Symbols)
  /\ \A text \in RuleTexts(IncludeTables) : Item(text)
  /\ \A t \in Range(Catalog) : NameOf[t].table \in Seq(Symbols) \ { <<>> }

(* `*` and `*.*`, by which the pipeline follows every table, list nothing here:
   the one has no dot, the other the mark `*` for its database. *)
LEMMA ListsNoWildcard ==
  ASSUME ListsTables PROVE IncludeTables \notin {Star, <<"*", ".", "*">>}
<1> DEFINE comma == ","
<1>1. ASSUME NEW text \in Seq(Symbols), text # <<>>, text[1] = "*",
             \A i \in 1 .. Len(text) : text[i] \in Marks,
             IncludeTables = text
      PROVE  FALSE
  <2>1. comma \notin Marks /\ Blank \notin Marks
    BY Zenon DEF Marks, Blank
  <2> HIDE DEF comma
  <2>2. comma \notin Range(text) /\ Blank \notin Range(text)
    BY <1>1, <2>1 DEF Range
  <2>3. Split(IncludeTables, comma) = {text} /\ Trimmed(text) = text
    BY <1>1, <2>2, OnePiece, NothingTrimmed
  <2>4. text \in RuleTexts(IncludeTables)
    BY <1>1, <2>3, Zenon DEF RuleTexts, comma
  <2>5. PICK d \in Literals, n \in Literals \cup {Star} : Names(text, d, n)
    BY <2>4 DEF ListsTables, Item
  <2>6. /\ Len(text) = Len(d) + 1 + Len(n) /\ text[Len(d) + 1] = "."
        /\ \A i \in 1 .. Len(d) : text[i] \notin Marks
    BY <2>5, ItemRead
  <2>7. d \in Seq(Symbols) /\ Len(text) >= 1
    BY <1>1 DEF Literals
  <2>8. CASE Len(d) = 0
    BY <1>1, <2>6, <2>8
  <2>9. CASE Len(d) # 0
    <3>1. 1 \in 1 .. Len(d) /\ 1 \in 1 .. Len(text)
      BY <2>7, <2>9
    <3> QED BY <1>1, <2>6, <3>1
  <2> QED BY <2>8, <2>9
<1>2. IncludeTables # Star
  <2>1. Star \in Seq(Symbols) /\ Len(Star) = 1 /\ Star[1] = "*"
    BY StarIsText
  <2>3. Star # <<>>
    BY <2>1
  <2>2. "*" \in Marks
    BY DEF Marks
  <2> QED BY <1>1, <2>1, <2>2, <2>3
<1>3. IncludeTables # <<"*", ".", "*">>
  <2> DEFINE s == "*"
             c == "."
  <2>1. s \in Symbols /\ c \in Symbols /\ s \in Marks /\ c \in Marks
    BY DEF Symbols, Marks
  <2> HIDE DEF s, c
  <2>2. /\ <<s, c, s>> \in Seq(Symbols) /\ <<s, c, s>> # <<>> /\ <<s, c, s>>[1] = s
        /\ \A i \in 1 .. Len(<<s, c, s>>) : <<s, c, s>>[i] \in Marks
    BY <2>1
  <2> QED BY <1>1, <2>2 DEF s, c
<1> QED BY <1>2, <1>3

(* The regular expression made of an item takes the table that can_exclude's
   comparison takes. *)
LEMMA ItemTakes ==
  ASSUME NEW text, Item(text), NEW database, NEW table \in Seq(Symbols)
  PROVE  RuleTakes(text, database, table)
           <=> Rule(text).database = database /\ IsMatch(Rule(text).regex, table)
<1>1. PICK d \in Literals, n \in Literals \cup {Star} : Names(text, d, n)
  BY DEF Item
<1>2. /\ Rule(text) = [database |-> d, regex |-> Anchored(n)]
      /\ RuleTakes(text, database, table) <=> d \in {Star, database} /\ n \in {Star, table}
  BY <1>1, ItemRead
<1>3. Star \notin Literals
  <2>1. Range(Star) \cap Marks # {}
    BY StarIsText DEF Marks
  <2> QED BY <2>1 DEF Literals
<1>4. IsMatch(Anchored(n), table) <=> n \in {Star, table}
  <2>1. CASE n = Star
    BY <2>1, StarMatches
  <2>2. CASE n # Star
    BY <2>2, LiteralMatches
  <2> QED BY <2>1, <2>2
<1>5. Rule(text).database = d /\ Rule(text).regex = Anchored(n)
  BY <1>2
<1> QED BY <1>1, <1>2, <1>3, <1>4, <1>5

LEMMA SameTables ==
  ASSUME ListsTables, NEW t \in Range(Catalog)
  PROVE  t \in Tables <=> ~CanExclude(IncludeTables, NameOf[t].database, NameOf[t].table)
<1> DEFINE database == NameOf[t].database
           table == NameOf[t].table
           Takes(text) == Rule(text).database = database /\ IsMatch(Rule(text).regex, table)
<1>1. table \in Seq(Symbols) /\ table # <<>>
  BY DEF ListsTables
<1>2. t \in Tables <=> \E text \in RuleTexts(IncludeTables) : Takes(text)
  <2>1. t \in Tables <=> Wanted(t)
    BY DEF Tables
  <2>2. CanInclude(IncludeTables, database, table)
          <=> \E text \in RuleTexts(IncludeTables) : Takes(text)
    BY DEF CanInclude, Rules
  <2>3. CanInclude(IncludeTables, database, table) => database \in DatabaseNames(IncludeTables)
    BY DEF CanInclude, DatabaseNames
  <2> QED BY <2>1, <2>2, <2>3 DEF Wanted
<1> HIDE DEF table, database
<1>3. \A text \in RuleTexts(IncludeTables) : RuleTakes(text, database, table) <=> Takes(text)
  <2> SUFFICES ASSUME NEW text \in RuleTexts(IncludeTables)
               PROVE  RuleTakes(text, database, table) <=> Takes(text)
    OBVIOUS
  <2>1. Item(text)
    BY DEF ListsTables
  <2> QED BY <1>1, <2>1, ItemTakes
<1> HIDE DEF Takes
<1>4. ~RuleTakes(<<>>, database, table)
  <2>1. ~HasDot(<<>>)
    BY DEF HasDot, Range
  <2> QED BY <1>1, <2>1 DEF RuleTakes
<1>5. (\E piece \in Split(IncludeTables, ",") : RuleTakes(Trimmed(piece), database, table))
        <=> \E text \in RuleTexts(IncludeTables) : RuleTakes(text, database, table)
  BY <1>4, Zenon DEF RuleTexts
<1>6. ~CanExclude(IncludeTables, database, table)
        <=> \E piece \in Split(IncludeTables, ",") : RuleTakes(Trimmed(piece), database, table)
  BY ListsNoWildcard, Zenon DEF CanExclude
<1>7. t \in Tables <=> ~CanExclude(IncludeTables, database, table)
  BY <1>2, <1>3, <1>5, <1>6, Zenon
<1> QED BY <1>7 DEF database, table

(* The incremental pipeline follows the tables that were exported and no others
   (ExportedAreFollowed), for every such list, however long the names and however
   the list is spaced. *)
THEOREM ListedAreFollowed ==
  ASSUME ListsTables PROVE Spec => []ExportedAreFollowed
<1>1. ExportedAreFollowed
  BY SameTables DEF ExportedAreFollowed
<1> QED BY <1>1, PTL DEF Spec
=============================================================================
