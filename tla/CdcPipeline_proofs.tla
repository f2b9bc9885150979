------------------------- MODULE CdcPipeline_proofs -------------------------
(***************************************************************************)
(* Proofs about CdcPipeline, for every number of channels, capacity, batch *)
(* limit, key set, hash and row sequence.                                  *)
(***************************************************************************)
EXTENDS CdcPipeline, SequenceTheorems, TLAPS

-----------------------------------------------------------------------------
(* Lemmas on sequences of positions. *)

LEMMA SeqOfLarger ==
  ASSUME NEW S, NEW T, S \subseteq T
  PROVE  Seq(S) \subseteq Seq(T)
<1>1. ASSUME NEW q \in Seq(S) PROVE q \in Seq(T)
  BY SeqMonotonic
<1> QED BY <1>1

(* Taking a prefix of a queue: both parts are queues of the same elements. *)
LEMMA SplitQueue ==
  ASSUME NEW S, NEW q \in Seq(S), NEW n \in 0 .. Len(q)
  PROVE  /\ SubSeq(q, 1, n) \in Seq(S)
         /\ Len(SubSeq(q, 1, n)) = n
         /\ \A i \in 1 .. n : SubSeq(q, 1, n)[i] = q[i]
         /\ SubSeq(q, n + 1, Len(q)) \in Seq(S)
         /\ Len(SubSeq(q, n + 1, Len(q))) = Len(q) - n
         /\ \A i \in 1 .. Len(q) - n : SubSeq(q, n + 1, Len(q))[i] = q[n + i]
<1>1. Len(q) \in Nat /\ n \in Int /\ n + 1 \in Int
  OBVIOUS
<1>2. \A i \in 1 .. n : q[i] \in S
  BY <1>1, ElementOfSeq
<1>3. \A i \in n + 1 .. Len(q) : q[i] \in S
  BY <1>1, ElementOfSeq
<1>4. /\ SubSeq(q, 1, n) \in Seq(S)
      /\ Len(SubSeq(q, 1, n)) = IF 1 <= n THEN n - 1 + 1 ELSE 0
      /\ \A i \in 1 .. n - 1 + 1 : SubSeq(q, 1, n)[i] = q[1 + i - 1]
  BY <1>1, <1>2, SubSeqProperties
<1>5. /\ SubSeq(q, n + 1, Len(q)) \in Seq(S)
      /\ Len(SubSeq(q, n + 1, Len(q))) = IF n + 1 <= Len(q) THEN Len(q) - (n + 1) + 1 ELSE 0
      /\ \A i \in 1 .. Len(q) - (n + 1) + 1 : SubSeq(q, n + 1, Len(q))[i] = q[n + 1 + i - 1]
  BY <1>1, <1>3, SubSeqProperties
<1> QED BY <1>1, <1>4, <1>5

(* What is in a queue stays there when something is added. *)
LEMMA AppendKeeps ==
  ASSUME NEW S, NEW q \in Seq(S), NEW e
  PROVE  Range(q) \cup {e} \subseteq Range(Append(q, e))
<1>1. q \in Seq(S \cup {e}) /\ e \in S \cup {e}
  BY SeqOfLarger
<1>2. /\ Append(q, e) \in Seq(S \cup {e})
      /\ Len(Append(q, e)) = Len(q) + 1
      /\ \A i \in 1 .. Len(q) : Append(q, e)[i] = q[i]
      /\ Append(q, e)[Len(q) + 1] = e
  BY <1>1, AppendProperties
<1>3. /\ Len(q) \in Nat
      /\ DOMAIN q = 1 .. Len(q)
      /\ DOMAIN Append(q, e) = 1 .. Len(q) + 1
  BY <1>1, <1>2, LenProperties
<1> QED BY <1>2, <1>3 DEF Range

LEMMA RoutesToChannel ==
  ASSUME NEW row \in RowChange
  PROVE  Route(row) \in Channels /\ PartitionOf[row.key] \in Partitions
  BY ConfigAssumption DEF RowChange, Route

-----------------------------------------------------------------------------
(* The state of the pipeline keeps its types and no channel exceeds its
   capacity, whatever is read, converted, refused by the broker or dropped. *)
THEOREM TypeCorrect == Spec => []TypeOK
<1> USE ConfigAssumption
<1>1. Init => TypeOK
  BY DEF Init, TypeOK, NoRecords
<1>2. TypeOK /\ [Next]_vars => TypeOK'
  <2> SUFFICES ASSUME TypeOK, [Next]_vars PROVE TypeOK'
    OBVIOUS
  <2> USE DEF TypeOK
  <2>1. CASE ReadRowsEvent
    <3>0. PICK n \in 1 .. EventRows : \E rows \in [1 .. n -> RowChanges] : binlog' = binlog \o rows
      BY <2>1 DEF ReadRowsEvent
    <3>1. PICK rows \in [1 .. n -> RowChanges] : binlog' = binlog \o rows
      BY <3>0
    <3>2. rows \in Seq(RowChange)
      <4>1. rows \in Seq(RowChanges)
        BY <3>1
      <4> QED BY <4>1, SeqOfLarger
    <3>3. binlog' \in Seq(RowChange) /\ Len(binlog') >= Len(binlog)
      BY <3>1, <3>2, ConcatProperties
    <3> QED BY <2>1, <3>3 DEF ReadRowsEvent
  <2>2. CASE SendBinlogEvent
    <3> DEFINE c == Route(binlog[next])
    <3>1. next \in 1 .. Len(binlog) /\ binlog[next] \in RowChange /\ c \in Channels
      BY <2>2, RoutesToChannel DEF SendBinlogEvent
    <3>2. Seq(1 .. next - 1) \subseteq Seq(1 .. next' - 1)
      BY <2>2, SeqOfLarger DEF SendBinlogEvent
    <3>3. next \in 1 .. next' - 1
      BY <2>2 DEF SendBinlogEvent
    <3>4. CASE HasRoom(c) /\ chan' = [chan EXCEPT ![c] = Append(@, next)] /\ UNCHANGED lost
      <4>1. chan[c] \in Seq(1 .. next' - 1)
        BY <3>1, <3>2
      <4>2. /\ Append(chan[c], next) \in Seq(1 .. next' - 1)
            /\ Len(Append(chan[c], next)) = Len(chan[c]) + 1
        BY <4>1, <3>3, AppendProperties
      <4>3. Len(Append(chan[c], next)) <= Capacity
        BY <4>2, <4>1, <3>4 DEF HasRoom
      <4>4. chan' \in [Channels -> Seq(1 .. next' - 1)] /\ \A d \in Channels : Len(chan'[d]) <= Capacity
        BY <3>1, <3>2, <3>4, <4>2, <4>3
      <4> QED BY <2>2, <3>1, <3>2, <3>4, <4>4 DEF SendBinlogEvent
    <3>5. CASE worker[c] = "panicked" /\ lost' = lost \cup {next} /\ UNCHANGED chan
      BY <2>2, <3>1, <3>2, <3>5 DEF SendBinlogEvent
    <3> QED BY <2>2, <3>4, <3>5 DEF SendBinlogEvent
  <2>3. CASE SourcePanics
    BY <2>3 DEF SourcePanics
  <2>4. CASE SourceStops
    BY <2>4 DEF SourceStops
  <2>5. ASSUME NEW c \in Channels, RecvMany(c) PROVE TypeOK'
    <3> DEFINE n == Smaller(BatchSize, Len(chan[c]))
    <3>0. chan[c] \in Seq(1 .. next - 1)
      OBVIOUS
    <3>1. n \in 0 .. Len(chan[c])
      BY <3>0 DEF Smaller
    <3> HIDE DEF n
    <3>2. /\ SubSeq(chan[c], 1, n) \in Seq(1 .. next - 1)
          /\ Remaining(c, n) \in Seq(1 .. next - 1)
          /\ Len(Remaining(c, n)) = Len(chan[c]) - n
      <4> DEFINE q == chan[c]
                 S == 1 .. next - 1
      <4>1. q \in Seq(S) /\ n \in 0 .. Len(q)
        BY <3>0, <3>1
      <4> HIDE DEF q, S
      <4>2. /\ SubSeq(q, 1, n) \in Seq(S)
            /\ SubSeq(q, n + 1, Len(q)) \in Seq(S)
            /\ Len(SubSeq(q, n + 1, Len(q))) = Len(q) - n
        BY <4>1, SplitQueue
      <4> QED BY <4>2 DEF q, S, Remaining
    <3>3. Len(Remaining(c, n)) <= Capacity
      BY <3>0, <3>1, <3>2
    <3> QED BY <2>5, <3>2, <3>3 DEF RecvMany, n
  <2>6. ASSUME NEW c \in Channels, MessageRecords(c) PROVE TypeOK'
    <3> DEFINE s == Head(batch[c])
               p == PartitionOf[binlog[s].key]
    <3>1. /\ s \in 1 .. next - 1
          /\ Tail(batch[c]) \in Seq(1 .. next - 1)
      BY <2>6, HeadTailProperties DEF MessageRecords
    <3>2. p \in Partitions
      <4>1. binlog[s] \in RowChange
        BY <3>1
      <4> QED BY <4>1, RoutesToChannel
    <3>3. AddRecord(group[c][p], s) \in Seq(1 .. next - 1)
      BY <3>1, <3>2, AppendProperties DEF AddRecord
    <3>4. group' \in [Channels -> [Partitions -> Seq(1 .. next - 1)]]
      <4> DEFINE g == [group[c] EXCEPT ![p] = AddRecord(group[c][p], s)]
      <4>1. g \in [Partitions -> Seq(1 .. next - 1)]
        BY <3>2, <3>3
      <4>2. group' = [group EXCEPT ![c] = g]
        BY <2>6 DEF MessageRecords
      <4> QED BY <4>1, <4>2
    <3> QED BY <2>6, <3>1, <3>4 DEF MessageRecords
  <2>7. ASSUME NEW c \in Channels, WorkerPanics(c) PROVE TypeOK'
    <3>1. Held(c) \subseteq 1 .. next - 1
      BY RangeOfSeq DEF Held
    <3>2. <<>> \in Seq(1 .. next - 1) /\ Len(<<>>) <= Capacity
      OBVIOUS
    <3>3. NoRecords \in [Partitions -> Seq(1 .. next - 1)]
      BY <3>2 DEF NoRecords
    <3> QED BY <2>7, <3>1, <3>2, <3>3 DEF WorkerPanics
  <2>8. ASSUME NEW c \in Channels, NEW p \in Partitions, ProduceRecords(c, p) PROVE TypeOK'
    <3>1. group[c][p] \in Seq(1 .. next - 1) /\ Range(group[c][p]) \subseteq 1 .. next - 1
      BY RangeOfSeq
    <3>2. log[p] \o group[c][p] \in Seq(1 .. next - 1)
      BY <3>1, ConcatProperties
    <3>3. log' \in [Partitions -> Seq(1 .. next - 1)]
      BY <2>8, <3>2 DEF ProduceRecords, Unsent
    <3>4. errored' \subseteq 1 .. next - 1
      BY <2>8, <3>1 DEF ProduceRecords, Unsent
    <3>5. group' \in [Channels -> [Partitions -> Seq(1 .. next - 1)]]
      BY <2>8 DEF ProduceRecords, Unsent
    <3> QED BY <2>8, <3>3, <3>4, <3>5 DEF ProduceRecords, Unsent
  <2>9. ASSUME NEW c \in Channels, WorkerExits(c) PROVE TypeOK'
    BY <2>9 DEF WorkerExits
  <2>10. CASE AwaitHandle
    <3>1. joined' \in 0 .. Parallelism /\ pipe' \in {"joining", "done", "panicked"}
      BY <2>10 DEF AwaitHandle
    <3> QED BY <2>10, <3>1 DEF AwaitHandle
  <2>11. CASE SampleChannels \/ MetricsServerOnly \/ UNCHANGED vars
    BY <2>11 DEF SampleChannels, MetricsServerOnly, vars
  <2> QED BY <2>1, <2>2, <2>3, <2>4, <2>5, <2>6, <2>7, <2>8, <2>9, <2>10, <2>11 DEF Next
<1>3. QED BY <1>1, <1>2, PTL DEF Spec

-----------------------------------------------------------------------------
(* Queues of positions in binlog order. *)

Increasing(q) == \A i, j \in DOMAIN q : i < j => q[i] < q[j]

Below(S, T) == \A m \in S, n \in T : m < n

LEMMA EmptyQueue == Increasing(<<>>) /\ Range(<<>>) = {}
  BY DEF Increasing, Range

(* The sender adds the newest position at the end. *)
LEMMA AppendNewest ==
  ASSUME NEW S \in SUBSET Int, NEW q \in Seq(S), NEW n \in S,
         Increasing(q), Below(Range(q), {n})
  PROVE  /\ Increasing(Append(q, n))
         /\ Range(Append(q, n)) = Range(q) \cup {n}
<1>1. /\ Append(q, n) \in Seq(S)
      /\ Len(Append(q, n)) = Len(q) + 1
      /\ \A i \in 1 .. Len(q) : Append(q, n)[i] = q[i]
      /\ Append(q, n)[Len(q) + 1] = n
  BY AppendProperties
<1>2. /\ Len(q) \in Nat
      /\ DOMAIN q = 1 .. Len(q)
      /\ DOMAIN Append(q, n) = 1 .. Len(q) + 1
  BY <1>1, LenProperties
<1>3. Range(Append(q, n)) = Range(q) \cup {n}
  <2>1. \A x \in Range(Append(q, n)) : x \in Range(q) \cup {n}
    BY <1>1, <1>2 DEF Range
  <2>2. Range(q) \subseteq Range(Append(q, n))
    BY <1>1, <1>2 DEF Range
  <2>3. n \in Range(Append(q, n))
    BY <1>1, <1>2 DEF Range
  <2> QED BY <2>1, <2>2, <2>3
<1>4. \A i \in 1 .. Len(q) : q[i] < n
  BY <1>2 DEF Below, Range
<1>5. Increasing(Append(q, n))
  <2> SUFFICES ASSUME NEW i \in 1 .. Len(q) + 1, NEW j \in 1 .. Len(q) + 1, i < j
               PROVE  Append(q, n)[i] < Append(q, n)[j]
    BY <1>2 DEF Increasing
  <2>1. i \in 1 .. Len(q)
    BY <1>2
  <2>2. CASE j = Len(q) + 1
    BY <1>1, <1>4, <2>1, <2>2
  <2>3. CASE j \in 1 .. Len(q)
    BY <1>1, <1>2, <2>1, <2>3 DEF Increasing
  <2> QED BY <1>2, <2>2, <2>3
<1> QED BY <1>3, <1>5

(* The head of a queue is the oldest position in it. *)
LEMMA HeadIsOldest ==
  ASSUME NEW S \in SUBSET Int, NEW q \in Seq(S), q # <<>>, Increasing(q)
  PROVE  /\ Increasing(Tail(q))
         /\ Range(q) = {Head(q)} \cup Range(Tail(q))
         /\ Below({Head(q)}, Range(Tail(q)))
<1>1. /\ Tail(q) \in Seq(S)
      /\ Len(Tail(q)) = Len(q) - 1
      /\ \A i \in 1 .. Len(Tail(q)) : Tail(q)[i] = q[i + 1]
  BY HeadTailProperties
<1>2. Len(q) \in Nat \ {0} /\ Head(q) = q[1]
  BY EmptySeq
<1>3. DOMAIN q = 1 .. Len(q) /\ DOMAIN Tail(q) = 1 .. Len(q) - 1
  BY <1>1, LenProperties
<1>4. Increasing(Tail(q))
  BY <1>1, <1>2, <1>3 DEF Increasing
<1>5. Below({Head(q)}, Range(Tail(q)))
  BY <1>1, <1>2, <1>3 DEF Increasing, Below, Range
<1>6. Range(q) = {Head(q)} \cup Range(Tail(q))
  <2>1. ASSUME NEW i \in 1 .. Len(q) PROVE q[i] \in {Head(q)} \cup Range(Tail(q))
    <3>1. CASE i = 1
      BY <1>2, <3>1
    <3>2. CASE i # 1
      <4>1. i - 1 \in DOMAIN Tail(q) /\ Tail(q)[i - 1] = q[i]
        BY <1>1, <1>2, <1>3, <3>2
      <4> QED BY <4>1 DEF Range
    <3> QED BY <3>1, <3>2
  <2>2. Range(Tail(q)) \subseteq Range(q)
    BY <1>1, <1>2, <1>3 DEF Range
  <2>3. Head(q) \in Range(q)
    BY <1>2, <1>3 DEF Range
  <2> QED BY <1>3, <2>1, <2>2, <2>3 DEF Range
<1> QED BY <1>4, <1>5, <1>6

(* A prefix holds older positions than the rest. *)
LEMMA PrefixIsOlder ==
  ASSUME NEW S \in SUBSET Int, NEW q \in Seq(S), NEW n \in 0 .. Len(q), Increasing(q)
  PROVE  /\ Increasing(SubSeq(q, 1, n))
         /\ Increasing(SubSeq(q, n + 1, Len(q)))
         /\ Below(Range(SubSeq(q, 1, n)), Range(SubSeq(q, n + 1, Len(q))))
         /\ Range(q) = Range(SubSeq(q, 1, n)) \cup Range(SubSeq(q, n + 1, Len(q)))
<1> DEFINE a == SubSeq(q, 1, n)
           b == SubSeq(q, n + 1, Len(q))
<1>1. /\ a \in Seq(S) /\ Len(a) = n /\ \A i \in 1 .. n : a[i] = q[i]
      /\ b \in Seq(S) /\ Len(b) = Len(q) - n /\ \A i \in 1 .. Len(q) - n : b[i] = q[n + i]
  BY SplitQueue
<1>2. /\ Len(q) \in Nat /\ n \in Nat
      /\ DOMAIN q = 1 .. Len(q) /\ DOMAIN a = 1 .. n /\ DOMAIN b = 1 .. Len(q) - n
  BY <1>1, LenProperties
<1> HIDE DEF a, b
<1>3. Increasing(a)
  BY <1>1, <1>2 DEF Increasing
<1>4. Increasing(b)
  <2> SUFFICES ASSUME NEW i \in 1 .. Len(q) - n, NEW j \in 1 .. Len(q) - n, i < j
               PROVE  b[i] < b[j]
    BY <1>2 DEF Increasing
  <2>1. n + i \in 1 .. Len(q) /\ n + j \in 1 .. Len(q) /\ n + i < n + j
    BY <1>2
  <2> QED BY <1>1, <1>2, <2>1 DEF Increasing
<1>5. ASSUME NEW i \in 1 .. n, NEW j \in 1 .. Len(q) - n PROVE a[i] < b[j]
  <2>1. i \in 1 .. Len(q) /\ n + j \in 1 .. Len(q) /\ i < n + j
    BY <1>2
  <2> QED BY <1>1, <1>2, <2>1 DEF Increasing
<1>6. Below(Range(a), Range(b))
  BY <1>2, <1>5 DEF Below, Range
<1>7. Range(q) = Range(a) \cup Range(b)
  <2>1. ASSUME NEW i \in 1 .. Len(q) PROVE q[i] \in Range(a) \cup Range(b)
    <3>1. CASE i \in 1 .. n
      BY <1>1, <1>2, <3>1 DEF Range
    <3>2. CASE i \notin 1 .. n
      <4>1. i - n \in 1 .. Len(q) - n /\ n + (i - n) = i
        BY <1>2, <3>2
      <4> QED BY <1>1, <1>2, <4>1 DEF Range
    <3> QED BY <3>1, <3>2
  <2>2. Range(a) \subseteq Range(q)
    BY <1>1, <1>2 DEF Range
  <2>3. ASSUME NEW i \in 1 .. Len(q) - n PROVE b[i] \in Range(q)
    <3>1. n + i \in 1 .. Len(q)
      BY <1>2
    <3> QED BY <1>1, <1>2, <3>1 DEF Range
  <2> QED BY <1>2, <2>1, <2>2, <2>3 DEF Range
<1> QED BY <1>3, <1>4, <1>6, <1>7 DEF a, b

-----------------------------------------------------------------------------
(* The queues of one worker.  A row moves from its channel to the batch, to a
   group and to a partition, and on that way the older rows are ahead: this is
   what makes KeyOrder inductive. *)
QueueInv(c) ==
  /\ Increasing(chan[c])
  /\ Increasing(batch[c])
  /\ \A p \in Partitions : Increasing(group[c][p])
  /\ Below(Range(batch[c]), Range(chan[c]))
  /\ \A p \in Partitions : /\ Below(Range(group[c][p]), Range(batch[c]))
                           /\ Below(Range(group[c][p]), Range(chan[c]))
  /\ \A s \in Held(c) : Route(binlog[s]) = c
  /\ \A p \in Partitions : \A s \in Range(group[c][p]) : PartitionOf[Key(s)] = p
  /\ worker[c] # "running" => chan[c] = <<>> /\ Idle(c)

AllQueues == \A c \in Channels : QueueInv(c)

(* The rows already sent never change. *)
HistoryStable == \A s \in 1 .. next - 1 : binlog'[s] = binlog[s]

LEMMA HistoryIsStable ==
  ASSUME TypeOK, [Next]_vars
  PROVE  HistoryStable
<1>1. CASE ReadRowsEvent
  <2>1. PICK n \in 1 .. EventRows : \E rows \in [1 .. n -> RowChanges] : binlog' = binlog \o rows
    BY <1>1 DEF ReadRowsEvent
  <2>2. PICK rows \in [1 .. n -> RowChanges] : binlog' = binlog \o rows
    BY <2>1
  <2>3. rows \in Seq(RowChanges) /\ RowChanges \subseteq RowChange
    BY <2>2, ConfigAssumption
  <2>4. rows \in Seq(RowChange)
    BY <2>3, SeqOfLarger
  <2>5. \A i \in 1 .. Len(binlog) + Len(rows) :
          (binlog \o rows)[i] = IF i <= Len(binlog) THEN binlog[i] ELSE rows[i - Len(binlog)]
    BY <2>4, ConcatProperties DEF TypeOK
  <2>6. Len(rows) \in Nat /\ Len(binlog) \in Nat
    BY <2>4, LenProperties DEF TypeOK
  <2> QED BY <2>2, <2>5, <2>6 DEF HistoryStable, TypeOK
<1>2. CASE UNCHANGED binlog
  BY <1>2 DEF HistoryStable
<1> QED
  BY <1>1, <1>2 DEF Next, vars, SendBinlogEvent, SourcePanics, SourceStops, RecvMany,
     MessageRecords, WorkerPanics, ProduceRecords, Unsent, WorkerExits, AwaitHandle,
     SampleChannels, MetricsServerOnly

(* What a worker holds are positions of rows that were sent. *)
LEMMA HeldWereSent ==
  ASSUME TypeOK, NEW c \in Channels
  PROVE  /\ Range(chan[c]) \subseteq 1 .. next - 1
         /\ Range(batch[c]) \subseteq 1 .. next - 1
         /\ \A p \in Partitions : Range(group[c][p]) \subseteq 1 .. next - 1
         /\ Held(c) \subseteq 1 .. next - 1
<1>1. /\ chan[c] \in Seq(1 .. next - 1) /\ batch[c] \in Seq(1 .. next - 1)
      /\ \A p \in Partitions : group[c][p] \in Seq(1 .. next - 1)
  BY DEF TypeOK
<1> QED BY <1>1, RangeOfSeq DEF Held

LEMMA UntouchedQueues ==
  ASSUME TypeOK, HistoryStable, NEW c \in Channels, QueueInv(c),
         chan'[c] = chan[c], batch'[c] = batch[c], group'[c] = group[c], worker'[c] = worker[c]
  PROVE  QueueInv(c)'
<1>1. Held(c)' = Held(c)
  BY DEF Held
<1>2. \A s \in Held(c) : binlog'[s] = binlog[s]
  BY HeldWereSent DEF HistoryStable
<1>3. \A p \in Partitions : \A s \in Range(group[c][p]) : binlog'[s] = binlog[s]
  BY HeldWereSent DEF HistoryStable
<1>4. \A s \in Held(c)' : Route(binlog[s])' = c
  BY <1>1, <1>2 DEF QueueInv, Route
<1>5. \A p \in Partitions : \A s \in Range(group'[c][p]) : PartitionOf[Key(s)'] = p
  BY <1>3 DEF QueueInv, Key
<1> QED BY <1>4, <1>5 DEF QueueInv, Idle, NoRecords

LEMMA QueuesStep ==
  ASSUME TypeOK, TypeOK', [Next]_vars, AllQueues
  PROVE  AllQueues'
<1> USE HistoryIsStable
<1> SUFFICES ASSUME NEW c \in Channels PROVE QueueInv(c)'
  BY DEF AllQueues
<1>0. QueueInv(c)
  BY DEF AllQueues
<1>1. CASE UNCHANGED <<chan, batch, group, worker>>
  BY <1>0, <1>1, UntouchedQueues
<1>2. CASE SendBinlogEvent
  <2> DEFINE d == Route(binlog[next])
  <2>1. CASE d = c /\ HasRoom(d) /\ chan' = [chan EXCEPT ![d] = Append(@, next)]
    <3>1. chan'[c] = Append(chan[c], next) /\ batch' = batch /\ group' = group /\ worker' = worker
      BY <1>2, <2>1 DEF SendBinlogEvent, TypeOK
    <3>2. next \in Nat /\ next' = next + 1 /\ binlog' = binlog
      BY <1>2 DEF SendBinlogEvent, TypeOK
    <3>3. 1 .. next \in SUBSET Int /\ next \in 1 .. next
      BY <1>2, <3>2 DEF SendBinlogEvent, TypeOK
    <3>4. chan[c] \in Seq(1 .. next - 1) /\ 1 .. next - 1 \subseteq 1 .. next
      BY <3>2 DEF TypeOK
    <3>5. chan[c] \in Seq(1 .. next)
      BY <3>4, SeqOfLarger
    <3>6. Below(Range(chan[c]), {next}) /\ Below(Range(batch[c]), {next})
          /\ \A p \in Partitions : Below(Range(group[c][p]), {next})
      <4>1. \A m \in 1 .. next - 1 : m < next
        BY <3>2
      <4>2. /\ Range(chan[c]) \subseteq 1 .. next - 1
            /\ Range(batch[c]) \subseteq 1 .. next - 1
            /\ \A p \in Partitions : Range(group[c][p]) \subseteq 1 .. next - 1
        BY HeldWereSent
      <4> QED BY <4>1, <4>2 DEF Below
    <3>7. Increasing(chan'[c]) /\ Range(chan'[c]) = Range(chan[c]) \cup {next}
      BY <1>0, <3>1, <3>3, <3>5, <3>6, AppendNewest DEF QueueInv
    <3>8. Held(c)' = Held(c) \cup {next}
      BY <3>1, <3>7 DEF Held
    <3>9. \A s \in Held(c)' : Route(binlog[s])' = c
      BY <1>0, <2>1, <3>2, <3>8 DEF QueueInv, Route
    <3>10. Below(Range(batch'[c]), Range(chan'[c]))
           /\ \A p \in Partitions : Below(Range(group'[c][p]), Range(chan'[c]))
      BY <1>0, <3>1, <3>6, <3>7 DEF QueueInv, Below
    <3>11. worker'[c] = "running"
      BY <2>1, <3>1 DEF HasRoom
    <3> QED BY <1>0, <3>1, <3>2, <3>7, <3>9, <3>10, <3>11 DEF QueueInv, Key
  <2>2. CASE d # c /\ chan' = [chan EXCEPT ![d] = Append(@, next)]
    <3>1. chan'[c] = chan[c]
      BY <2>2 DEF TypeOK
    <3> QED BY <1>0, <1>2, <3>1, UntouchedQueues DEF SendBinlogEvent
  <2>3. CASE UNCHANGED chan
    BY <1>0, <1>2, <2>3, UntouchedQueues DEF SendBinlogEvent
  <2> QED BY <1>2, <2>1, <2>2, <2>3 DEF SendBinlogEvent
<1>3. ASSUME NEW d \in Channels, RecvMany(d) PROVE QueueInv(c)'
  <2>1. CASE d = c
    <3> DEFINE n == Smaller(BatchSize, Len(chan[c]))
               q == chan[c]
    <3>1. q \in Seq(1 .. next - 1) /\ 1 .. next - 1 \in SUBSET Int
      BY DEF TypeOK
    <3>2. n \in 0 .. Len(q)
      BY <3>1, LenProperties, ConfigAssumption DEF Smaller
    <3> HIDE DEF n
    <3>3. /\ batch'[c] = SubSeq(q, 1, n)
          /\ chan'[c] = SubSeq(q, n + 1, Len(q))
          /\ group' = group /\ worker' = worker /\ worker[c] = "running" /\ binlog' = binlog
      BY <1>3, <2>1 DEF RecvMany, Remaining, TypeOK, n
    <3>4. /\ Increasing(batch'[c]) /\ Increasing(chan'[c])
          /\ Below(Range(batch'[c]), Range(chan'[c]))
          /\ Range(q) = Range(batch'[c]) \cup Range(chan'[c])
      <4> HIDE DEF q
      <4>1. Increasing(q)
        BY <1>0 DEF QueueInv, q
      <4>2. /\ Increasing(SubSeq(q, 1, n))
            /\ Increasing(SubSeq(q, n + 1, Len(q)))
            /\ Below(Range(SubSeq(q, 1, n)), Range(SubSeq(q, n + 1, Len(q))))
            /\ Range(q) = Range(SubSeq(q, 1, n)) \cup Range(SubSeq(q, n + 1, Len(q)))
        BY <3>1, <3>2, <4>1, PrefixIsOlder
      <4> QED BY <3>3, <4>2
    <3>5. batch[c] = <<>>
      BY <1>3, <2>1 DEF RecvMany, Idle
    <3>6. Held(c)' = Held(c)
      BY <3>3, <3>4, <3>5, EmptyQueue DEF Held
    <3>7. \A p \in Partitions : /\ Below(Range(group'[c][p]), Range(batch'[c]))
                                /\ Below(Range(group'[c][p]), Range(chan'[c]))
      BY <1>0, <3>3, <3>4 DEF QueueInv, Below
    <3> QED BY <1>0, <3>3, <3>4, <3>6, <3>7 DEF QueueInv, Route, Key
  <2>2. CASE d # c
    <3>1. chan'[c] = chan[c] /\ batch'[c] = batch[c]
      BY <1>3, <2>2 DEF RecvMany, TypeOK
    <3> QED BY <1>0, <1>3, <3>1, UntouchedQueues DEF RecvMany
  <2> QED BY <2>1, <2>2
<1>4. ASSUME NEW d \in Channels, MessageRecords(d) PROVE QueueInv(c)'
  <2>1. CASE d = c
    <3> DEFINE s == Head(batch[c])
               p == PartitionOf[binlog[s].key]
    <3>1. batch[c] \in Seq(1 .. next - 1) /\ batch[c] # <<>> /\ 1 .. next - 1 \in SUBSET Int
      BY <1>4, <2>1 DEF MessageRecords, TypeOK
    <3>2. /\ Increasing(Tail(batch[c]))
          /\ Range(batch[c]) = {s} \cup Range(Tail(batch[c]))
          /\ Below({s}, Range(Tail(batch[c])))
      BY <1>0, <3>1, HeadIsOldest DEF QueueInv
    <3>3. s \in 1 .. next - 1
      BY <3>1, HeadTailProperties
    <3> HIDE DEF s
    <3>4. p \in Partitions
      <4>1. binlog[s] \in RowChange
        BY <3>3, ElementOfSeq DEF TypeOK
      <4> QED BY <4>1, RoutesToChannel
    <3>5. /\ batch'[c] = Tail(batch[c])
          /\ group'[c] = [group[c] EXCEPT ![p] = Append(group[c][p], s)]
          /\ chan' = chan /\ worker' = worker /\ worker[c] = "running" /\ binlog' = binlog
      BY <1>4, <2>1 DEF MessageRecords, AddRecord, TypeOK, s
    <3>6. group'[c][p] = Append(group[c][p], s)
          /\ \A r \in Partitions : r # p => group'[c][r] = group[c][r]
      BY <3>4, <3>5 DEF TypeOK
    <3>7. Increasing(group'[c][p]) /\ Range(group'[c][p]) = Range(group[c][p]) \cup {s}
      <4>1. group[c][p] \in Seq(1 .. next - 1) /\ Increasing(group[c][p])
            /\ Below(Range(group[c][p]), {s})
        <5>1. group[c][p] \in Seq(1 .. next - 1)
          BY <3>4 DEF TypeOK
        <5>2. Increasing(group[c][p]) /\ Below(Range(group[c][p]), Range(batch[c]))
          BY <1>0, <3>4 DEF QueueInv
        <5> QED BY <3>2, <5>1, <5>2 DEF Below
      <4>2. Increasing(Append(group[c][p], s))
            /\ Range(Append(group[c][p], s)) = Range(group[c][p]) \cup {s}
        BY <3>1, <3>3, <4>1, AppendNewest
      <4> QED BY <3>6, <4>2
    <3>8. \A r \in Partitions : /\ Increasing(group'[c][r])
                                /\ Range(group'[c][r]) \subseteq Range(group[c][r]) \cup {s}
                                /\ r # p => Range(group'[c][r]) = Range(group[c][r])
      BY <1>0, <3>6, <3>7 DEF QueueInv
    <3>9. Held(c)' \subseteq Held(c)
      <4>1. \A r \in Partitions : Range(group'[c][r]) \subseteq Held(c)
        BY <3>2, <3>8 DEF Held
      <4>2. Range(batch'[c]) \subseteq Held(c) /\ Range(chan'[c]) \subseteq Held(c)
        BY <3>2, <3>5 DEF Held
      <4> QED BY <4>1, <4>2 DEF Held
    <3>10. \A r \in Partitions : /\ Below(Range(group'[c][r]), Range(batch'[c]))
                                 /\ Below(Range(group'[c][r]), Range(chan'[c]))
      BY <1>0, <3>2, <3>5, <3>8 DEF QueueInv, Below
    <3>11. Below(Range(batch'[c]), Range(chan'[c]))
      BY <1>0, <3>2, <3>5 DEF QueueInv, Below
    <3>12. \A r \in Partitions : \A t \in Range(group'[c][r]) : PartitionOf[Key(t)'] = r
      BY <1>0, <3>5, <3>7, <3>8 DEF QueueInv, Key
    <3>13. \A t \in Held(c)' : Route(binlog[t])' = c
      BY <1>0, <3>5, <3>9 DEF QueueInv, Route
    <3> QED BY <1>0, <3>2, <3>5, <3>8, <3>10, <3>11, <3>12, <3>13 DEF QueueInv
  <2>2. CASE d # c
    <3>1. batch'[c] = batch[c] /\ group'[c] = group[c]
      BY <1>4, <2>2 DEF MessageRecords, TypeOK
    <3> QED BY <1>0, <1>4, <3>1, UntouchedQueues DEF MessageRecords
  <2> QED BY <2>1, <2>2
<1>5. ASSUME NEW d \in Channels, WorkerPanics(d) PROVE QueueInv(c)'
  <2>1. CASE d = c
    <3>1. chan'[c] = <<>> /\ batch'[c] = <<>> /\ group'[c] = NoRecords
      BY <1>5, <2>1 DEF WorkerPanics, TypeOK
    <3>2. \A p \in Partitions : group'[c][p] = <<>>
      BY <3>1 DEF NoRecords
    <3>3. Held(c)' = {}
      BY <3>1, <3>2, EmptyQueue DEF Held
    <3> QED BY <3>1, <3>2, <3>3, EmptyQueue DEF QueueInv, Below, Idle, NoRecords
  <2>2. CASE d # c
    <3>1. chan'[c] = chan[c] /\ batch'[c] = batch[c] /\ group'[c] = group[c] /\ worker'[c] = worker[c]
      BY <1>5, <2>2 DEF WorkerPanics, TypeOK
    <3> QED BY <1>0, <3>1, UntouchedQueues
  <2> QED BY <2>1, <2>2
<1>6. ASSUME NEW d \in Channels, NEW p \in Partitions, ProduceRecords(d, p) PROVE QueueInv(c)'
  <2>1. CASE d = c
    <3>1. /\ chan' = chan /\ batch' = batch /\ worker' = worker /\ binlog' = binlog
          /\ worker[c] = "running"
          /\ group'[c] = [group[c] EXCEPT ![p] = <<>>]
      BY <1>6, <2>1 DEF ProduceRecords, Unsent, TypeOK
    <3>2. \A r \in Partitions : \/ group'[c][r] = group[c][r]
                                \/ group'[c][r] = <<>>
      BY <3>1 DEF TypeOK
    <3>3. \A r \in Partitions : /\ Increasing(group'[c][r])
                                /\ Range(group'[c][r]) \subseteq Range(group[c][r])
      BY <1>0, <3>2, EmptyQueue DEF QueueInv
    <3>4. Held(c)' \subseteq Held(c)
      BY <3>1, <3>3 DEF Held
    <3>5. \A r \in Partitions : /\ Below(Range(group'[c][r]), Range(batch'[c]))
                                /\ Below(Range(group'[c][r]), Range(chan'[c]))
      BY <1>0, <3>1, <3>3 DEF QueueInv, Below
    <3>6. \A r \in Partitions : \A t \in Range(group'[c][r]) : PartitionOf[Key(t)'] = r
      BY <1>0, <3>1, <3>3 DEF QueueInv, Key
    <3>7. \A t \in Held(c)' : Route(binlog[t])' = c
      BY <1>0, <3>1, <3>4 DEF QueueInv, Route
    <3> QED BY <1>0, <3>1, <3>3, <3>5, <3>6, <3>7 DEF QueueInv
  <2>2. CASE d # c
    <3>1. group'[c] = group[c]
      BY <1>6, <2>2 DEF ProduceRecords, Unsent, TypeOK
    <3> QED BY <1>0, <1>6, <3>1, UntouchedQueues DEF ProduceRecords, Unsent
  <2> QED BY <2>1, <2>2
<1>7. ASSUME NEW d \in Channels, WorkerExits(d) PROVE QueueInv(c)'
  <2>1. CASE d = c
    <3>1. /\ chan' = chan /\ batch' = batch /\ group' = group /\ binlog' = binlog
          /\ chan[c] = <<>> /\ Idle(c)
      BY <1>7, <2>1 DEF WorkerExits, EndOfChannel
    <3> QED BY <1>0, <3>1 DEF QueueInv, Idle, Held, Route, Key
  <2>2. CASE d # c
    <3>1. worker'[c] = worker[c]
      BY <1>7, <2>2 DEF WorkerExits, TypeOK
    <3> QED BY <1>0, <1>7, <3>1, UntouchedQueues DEF WorkerExits
  <2> QED BY <2>1, <2>2
<1> QED
  BY <1>1, <1>2, <1>3, <1>4, <1>5, <1>6, <1>7 DEF Next, vars, ReadRowsEvent, SourcePanics,
     SourceStops, AwaitHandle, SampleChannels, MetricsServerOnly

-----------------------------------------------------------------------------
(* The partitions.  Rows of one channel are in binlog order in a partition and
   older than what is still on its way from that channel to that partition. *)
Pending(c, p) == Range(group[c][p]) \cup Range(batch[c]) \cup Range(chan[c])

LogInv(p) ==
  /\ \A i, j \in DOMAIN log[p] :
       i < j /\ Route(binlog[log[p][i]]) = Route(binlog[log[p][j]]) => log[p][i] < log[p][j]
  /\ \A t \in Range(log[p]) : PartitionOf[Key(t)] = p
  /\ \A t \in Range(log[p]), c \in Channels : Route(binlog[t]) = c => Below({t}, Pending(c, p))

AllLogs == \A p \in Partitions : LogInv(p)

(* Nothing but the row being sent joins what is on its way. *)
LEMMA PendingGrowth ==
  ASSUME TypeOK, [Next]_vars, AllQueues, NEW c \in Channels, NEW p \in Partitions
  PROVE  Pending(c, p)' \subseteq Pending(c, p) \cup {next}
<1>1. CASE UNCHANGED <<chan, batch, group>>
  BY <1>1 DEF Pending
<1>2. CASE SendBinlogEvent
  <2>1. \/ chan'[c] = chan[c]
        \/ chan'[c] = Append(chan[c], next)
    BY <1>2 DEF SendBinlogEvent, TypeOK
  <2>2. Range(Append(chan[c], next)) \subseteq Range(chan[c]) \cup {next}
    <3>1. chan[c] \in Seq(1 .. next) /\ next \in 1 .. next /\ 1 .. next \in SUBSET Int
      <4>1. chan[c] \in Seq(1 .. next - 1) /\ 1 .. next - 1 \subseteq 1 .. next /\ next \in 1 .. next
        BY <1>2 DEF SendBinlogEvent, TypeOK
      <4> QED BY <4>1, SeqOfLarger
    <3>2. Below(Range(chan[c]), {next})
      <4>1. \A m \in 1 .. next - 1 : m < next
        BY DEF TypeOK
      <4> QED BY <4>1, HeldWereSent DEF Below
    <3>3. Increasing(chan[c])
      BY DEF AllQueues, QueueInv
    <3> QED BY <3>1, <3>2, <3>3, AppendNewest
  <2> QED BY <1>2, <2>1, <2>2 DEF SendBinlogEvent, Pending
<1>3. ASSUME NEW d \in Channels, RecvMany(d) PROVE Pending(c, p)' \subseteq Pending(c, p)
  <2>1. CASE d = c
    <3> DEFINE n == Smaller(BatchSize, Len(chan[c]))
               q == chan[c]
    <3>1. q \in Seq(1 .. next - 1) /\ 1 .. next - 1 \in SUBSET Int /\ Increasing(q)
      BY DEF TypeOK, AllQueues, QueueInv
    <3>2. n \in 0 .. Len(q)
      BY <3>1, LenProperties, ConfigAssumption DEF Smaller
    <3> HIDE DEF n
    <3>3. /\ batch'[c] = SubSeq(q, 1, n) /\ chan'[c] = SubSeq(q, n + 1, Len(q))
          /\ group' = group
      BY <1>3, <2>1 DEF RecvMany, Remaining, TypeOK, n
    <3> HIDE DEF q
    <3>4. Range(q) = Range(SubSeq(q, 1, n)) \cup Range(SubSeq(q, n + 1, Len(q)))
      BY <3>1, <3>2, PrefixIsOlder
    <3> QED BY <3>3, <3>4 DEF Pending, q
  <2>2. CASE d # c
    <3>1. chan'[c] = chan[c] /\ batch'[c] = batch[c] /\ group' = group
      BY <1>3, <2>2 DEF RecvMany, TypeOK
    <3> QED BY <3>1 DEF Pending
  <2> QED BY <2>1, <2>2
<1>4. ASSUME NEW d \in Channels, MessageRecords(d) PROVE Pending(c, p)' \subseteq Pending(c, p)
  <2>1. CASE d = c
    <3> DEFINE s == Head(batch[c])
               r == PartitionOf[binlog[s].key]
    <3>1. batch[c] \in Seq(1 .. next - 1) /\ batch[c] # <<>> /\ 1 .. next - 1 \in SUBSET Int
      BY <1>4, <2>1 DEF MessageRecords, TypeOK
    <3>2. /\ Increasing(batch[c])
          /\ Below(Range(group[c][p]), Range(batch[c])) /\ Increasing(group[c][p])
      BY DEF AllQueues, QueueInv
    <3>3. Range(batch[c]) = {s} \cup Range(Tail(batch[c]))
      BY <3>1, <3>2, HeadIsOldest
    <3>4. s \in 1 .. next - 1
      BY <3>1, HeadTailProperties
    <3> HIDE DEF s
    <3>5. chan' = chan /\ batch'[c] = Tail(batch[c])
          /\ (group'[c][p] = group[c][p] \/ group'[c][p] = Append(group[c][p], s))
      BY <1>4, <2>1 DEF MessageRecords, AddRecord, TypeOK, s
    <3>6. group[c][p] \in Seq(1 .. next - 1) /\ Below(Range(group[c][p]), {s})
      BY <3>2, <3>3 DEF TypeOK, Below
    <3>7. Range(Append(group[c][p], s)) = Range(group[c][p]) \cup {s}
      <4> DEFINE g == group[c][p]
                 S == 1 .. next - 1
      <4>1. S \in SUBSET Int /\ s \in S
            /\ g \in Seq(S) /\ Below(Range(g), {s}) /\ Increasing(g)
        BY <3>1, <3>2, <3>4, <3>6
      <4> HIDE DEF g, S
      <4>2. Range(Append(g, s)) = Range(g) \cup {s}
        BY <4>1, AppendNewest
      <4> QED BY <4>2 DEF g
    <3> QED BY <3>3, <3>5, <3>7 DEF Pending
  <2>2. CASE d # c
    <3>1. chan' = chan /\ batch'[c] = batch[c] /\ group'[c] = group[c]
      BY <1>4, <2>2 DEF MessageRecords, TypeOK
    <3> QED BY <3>1 DEF Pending
  <2> QED BY <2>1, <2>2
<1>5. ASSUME NEW d \in Channels, WorkerPanics(d) PROVE Pending(c, p)' \subseteq Pending(c, p)
  <2>1. CASE d = c
    <3>1. chan'[c] = <<>> /\ batch'[c] = <<>> /\ group'[c][p] = <<>>
      BY <1>5, <2>1 DEF WorkerPanics, TypeOK, NoRecords
    <3> QED BY <3>1, EmptyQueue DEF Pending
  <2>2. CASE d # c
    <3>1. chan'[c] = chan[c] /\ batch'[c] = batch[c] /\ group'[c] = group[c]
      BY <1>5, <2>2 DEF WorkerPanics, TypeOK
    <3> QED BY <3>1 DEF Pending
  <2> QED BY <2>1, <2>2
<1>6. ASSUME NEW d \in Channels, NEW r \in Partitions, ProduceRecords(d, r)
      PROVE  Pending(c, p)' \subseteq Pending(c, p)
  <2>1. chan' = chan /\ batch' = batch /\ (group'[c][p] = group[c][p] \/ group'[c][p] = <<>>)
    BY <1>6 DEF ProduceRecords, Unsent, TypeOK
  <2> QED BY <2>1, EmptyQueue DEF Pending
<1> QED
  BY <1>1, <1>2, <1>3, <1>4, <1>5, <1>6 DEF Next, vars, ReadRowsEvent, SourcePanics,
     SourceStops, WorkerExits, AwaitHandle, SampleChannels, MetricsServerOnly

(* A produce request leaves its partition alone or adds its group. *)
LEMMA LogChange ==
  ASSUME TypeOK, [Next]_vars, NEW p \in Partitions
  PROVE  \/ log'[p] = log[p]
         \/ \E c \in Channels : /\ ProduceRecords(c, p)
                                /\ log'[p] = log[p] \o group[c][p]
<1>1. CASE \E c \in Channels, r \in Partitions : ProduceRecords(c, r)
  <2>1. PICK c \in Channels, r \in Partitions : ProduceRecords(c, r)
    BY <1>1
  <2>2. CASE r = p
    BY <2>1, <2>2 DEF ProduceRecords, Unsent, TypeOK
  <2>3. CASE r # p
    BY <2>1, <2>3 DEF ProduceRecords, Unsent, TypeOK
  <2> QED BY <2>2, <2>3
<1>2. CASE UNCHANGED log
  BY <1>2
<1> QED
  BY <1>1, <1>2 DEF Next, vars, ReadRowsEvent, SendBinlogEvent, SourcePanics, SourceStops,
     RecvMany, MessageRecords, WorkerPanics, WorkerExits, AwaitHandle, SampleChannels,
     MetricsServerOnly

LEMMA LandedWereSent ==
  ASSUME TypeOK, NEW p \in Partitions
  PROVE  log[p] \in Seq(1 .. next - 1) /\ Range(log[p]) \subseteq 1 .. next - 1
<1>1. log[p] \in Seq(1 .. next - 1)
  BY DEF TypeOK
<1> QED BY <1>1, RangeOfSeq

(* The row at a sent position goes to one channel and to one partition. *)
LEMMA SentRowIsRouted ==
  ASSUME TypeOK, NEW s \in 1 .. next - 1
  PROVE  Route(binlog[s]) \in Channels /\ PartitionOf[Key(s)] \in Partitions
<1>1. binlog[s] \in RowChange
  BY ElementOfSeq DEF TypeOK
<1> QED BY <1>1, RoutesToChannel DEF Key

LEMMA LogsStep ==
  ASSUME TypeOK, TypeOK', [Next]_vars, AllQueues, AllLogs
  PROVE  AllLogs'
<1> SUFFICES ASSUME NEW p \in Partitions PROVE LogInv(p)'
  BY DEF AllLogs
<1>0. LogInv(p)
  BY DEF AllLogs
<1>1. \A s \in 1 .. next - 1 : binlog'[s] = binlog[s]
  BY HistoryIsStable DEF HistoryStable
<1>2. log[p] \in Seq(1 .. next - 1) /\ Range(log[p]) \subseteq 1 .. next - 1
      /\ next \in Nat /\ DOMAIN log[p] = 1 .. Len(log[p]) /\ Len(log[p]) \in Nat
  BY LandedWereSent, LenProperties DEF TypeOK
<1>3. \A t \in Range(log[p]) :
        /\ Route(binlog[t]) \in Channels
        /\ Route(binlog'[t]) = Route(binlog[t])
        /\ PartitionOf[Key(t)'] = p
        /\ t < next
  <2> SUFFICES ASSUME NEW t \in Range(log[p])
               PROVE  /\ Route(binlog[t]) \in Channels
                      /\ Route(binlog'[t]) = Route(binlog[t])
                      /\ PartitionOf[Key(t)'] = p
                      /\ t < next
    OBVIOUS
  <2>1. t \in 1 .. next - 1
    BY <1>2
  <2>2. binlog'[t] = binlog[t]
    BY <1>1, <2>1
  <2> QED BY <1>0, <1>2, <2>1, <2>2, SentRowIsRouted DEF LogInv, Key
(* What landed earlier stays older than what is on its way. *)
<1>4. \A t \in Range(log[p]), c \in Channels :
        Route(binlog'[t]) = c => Below({t}, Pending(c, p)')
  <2> SUFFICES ASSUME NEW t \in Range(log[p]), NEW c \in Channels, Route(binlog'[t]) = c
               PROVE  Below({t}, Pending(c, p)')
    OBVIOUS
  <2>1. Route(binlog[t]) = c /\ t < next
    BY <1>3
  <2>2. Pending(c, p)' \subseteq Pending(c, p) \cup {next}
    BY PendingGrowth
  <2>3. Below({t}, Pending(c, p))
    BY <1>0, <2>1 DEF LogInv
  <2> QED BY <2>1, <2>2, <2>3 DEF Below
<1>5. \A i \in DOMAIN log[p] : log[p][i] \in Range(log[p])
  BY DEF Range
<1>6. CASE log'[p] = log[p]
  <2>1. \A i, j \in DOMAIN log[p] :
          i < j /\ Route(binlog'[log[p][i]]) = Route(binlog'[log[p][j]]) => log[p][i] < log[p][j]
    BY <1>0, <1>3, <1>5 DEF LogInv
  <2>2. \A t \in Range(log'[p]) : PartitionOf[Key(t)'] = p
    BY <1>3, <1>6
  <2>3. \A t \in Range(log'[p]), c \in Channels :
          Route(binlog'[t]) = c => Below({t}, Pending(c, p)')
    BY <1>4, <1>6
  <2>4. \A i, j \in DOMAIN log'[p] :
          i < j /\ Route(binlog'[log'[p][i]]) = Route(binlog'[log'[p][j]]) => log'[p][i] < log'[p][j]
    BY <1>6, <2>1
  <2> QED BY <2>2, <2>3, <2>4 DEF LogInv, Route
<1>7. ASSUME NEW c \in Channels, ProduceRecords(c, p), log'[p] = log[p] \o group[c][p]
      PROVE  LogInv(p)'
  <2> DEFINE g == group[c][p]
             l == log[p]
  <2>1. /\ g \in Seq(1 .. next - 1) /\ Range(g) \subseteq 1 .. next - 1
        /\ DOMAIN g = 1 .. Len(g) /\ Len(g) \in Nat
    <3>1. g \in Seq(1 .. next - 1)
      BY DEF TypeOK
    <3> QED BY <3>1, RangeOfSeq, LenProperties
  <2>2. /\ binlog' = binlog /\ chan' = chan /\ batch' = batch
        /\ group'[c][p] = <<>>
    BY <1>7 DEF ProduceRecords, Unsent, TypeOK
  <2>3. /\ Increasing(g)
        /\ Below(Range(g), Range(batch[c])) /\ Below(Range(g), Range(chan[c]))
        /\ \A s \in Range(g) : Route(binlog[s]) = c /\ PartitionOf[Key(s)] = p
    BY DEF AllQueues, QueueInv, Held
  <2>4. /\ Range(l \o g) = Range(l) \cup Range(g)
        /\ Len(l \o g) = Len(l) + Len(g) /\ l \o g \in Seq(1 .. next - 1)
        /\ DOMAIN (l \o g) = 1 .. Len(l) + Len(g)
        /\ \A i \in 1 .. Len(l) + Len(g) : (l \o g)[i] = IF i <= Len(l) THEN l[i] ELSE g[i - Len(l)]
    <3> HIDE DEF l, g
    <3>1. l \in Seq(1 .. next - 1)
      BY <1>2 DEF l
    <3>2. Range(l \o g) = Range(l) \cup Range(g)
      BY <2>1, <3>1, RangeConcatenation
    <3>3. /\ l \o g \in Seq(1 .. next - 1)
          /\ Len(l \o g) = Len(l) + Len(g)
          /\ \A i \in 1 .. Len(l) + Len(g) : (l \o g)[i] = IF i <= Len(l) THEN l[i] ELSE g[i - Len(l)]
      BY <2>1, <3>1, ConcatProperties
    <3>4. DOMAIN (l \o g) = 1 .. Len(l) + Len(g)
      BY <3>3, LenProperties
    <3> QED BY <3>2, <3>3, <3>4
  <2>5. \A t \in Range(g) : Below({t}, Pending(c, p)')
    BY <2>2, <2>3, EmptyQueue DEF Pending, Below
  <2>6. \A t \in Range(l), s \in Range(g) : Route(binlog[t]) = c => t < s
    BY <1>0 DEF LogInv, Below, Pending
  <2>7. \A i \in DOMAIN g : g[i] \in Range(g)
    BY DEF Range
  <2> HIDE DEF g
  <2>8. ASSUME NEW i \in 1 .. Len(l) + Len(g), NEW j \in 1 .. Len(l) + Len(g), i < j,
               Route(binlog[(l \o g)[i]]) = Route(binlog[(l \o g)[j]])
        PROVE  (l \o g)[i] < (l \o g)[j]
    <3>1. CASE j <= Len(l)
      <4>1. i \in DOMAIN l /\ j \in DOMAIN l /\ (l \o g)[i] = l[i] /\ (l \o g)[j] = l[j]
        BY <1>2, <2>1, <2>4, <2>8, <3>1
      <4> QED BY <1>0, <2>8, <4>1 DEF LogInv
    <3>2. CASE i <= Len(l) /\ ~(j <= Len(l))
      <4>1. i \in DOMAIN l /\ j - Len(l) \in DOMAIN g
            /\ (l \o g)[i] = l[i] /\ (l \o g)[j] = g[j - Len(l)]
        BY <1>2, <2>1, <2>4, <2>8, <3>2
      <4>2. l[i] \in Range(l) /\ g[j - Len(l)] \in Range(g)
        BY <1>5, <2>7, <4>1
      <4>3. Route(binlog[l[i]]) = c
        BY <2>3, <2>8, <4>1, <4>2
      <4> QED BY <2>6, <4>1, <4>2, <4>3
    <3>3. CASE ~(i <= Len(l))
      <4>1. i - Len(l) \in DOMAIN g /\ j - Len(l) \in DOMAIN g /\ i - Len(l) < j - Len(l)
            /\ (l \o g)[i] = g[i - Len(l)] /\ (l \o g)[j] = g[j - Len(l)]
        BY <1>2, <2>1, <2>4, <2>8, <3>3
      <4> QED BY <2>3, <4>1 DEF Increasing
    <3> QED BY <3>1, <3>2, <3>3
  <2>9. \A t \in Range(l) \cup Range(g) : PartitionOf[Key(t)'] = p
    BY <1>3, <2>2, <2>3 DEF Key
  <2>10. \A t \in Range(l) \cup Range(g), d \in Channels :
           Route(binlog'[t]) = d => Below({t}, Pending(d, p)')
    <3>1. \A t \in Range(l), d \in Channels : Route(binlog'[t]) = d => Below({t}, Pending(d, p)')
      BY <1>4
    <3>2. \A t \in Range(g) : Route(binlog'[t]) = c /\ Below({t}, Pending(c, p)')
      BY <2>2, <2>3, <2>5
    <3> QED BY <3>1, <3>2
  <2>11. log'[p] = l \o g
    BY <1>7 DEF g
  <2> HIDE DEF l
  <2> QED BY <2>2, <2>4, <2>8, <2>9, <2>10, <2>11 DEF LogInv, Route
<1> QED BY <1>6, <1>7, LogChange

-----------------------------------------------------------------------------
(* Rows dropped by a panic: their worker is gone, and nothing of their key that
   is newer has been or will be written. *)
LostInv ==
  /\ \A s \in lost : worker[Route(binlog[s])] = "panicked"
  /\ PanicLosesSuffix

LEMMA LostStep ==
  ASSUME TypeOK, TypeOK', [Next]_vars, AllQueues, AllLogs, LostInv
  PROVE  LostInv'
<1>1. \A s \in 1 .. next - 1 : binlog'[s] = binlog[s]
  BY HistoryIsStable DEF HistoryStable
<1>2. lost \subseteq 1 .. next - 1 /\ Landed \subseteq 1 .. next - 1 /\ next \in Nat
  BY LandedWereSent DEF TypeOK, Landed
<1>3. \A t \in Landed : t < next
  BY <1>2
<1>4. \A s \in lost : Route(binlog'[s]) = Route(binlog[s]) /\ Route(binlog[s]) \in Channels
  <2> SUFFICES ASSUME NEW s \in lost
               PROVE  Route(binlog'[s]) = Route(binlog[s]) /\ Route(binlog[s]) \in Channels
    OBVIOUS
  <2>1. s \in 1 .. next - 1
    BY <1>2
  <2> QED BY <1>1, <2>1, SentRowIsRouted
<1>5. \A s \in lost \cup Landed : Key(s)' = Key(s)
  BY <1>1, <1>2 DEF Key
<1>6. \A s \in lost, t \in Landed : Key(s) = Key(t) => t < s
  BY DEF LostInv, PanicLosesSuffix
<1>7. CASE UNCHANGED <<lost, worker, log>>
  <2>1. Landed' = Landed
    BY <1>7 DEF Landed
  <2>2. \A s \in lost : worker'[Route(binlog'[s])] = "panicked"
    BY <1>4, <1>7 DEF LostInv
  <2> QED BY <1>5, <1>6, <1>7, <2>1, <2>2 DEF LostInv, PanicLosesSuffix, Route
<1>8. CASE SendBinlogEvent
  <2>1. /\ binlog' = binlog /\ worker' = worker /\ log' = log
        /\ lost' \subseteq lost \cup {next}
        /\ next \in lost' => next \in lost \/ worker[Route(binlog[next])] = "panicked"
    BY <1>8 DEF SendBinlogEvent, HasRoom
  <2>2. Landed' = Landed
    BY <2>1 DEF Landed
  <2>3. \A s \in lost' : worker'[Route(binlog'[s])] = "panicked"
    BY <2>1 DEF LostInv
  <2>4. \A s \in lost', t \in Landed' : Key(s)' = Key(t)' => t < s
    BY <1>3, <1>6, <2>1, <2>2 DEF Key
  <2> QED BY <2>3, <2>4 DEF LostInv, PanicLosesSuffix, Route
<1>9. ASSUME NEW c \in Channels, WorkerPanics(c) PROVE LostInv'
  <2>1. /\ binlog' = binlog /\ log' = log /\ lost' = lost \cup Held(c)
        /\ worker' = [worker EXCEPT ![c] = "panicked"]
    BY <1>9 DEF WorkerPanics
  <2>2. \A d \in Channels : worker[d] = "panicked" => worker'[d] = "panicked"
    BY <2>1 DEF TypeOK
  <2>3. worker'[c] = "panicked"
    BY <2>1 DEF TypeOK
  <2>4. \A s \in Held(c) : Route(binlog[s]) = c
    BY DEF AllQueues, QueueInv
  <2>5. \A s \in lost' : worker'[Route(binlog'[s])] = "panicked"
    BY <1>4, <2>1, <2>2, <2>3, <2>4 DEF LostInv
  <2>6. ASSUME NEW s \in Held(c), NEW t \in Landed, Key(s) = Key(t) PROVE t < s
    <3>1. PICK p \in Partitions : t \in Range(log[p])
      BY DEF Landed
    <3>2. PartitionOf[Key(t)] = p /\ Route(binlog[t]) = c
      BY <2>4, <2>6, <3>1 DEF AllLogs, LogInv, Route, Key
    <3>3. Below({t}, Pending(c, p))
      BY <3>1, <3>2 DEF AllLogs, LogInv
    <3>4. s \in Pending(c, p)
      <4>1. CASE s \in Range(chan[c]) \cup Range(batch[c])
        BY <4>1 DEF Pending
      <4>2. CASE \E r \in Partitions : s \in Range(group[c][r])
        <5>1. PICK r \in Partitions : s \in Range(group[c][r])
          BY <4>2
        <5>2. PartitionOf[Key(s)] = r
          BY <5>1 DEF AllQueues, QueueInv
        <5> QED BY <2>6, <3>2, <5>1, <5>2 DEF Pending
      <4> QED BY <4>1, <4>2 DEF Held
    <3> QED BY <3>3, <3>4 DEF Below
  <2>7. Landed' = Landed
    BY <2>1 DEF Landed
  <2>8. \A s \in lost', t \in Landed' : Key(s)' = Key(t)' => t < s
    BY <1>6, <2>1, <2>6, <2>7 DEF Key
  <2> QED BY <2>5, <2>8 DEF LostInv, PanicLosesSuffix, Route
<1>10. ASSUME NEW c \in Channels, NEW p \in Partitions, ProduceRecords(c, p) PROVE LostInv'
  <2>1. /\ binlog' = binlog /\ worker' = worker /\ lost' = lost /\ worker[c] = "running"
        /\ log' = log \/ log' = [log EXCEPT ![p] = @ \o group[c][p]]
    BY <1>10 DEF ProduceRecords, Unsent
  <2>2. \A t \in Range(group[c][p]) : Route(binlog[t]) = c
    BY DEF AllQueues, QueueInv, Held
  <2>3. Landed' \subseteq Landed \cup Range(group[c][p])
    <3>1. Range(log[p] \o group[c][p]) = Range(log[p]) \cup Range(group[c][p])
      <4>1. log[p] \in Seq(1 .. next - 1) /\ group[c][p] \in Seq(1 .. next - 1)
        BY DEF TypeOK
      <4> QED BY <4>1, RangeConcatenation
    <3>2. \A r \in Partitions : \/ log'[r] = log[r]
                                \/ r = p /\ log'[r] = log[p] \o group[c][p]
      BY <2>1 DEF TypeOK
    <3>3. \A r \in Partitions : Range(log'[r]) \subseteq Range(log[r]) \cup Range(group[c][p])
      BY <3>1, <3>2
    <3> QED BY <3>3 DEF Landed
  <2>4. \A s \in lost', t \in Landed' : Key(s)' = Key(t)' => t < s
    <3> SUFFICES ASSUME NEW s \in lost, NEW t \in Landed', Key(s) = Key(t) PROVE t < s
      BY <2>1 DEF Key
    <3>1. CASE t \in Landed
      BY <1>6, <3>1
    <3>2. CASE t \in Range(group[c][p])
      <4>1. Route(binlog[s]) = c
        BY <2>2, <3>2 DEF Route, Key
      <4> QED BY <2>1, <4>1 DEF LostInv
    <3> QED BY <2>3, <3>1, <3>2
  <2>5. \A s \in lost' : worker'[Route(binlog'[s])] = "panicked"
    BY <2>1 DEF LostInv
  <2> QED BY <2>4, <2>5 DEF LostInv, PanicLosesSuffix, Route
<1>11. ASSUME NEW c \in Channels, WorkerExits(c) PROVE LostInv'
  <2>1. /\ binlog' = binlog /\ log' = log /\ lost' = lost
        /\ \A d \in Channels : worker[d] = "panicked" => worker'[d] = "panicked"
    BY <1>11 DEF WorkerExits, TypeOK
  <2>2. Landed' = Landed
    BY <2>1 DEF Landed
  <2>3. \A s \in lost' : worker'[Route(binlog'[s])] = "panicked"
    BY <1>4, <2>1 DEF LostInv
  <2> QED BY <1>6, <2>1, <2>2, <2>3 DEF LostInv, PanicLosesSuffix, Route, Key
<1> QED
  BY <1>7, <1>8, <1>9, <1>10, <1>11 DEF Next, vars, ReadRowsEvent, SourcePanics, SourceStops,
     RecvMany, MessageRecords, AwaitHandle, SampleChannels, MetricsServerOnly

-----------------------------------------------------------------------------
(* The inductive invariant and its consequences. *)
IInv == AllQueues /\ AllLogs /\ LostInv

LEMMA InitIInv == Init => IInv
<1> SUFFICES ASSUME Init PROVE IInv
  OBVIOUS
<1>1. \A c \in Channels : /\ chan[c] = <<>> /\ batch[c] = <<>> /\ group[c] = NoRecords
                          /\ worker[c] = "running"
  BY DEF Init
<1>2. \A c \in Channels, p \in Partitions : group[c][p] = <<>>
  BY <1>1 DEF NoRecords
<1>3. AllQueues
  BY <1>1, <1>2, EmptyQueue DEF AllQueues, QueueInv, Below, Held
<1>4. \A p \in Partitions : log[p] = <<>> /\ DOMAIN log[p] = {}
  BY DEF Init
<1>5. AllLogs
  BY <1>4, EmptyQueue DEF AllLogs, LogInv
<1>6. LostInv
  BY DEF Init, LostInv, PanicLosesSuffix
<1> QED BY <1>3, <1>5, <1>6 DEF IInv

LEMMA Inductive == Spec => []IInv
<1>1. TypeOK /\ TypeOK' /\ IInv /\ [Next]_vars => IInv'
  BY QueuesStep, LogsStep, LostStep DEF IInv
<1> QED BY <1>1, InitIInv, TypeCorrect, PTL DEF Spec

(* Per-key write order, for every configuration and every interleaving. *)
THEOREM KeyOrderCorrect == Spec => []KeyOrder
<1>1. TypeOK /\ IInv => KeyOrder
  <2> SUFFICES ASSUME TypeOK, IInv, NEW p \in Partitions,
                      NEW i \in 1 .. Len(log[p]), NEW j \in 1 .. Len(log[p]),
                      i < j, Key(log[p][i]) = Key(log[p][j])
               PROVE  log[p][i] < log[p][j]
    BY DEF KeyOrder
  <2>1. i \in DOMAIN log[p] /\ j \in DOMAIN log[p]
    BY LandedWereSent, LenProperties
  <2> QED BY <2>1 DEF IInv, AllLogs, LogInv, Route, Key
<1> QED BY <1>1, Inductive, TypeCorrect, PTL

(* What a worker's panic costs a key is a suffix of its changes. *)
THEOREM PanicLosesSuffixCorrect == Spec => []PanicLosesSuffix
<1>1. IInv => PanicLosesSuffix
  BY DEF IInv, LostInv
<1> QED BY <1>1, Inductive, PTL

(* No row is written twice, nor still queued once it has been written. *)
THEOREM NoDuplicateCorrect == Spec => []NoDuplicate
<1>1. TypeOK /\ IInv => NoDuplicate
  <2> SUFFICES ASSUME TypeOK, IInv PROVE NoDuplicate
    OBVIOUS
  <2>1. ASSUME NEW p \in Partitions, NEW q \in Partitions,
               NEW i \in DOMAIN log[p], NEW j \in DOMAIN log[q], log[p][i] = log[q][j]
        PROVE  p = q /\ i = j
    <3>1. log[p][i] \in Range(log[p]) /\ log[q][j] \in Range(log[q])
      BY DEF Range
    <3>2. p = q
      BY <2>1, <3>1 DEF IInv, AllLogs, LogInv
    <3>3. log[p] \in Seq(1 .. next - 1) /\ DOMAIN log[p] = 1 .. Len(log[p]) /\ Len(log[p]) \in Nat
      BY LandedWereSent, LenProperties
    <3>4. i \in Nat /\ j \in Nat /\ log[p][i] \in Int
      BY <3>2, <3>3, ElementOfSeq DEF TypeOK
    <3>5. ~(i < j) /\ ~(j < i)
      BY <2>1, <3>2, <3>4 DEF IInv, AllLogs, LogInv
    <3> QED BY <3>2, <3>4, <3>5
  <2>2. ASSUME NEW c \in Channels, NEW t \in Held(c), t \in Landed PROVE FALSE
    <3>1. PICK p \in Partitions : t \in Range(log[p])
      BY <2>2 DEF Landed
    <3>2. Route(binlog[t]) = c
      BY DEF IInv, AllQueues, QueueInv
    <3>3. Below({t}, Pending(c, p)) /\ PartitionOf[Key(t)] = p
      BY <3>1, <3>2 DEF IInv, AllLogs, LogInv
    <3>4. t \in Pending(c, p)
      BY <3>3 DEF Held, Pending, IInv, AllQueues, QueueInv
    <3>5. t \in Int
      BY <3>1, LandedWereSent DEF TypeOK
    <3> QED BY <3>3, <3>4, <3>5 DEF Below
  <2> QED BY <2>1, <2>2 DEF NoDuplicate
<1> QED BY <1>1, Inductive, TypeCorrect, PTL

-----------------------------------------------------------------------------
(* Every row that was sent is accounted for. *)

(* What is written, counted as an error or dropped by a panic stays so. *)
LEMMA SettledStays ==
  ASSUME TypeOK, [Next]_vars
  PROVE  Settled \subseteq Settled'
<1>1. errored \subseteq errored' /\ lost \subseteq lost'
  BY DEF Next, vars, ReadRowsEvent, SendBinlogEvent, SourcePanics, SourceStops, RecvMany,
     MessageRecords, WorkerPanics, ProduceRecords, WorkerExits, AwaitHandle, SampleChannels,
     MetricsServerOnly
<1>2. ASSUME NEW p \in Partitions PROVE Range(log[p]) \subseteq Range(log'[p])
  <2>1. CASE log'[p] = log[p]
    BY <2>1
  <2>2. ASSUME NEW c \in Channels, log'[p] = log[p] \o group[c][p]
        PROVE  Range(log[p]) \subseteq Range(log'[p])
    <3>1. log[p] \in Seq(1 .. next - 1) /\ group[c][p] \in Seq(1 .. next - 1)
      BY DEF TypeOK
    <3> QED BY <2>2, <3>1, RangeConcatenation
  <2> QED BY <2>1, <2>2, LogChange
<1> QED BY <1>1, <1>2 DEF Settled, Landed

(* A row leaves its worker's hands only to be settled. *)
LEMMA HeldStaysOrSettles ==
  ASSUME TypeOK, [Next]_vars, AllQueues, NEW c \in Channels, NEW s \in Held(c)
  PROVE  s \in Settled' \/ s \in Held(c)'
<1>0. /\ chan[c] \in Seq(1 .. next - 1) /\ batch[c] \in Seq(1 .. next - 1)
      /\ \A p \in Partitions : group[c][p] \in Seq(1 .. next - 1)
      /\ 1 .. next - 1 \in SUBSET Int
  BY DEF TypeOK
<1>1. CASE chan'[c] = chan[c] /\ batch'[c] = batch[c] /\ group'[c] = group[c]
  BY <1>1 DEF Held
<1>2. CASE SendBinlogEvent
  <2>1. \/ chan'[c] = chan[c]
        \/ chan'[c] = Append(chan[c], next)
    BY <1>2 DEF SendBinlogEvent, TypeOK
  <2>2. Range(chan[c]) \subseteq Range(Append(chan[c], next))
    BY <1>0, AppendKeeps
  <2> QED BY <1>2, <2>1, <2>2 DEF SendBinlogEvent, Held
<1>3. CASE RecvMany(c)
  <2> DEFINE n == Smaller(BatchSize, Len(chan[c]))
             q == chan[c]
  <2>1. Increasing(q)
    BY DEF AllQueues, QueueInv
  <2>2. n \in 0 .. Len(q)
    BY <1>0, LenProperties, ConfigAssumption DEF Smaller
  <2> HIDE DEF n
  <2>3. /\ batch'[c] = SubSeq(q, 1, n) /\ chan'[c] = SubSeq(q, n + 1, Len(q))
        /\ group' = group /\ batch[c] = <<>>
    BY <1>3 DEF RecvMany, Remaining, TypeOK, Idle, n
  <2>4. q \in Seq(1 .. next - 1)
    BY <1>0
  <2> HIDE DEF q
  <2>5. Range(q) = Range(SubSeq(q, 1, n)) \cup Range(SubSeq(q, n + 1, Len(q)))
    BY <1>0, <2>1, <2>2, <2>4, PrefixIsOlder
  <2> QED BY <2>3, <2>5, EmptyQueue DEF Held, q
<1>4. CASE MessageRecords(c)
  <2> DEFINE h == Head(batch[c])
             r == PartitionOf[Key(h)]
  <2>1. batch[c] # <<>> /\ Increasing(batch[c])
    BY <1>4 DEF MessageRecords, AllQueues, QueueInv
  <2>2. Range(batch[c]) = {h} \cup Range(Tail(batch[c]))
    BY <1>0, <2>1, HeadIsOldest
  <2>3. h \in 1 .. next - 1
    BY <1>0, <2>1, HeadTailProperties
  <2>4. r \in Partitions
    BY <2>3, SentRowIsRouted
  <2>5. /\ chan' = chan /\ batch'[c] = Tail(batch[c])
        /\ group'[c] = [group[c] EXCEPT ![r] = Append(@, h)]
    BY <1>4 DEF MessageRecords, AddRecord, TypeOK, Key
  <2>6. group'[c][r] = Append(group[c][r], h)
        /\ \A p \in Partitions \ {r} : group'[c][p] = group[c][p]
    BY <2>4, <2>5 DEF TypeOK
  <2> HIDE DEF h, r
  <2>7. Range(group[c][r]) \cup {h} \subseteq Range(group'[c][r])
    BY <1>0, <2>4, <2>6, AppendKeeps
  <2>8. \A p \in Partitions : Range(group[c][p]) \subseteq Range(group'[c][p])
    BY <2>6, <2>7
  <2> QED BY <2>2, <2>4, <2>5, <2>7, <2>8 DEF Held
<1>5. CASE WorkerPanics(c)
  BY <1>5 DEF WorkerPanics, Settled
<1>6. ASSUME NEW p \in Partitions, ProduceRecords(c, p) PROVE s \in Settled' \/ s \in Held(c)'
  <2>1. /\ chan' = chan /\ batch' = batch
        /\ \A r \in Partitions \ {p} : group'[c][r] = group[c][r]
    BY <1>6 DEF ProduceRecords, TypeOK
  <2>2. CASE s \in Range(group[c][p])
    <3>1. \/ log'[p] = log[p] \o group[c][p]
          \/ Range(group[c][p]) \subseteq errored'
      BY <1>6 DEF ProduceRecords, TypeOK
    <3>2. Range(log[p] \o group[c][p]) = Range(log[p]) \cup Range(group[c][p])
      <4>1. log[p] \in Seq(1 .. next - 1)
        BY DEF TypeOK
      <4> QED BY <1>0, <4>1, RangeConcatenation
    <3> QED BY <2>2, <3>1, <3>2 DEF Settled, Landed
  <2>3. CASE s \notin Range(group[c][p])
    BY <2>1, <2>3 DEF Held
  <2> QED BY <2>2, <2>3
<1>7. ASSUME NEW d \in Channels \ {c},
             \/ RecvMany(d) \/ MessageRecords(d) \/ WorkerPanics(d)
             \/ \E p \in Partitions : ProduceRecords(d, p)
      PROVE  chan'[c] = chan[c] /\ batch'[c] = batch[c] /\ group'[c] = group[c]
  BY <1>7 DEF RecvMany, MessageRecords, WorkerPanics, ProduceRecords, TypeOK
<1>8. CASE UNCHANGED <<chan, batch, group>>
  BY <1>1, <1>8
<1> QED
  BY <1>1, <1>2, <1>3, <1>4, <1>5, <1>6, <1>7, <1>8 DEF Next, vars, ReadRowsEvent,
     SourcePanics, SourceStops, WorkerExits, AwaitHandle, SampleChannels, MetricsServerOnly

(* The row that is sent is queued, or its receiver is gone and it is lost. *)
LEMMA SentRowIsAccounted ==
  ASSUME TypeOK, SendBinlogEvent
  PROVE  next \in Settled' \/ \E c \in Channels : next \in Held(c)'
<1> DEFINE c == Route(binlog[next])
<1>1. c \in Channels
  <2>1. binlog[next] \in RowChange
    BY ElementOfSeq DEF SendBinlogEvent, TypeOK
  <2> QED BY <2>1, RoutesToChannel
<1>2. \/ chan' = [chan EXCEPT ![c] = Append(@, next)]
      \/ lost' = lost \cup {next}
  BY DEF SendBinlogEvent
<1> HIDE DEF c
<1>3. CASE chan' = [chan EXCEPT ![c] = Append(@, next)]
  <2>1. chan'[c] = Append(chan[c], next) /\ chan[c] \in Seq(1 .. next - 1)
    BY <1>1, <1>3 DEF TypeOK
  <2>2. next \in Range(chan'[c])
    BY <2>1, AppendKeeps
  <2> QED BY <1>1, <2>2 DEF Held
<1>4. CASE lost' = lost \cup {next}
  BY <1>4 DEF Settled
<1> QED BY <1>2, <1>3, <1>4

(* No row is lost without a trace: backpressure, batching, failing requests and
   panics of other workers included. *)
THEOREM NoSilentLossCorrect == Spec => []NoSilentLoss
<1>1. Init => NoSilentLoss
  BY DEF Init, NoSilentLoss
<1>2. TypeOK /\ IInv /\ NoSilentLoss /\ [Next]_vars => NoSilentLoss'
  <2> SUFFICES ASSUME TypeOK, IInv, NoSilentLoss, [Next]_vars, NEW s \in 1 .. next' - 1
               PROVE  s \in Settled' \/ \E c \in Channels : s \in Held(c)'
    BY DEF NoSilentLoss
  <2>1. next' = next \/ (SendBinlogEvent /\ next' = next + 1)
    <3>1. CASE SendBinlogEvent
      BY <3>1 DEF SendBinlogEvent
    <3>2. CASE ~SendBinlogEvent
      BY <3>2 DEF Next, vars, ReadRowsEvent, SourcePanics, SourceStops, RecvMany,
         MessageRecords, WorkerPanics, ProduceRecords, WorkerExits, AwaitHandle,
         SampleChannels, MetricsServerOnly
    <3> QED BY <3>1, <3>2
  <2>2. CASE s \in 1 .. next - 1
    BY <2>2, SettledStays, HeldStaysOrSettles DEF IInv, NoSilentLoss
  <2>3. CASE s \notin 1 .. next - 1
    <3>1. next \in Nat
      BY DEF TypeOK
    <3>2. SendBinlogEvent /\ s = next
      BY <2>1, <2>3, <3>1
    <3> QED BY <3>2, SentRowIsAccounted
  <2> QED BY <2>2, <2>3
<1> QED BY <1>1, <1>2, Inductive, TypeCorrect, PTL DEF Spec

-----------------------------------------------------------------------------
(* The orderly end: a worker leaves with nothing in its hands, after the source
   has sent all it read, and pipeline() returns after the last of them. *)
EndInv ==
  /\ pipe \in {"joining", "done"} => next = Len(binlog) + 1
  /\ \A c \in Channels : worker[c] = "exited" => pipe # "reading" /\ Idle(c) /\ chan[c] = <<>>
  /\ \A c \in Channels : c <= joined => worker[c] = "exited"
  /\ pipe = "done" => joined = Parallelism

LEMMA EndStep ==
  ASSUME TypeOK, EndInv, [Next]_vars
  PROVE  EndInv'
<1> USE DEF Idle, NoRecords
<1>1. CASE ReadRowsEvent \/ SendBinlogEvent \/ SourcePanics
  <2>1. /\ pipe = "reading" /\ pipe' \notin {"joining", "done"}
        /\ worker' = worker /\ joined' = joined
    BY <1>1 DEF ReadRowsEvent, SendBinlogEvent, SourcePanics
  <2> QED BY <2>1 DEF EndInv
<1>2. CASE SourceStops
  BY <1>2 DEF SourceStops, EndInv
<1>3. ASSUME NEW c \in Channels, worker[c] = "running",
             RecvMany(c) \/ MessageRecords(c) \/ WorkerPanics(c)
               \/ \E p \in Partitions : ProduceRecords(c, p)
      PROVE  EndInv'
  <2>1. /\ UNCHANGED <<binlog, next, pipe, joined>>
        /\ worker' = worker \/ worker' = [worker EXCEPT ![c] = "panicked"]
        /\ \A d \in Channels \ {c} : /\ chan'[d] = chan[d] /\ batch'[d] = batch[d]
                                     /\ group'[d] = group[d] /\ worker'[d] = worker[d]
    BY <1>3 DEF RecvMany, MessageRecords, WorkerPanics, ProduceRecords, TypeOK
  <2>2. worker'[c] # "exited"
    BY <1>3, <2>1 DEF TypeOK
  <2> QED BY <1>3, <2>1, <2>2 DEF EndInv
<1>4. ASSUME NEW c \in Channels, WorkerExits(c) PROVE EndInv'
  <2>1. /\ UNCHANGED <<binlog, next, chan, batch, group, pipe, joined>>
        /\ pipe # "reading" /\ Idle(c) /\ chan[c] = <<>>
        /\ \A d \in Channels \ {c} : worker'[d] = worker[d]
        /\ worker'[c] = "exited"
    BY <1>4 DEF WorkerExits, EndOfChannel, SendersDropped, TypeOK
  <2> QED BY <2>1 DEF EndInv
<1>5. CASE AwaitHandle
  <2>1. /\ UNCHANGED <<binlog, next, chan, batch, group, worker>>
        /\ pipe = "joining" /\ pipe' \in {"joining", "done", "panicked"}
    BY <1>5 DEF AwaitHandle
  <2>2. \/ joined' = joined /\ pipe' = "panicked"
        \/ /\ joined' = joined + 1 /\ worker[joined + 1] = "exited"
           /\ pipe' = "done" => joined' = Parallelism
    BY <1>5 DEF AwaitHandle, HandleReady
  <2>3. joined \in Nat /\ Channels \subseteq Int
    BY ConfigAssumption DEF TypeOK, Channels
  <2>4. \A c \in Channels : c <= joined + 1 => c <= joined \/ c = joined + 1
    BY <2>3
  <2> QED BY <2>1, <2>2, <2>4 DEF EndInv
<1>6. CASE UNCHANGED vars
  BY <1>6 DEF EndInv, vars
<1> QED
  BY <1>1, <1>2, <1>3, <1>4, <1>5, <1>6 DEF Next, RecvMany, MessageRecords, WorkerPanics,
     ProduceRecords, SampleChannels, MetricsServerOnly

(* When pipeline() returns, every row that was read has been written or had its
   error counted. *)
THEOREM DoneMeansDrainedCorrect == Spec => []DoneMeansDrained
<1>1. Init => EndInv
  BY ConfigAssumption DEF Init, EndInv, Channels
<1>2. Spec => []EndInv
  BY <1>1, EndStep, TypeCorrect, PTL DEF Spec
<1>3. TypeOK /\ IInv /\ EndInv /\ NoSilentLoss => DoneMeansDrained
  <2> SUFFICES ASSUME TypeOK, IInv, EndInv, NoSilentLoss, pipe = "done",
                      NEW s \in 1 .. Len(binlog)
               PROVE  s \in Landed \cup errored
    BY DEF DoneMeansDrained
  <2>1. s \in 1 .. next - 1
    <3>1. next = Len(binlog) + 1
      BY DEF EndInv
    <3>2. Len(binlog) \in Nat
      BY LenProperties DEF TypeOK
    <3> QED BY <3>1, <3>2
  <2>2. \A c \in Channels : worker[c] = "exited"
    BY ConfigAssumption DEF EndInv, Channels
  <2>3. \A c \in Channels : Held(c) = {}
    BY <2>2, EmptyQueue DEF EndInv, Idle, NoRecords, Held
  <2>4. s \notin lost
    <3>1. Route(binlog[s]) \in Channels
      BY <2>1, SentRowIsRouted
    <3> QED BY <2>2, <3>1 DEF IInv, LostInv
  <2> QED BY <2>1, <2>3, <2>4 DEF NoSilentLoss, Settled
<1> QED BY <1>2, <1>3, Inductive, TypeCorrect, NoSilentLossCorrect, PTL

-----------------------------------------------------------------------------
(* The refinement of KeyedDelivery. *)

(* An event that is read extends the source of the abstract specification. *)
LEMMA ReadRefines ==
  ASSUME TypeOK, ReadRowsEvent
  PROVE  Delivery!Read
<1>0. PICK n \in 1 .. EventRows : \E rows \in [1 .. n -> RowChanges] : binlog' = binlog \o rows
  BY DEF ReadRowsEvent
<1>1. PICK rows \in [1 .. n -> RowChanges] : binlog' = binlog \o rows
  BY <1>0
<1>2. n \in Nat \ {0} /\ RowChanges \subseteq RowChange
  BY ConfigAssumption
<1>3. rows \in Seq(RowChange) /\ Len(rows) = n
  <2>1. rows \in [1 .. n -> RowChange]
    BY <1>2
  <2> QED BY <1>2, <2>1
<1>4. binlog \in Seq(RowChange) /\ Len(binlog) \in Nat
  BY LenProperties DEF TypeOK
<1>5. /\ Len(binlog') = Len(binlog) + Len(rows)
      /\ \A i \in 1 .. Len(binlog) + Len(rows) :
           binlog'[i] = IF i <= Len(binlog) THEN binlog[i] ELSE rows[i - Len(binlog)]
  BY <1>1, <1>3, <1>4, ConcatProperties
<1>6. Delivery!Extends(binlog', binlog)
  BY <1>2, <1>3, <1>4, <1>5 DEF Delivery!Extends
<1> QED BY <1>6 DEF Delivery!Read, ReadRowsEvent

LEMMA LongerByConcat ==
  ASSUME NEW S, NEW l \in Seq(S), NEW g \in Seq(S), g # <<>>
  PROVE  /\ l \o g \in Seq(S)
         /\ Len(l) \in Nat /\ Len(l \o g) \in Nat /\ Len(l \o g) > Len(l)
         /\ \A i \in 1 .. Len(l) : (l \o g)[i] = l[i]
<1>1. Len(l) \in Nat /\ Len(g) \in Nat \ {0}
  BY LenProperties, EmptySeq
<1>2. /\ l \o g \in Seq(S)
      /\ Len(l \o g) = Len(l) + Len(g)
      /\ \A i \in 1 .. Len(l) + Len(g) : (l \o g)[i] = IF i <= Len(l) THEN l[i] ELSE g[i - Len(l)]
  BY ConcatProperties
<1> QED BY <1>1, <1>2

(* A produce request delivers its group, or changes nothing of the log. *)
LEMMA ProduceRefines ==
  ASSUME TypeOK, TypeOK', IInv', NEW c \in Channels, NEW p \in Partitions, ProduceRecords(c, p)
  PROVE  Delivery!Deliver(p) \/ UNCHANGED <<binlog, log>>
<1>1. /\ binlog' = binlog /\ next' = next
      /\ log' = log \/ log' = [log EXCEPT ![p] = @ \o group[c][p]]
  BY DEF ProduceRecords
<1>2. SUFFICES ASSUME log' = [log EXCEPT ![p] = @ \o group[c][p]] PROVE Delivery!Deliver(p)
  BY <1>1
<1>3. log'[p] = log[p] \o group[c][p] /\ log' = [log EXCEPT ![p] = log'[p]]
  BY <1>2 DEF TypeOK
<1>4. log[p] \in Seq(1 .. next - 1) /\ group[c][p] \in Seq(1 .. next - 1) /\ group[c][p] # <<>>
  BY DEF TypeOK, ProduceRecords
<1>5. /\ log'[p] \in Seq(1 .. next - 1)
      /\ Len(log[p]) \in Nat /\ Len(log'[p]) \in Nat /\ Len(log'[p]) > Len(log[p])
      /\ \A i \in 1 .. Len(log[p]) : log'[p][i] = log[p][i]
  <2> DEFINE l == log[p]
             g == group[c][p]
             S == 1 .. next - 1
  <2>1. l \in Seq(S) /\ g \in Seq(S) /\ g # <<>>
    BY <1>4
  <2> HIDE DEF l, g, S
  <2>2. /\ l \o g \in Seq(S)
        /\ Len(l) \in Nat /\ Len(l \o g) \in Nat /\ Len(l \o g) > Len(l)
        /\ \A i \in 1 .. Len(l) : (l \o g)[i] = l[i]
    BY <2>1, LongerByConcat
  <2> QED BY <1>3, <2>2 DEF l, g, S
<1>6. Delivery!Extends(log'[p], log[p])
  BY <1>5 DEF Delivery!Extends
<1>7. ASSUME NEW i \in Len(log[p]) + 1 .. Len(log'[p])
      PROVE  /\ log'[p][i] \in 1 .. Len(binlog)
             /\ PartitionOf[binlog[log'[p][i]].key] = p
             /\ \A j \in 1 .. i - 1 :
                  binlog[log'[p][j]].key = binlog[log'[p][i]].key => log'[p][j] < log'[p][i]
  <2>1. DOMAIN log'[p] = 1 .. Len(log'[p]) /\ i \in DOMAIN log'[p]
    BY <1>4, <1>5, LenProperties
  <2>2. log'[p][i] \in 1 .. next - 1
    <3> DEFINE q == log'[p]
               S == 1 .. next - 1
    <3>1. q \in Seq(S) /\ i \in 1 .. Len(q)
      BY <1>5, <2>1
    <3> HIDE DEF q, S
    <3>2. q[i] \in S
      BY <3>1, ElementOfSeq
    <3> QED BY <3>2 DEF q, S
  <2>3. next \in 1 .. Len(binlog) + 1 /\ Len(binlog) \in Nat
    BY LenProperties DEF TypeOK
  <2>4. log'[p][i] \in 1 .. Len(binlog)
    BY <2>2, <2>3
  <2>5. LogInv(p)'
    BY DEF IInv, AllLogs
  <2>6. PartitionOf[binlog[log'[p][i]].key] = p
    BY <1>1, <2>1, <2>5 DEF LogInv, Key, Range
  <2>7. \A j \in 1 .. i - 1 : j \in DOMAIN log'[p] /\ j < i
    BY <1>5, <2>1
  <2>8. \A j \in 1 .. i - 1 :
          binlog[log'[p][j]].key = binlog[log'[p][i]].key => log'[p][j] < log'[p][i]
    BY <1>1, <2>1, <2>5, <2>7 DEF LogInv, Route
  <2> QED BY <2>4, <2>6, <2>8
<1> QED BY <1>1, <1>3, <1>6, <1>7 DEF Delivery!Deliver

(* The pipeline implements ordered, at most once delivery per key: each of its
   steps is a read, a delivery or nothing to a consumer. *)
THEOREM Refinement == Spec => ImplementsDelivery
<1>1. Init => Delivery!Init
  BY DEF Init, Delivery!Init
<1>2. TypeOK /\ TypeOK' /\ IInv' /\ [Next]_vars => [Delivery!Next]_<<binlog, log>>
  <2> SUFFICES ASSUME TypeOK, TypeOK', IInv', [Next]_vars
               PROVE  Delivery!Next \/ UNCHANGED <<binlog, log>>
    OBVIOUS
  <2>1. CASE ReadRowsEvent
    BY <2>1, ReadRefines DEF Delivery!Next
  <2>2. ASSUME NEW c \in Channels, NEW p \in Partitions, ProduceRecords(c, p)
        PROVE  Delivery!Next \/ UNCHANGED <<binlog, log>>
    BY <2>2, ProduceRefines DEF Delivery!Next
  <2> QED
    BY <2>1, <2>2 DEF Next, vars, SendBinlogEvent, SourcePanics, SourceStops, RecvMany,
       MessageRecords, WorkerPanics, WorkerExits, AwaitHandle, SampleChannels, MetricsServerOnly
<1> QED
  BY <1>1, <1>2, Inductive, TypeCorrect, PTL DEF Spec, ImplementsDelivery, Delivery!Spec
=============================================================================
