-------------------------- MODULE MysqlApply_proofs --------------------------
(***************************************************************************)
(* Proofs about MysqlApply, for every set of keys, columns and partitions, *)
(* every number of records, ALTERs and kills, and both kinds of producer   *)
(* unless a theorem says otherwise.                                        *)
(***************************************************************************)
EXTENDS MysqlApply, SequenceTheorems, TLAPS

InHand(p, i) == status = "processing" /\ partition = p /\ position[p] = i

-----------------------------------------------------------------------------
(* Strengthened types. *)

(* The keys a record names, and the partition it is in. *)
RecordPlaced(p, r) ==
  /\ r.op = "c" => r.to \in Keys /\ PartitionOf[r.to] = p
  /\ r.op = "u" => r.to \in Keys /\ r.from \in Keys /\ PartitionOf[r.from] = p
  /\ r.op = "d" /\ r.from # Absent => r.from \in Keys

RecordsPlaced == \A p \in Partitions : \A i \in 1 .. Len(topic[p]) : RecordPlaced(p, topic[p][i])

(* While a record is processed, there is one. *)
RecordExists == status = "processing" => position[partition] \in 1 .. Len(topic[partition])

TypeInv == TypeOK /\ RecordsPlaced /\ RecordExists

-----------------------------------------------------------------------------
(* Each record that was handed out was attempted, or is in hand. *)
HandedOutAttempted ==
  \A p \in Partitions : \A i \in 1 .. position[p] : outcome[p][i].how # "new" \/ InHand(p, i)

-----------------------------------------------------------------------------
(* The cache is the columns of the replica, or a former state of them: a column
   it lacks was not written since. *)
UnknownIsDefault ==
  \A m \in cache : \A k \in Keys, c \in Columns \ m :
    replica[k] # Absent => replica[k][c] = Default

(* What the attempt at a record left in a row. *)
Decided(p, i, k) ==
  IF topic[p][i].op = "d" THEN replica[k] = Absent
                          ELSE replica[k] = Inserted(topic[p][i], outcome[p][i].meta)

(* From the attempt at a row's last record on, the row is what it left. *)
LastDecides ==
  \A p \in Partitions : \A i \in 1 .. Len(topic[p]), k \in Keys :
    LastTouching(p, i, k) /\ i <= position[p] /\ ~InHand(p, i) /\ outcome[p][i].how = "applied"
      => Decided(p, i, k)

DecidedInv == TypeInv /\ UnknownIsDefault /\ LastDecides

-----------------------------------------------------------------------------
(* No record moves the row k away, or here from another partition. *)
StaysPut(k) ==
  \A p \in Partitions : \A i \in 1 .. Len(topic[p]) :
    ~MovesFrom(topic[p][i], k) /\ ~MovesAcross(topic[p][i], k)

Writes(p, i, k) == topic[p][i].op \in Upsert /\ topic[p][i].to = k

(* What deletes a row of the source is recorded behind what wrote it. *)
DeletesRecorded ==
  \A k \in Keys : StaysPut(k) /\ table[k] = Absent =>
    \A i \in 1 .. Len(topic[PartitionOf[k]]) : Writes(PartitionOf[k], i, k) =>
      \E j \in i + 1 .. Len(topic[PartitionOf[k]]) : Deletes(topic[PartitionOf[k]][j], k)

(* A delete of k that does not show in the replica is yet to come or failed. *)
Ineffective(p, j) == j > position[p] \/ InHand(p, j) \/ outcome[p][j].how = "skipped"

(* A row is there because one of its records wrote it, and no delete behind
   that record has succeeded. *)
RowsWritten ==
  \A k \in Keys : StaysPut(k) /\ replica[k] # Absent =>
    \E i \in 1 .. Len(topic[PartitionOf[k]]) :
      /\ Writes(PartitionOf[k], i, k)
      /\ \A j \in i + 1 .. Len(topic[PartitionOf[k]]) :
           Deletes(topic[PartitionOf[k]][j], k) => Ineffective(PartitionOf[k], j)

LeftInv == TypeInv /\ DeletesRecorded /\ RowsWritten

-----------------------------------------------------------------------------
(* What the last record that names a row tells of it is so in the source, but
   for columns that were dropped since. *)
SourceSays(p, i, k) ==
  IF topic[p][i].op = "d"
    THEN table[k] = Absent
    ELSE /\ table[k] # Absent
         /\ \A c \in Columns :
              table[k][c] = topic[p][i].content[c] \/ (alters > 0 /\ table[k][c] = Default)

SourceFollows ==
  \A p \in Partitions : \A i \in 1 .. Len(topic[p]), k \in Keys :
    LastNaming(p, i, k) /\ Settles(topic[p][i], k) => SourceSays(p, i, k)

-----------------------------------------------------------------------------
(* The steps, put in four groups. *)

(* The record tells all that becomes of the source. *)
Recorded(r) ==
  \A k \in Keys :
    /\ ~Names(r, k) => table'[k] = table[k]
    /\ Settles(r, k) => table'[k] = IF r.op = "d" THEN Absent ELSE r.content

(* A record is written to the topic. *)
Appends(p, r) ==
  /\ AppendRecord(p, r)
  /\ r \in Records
  /\ RecordPlaced(p, r)
  /\ table' \in [Keys -> SourceContents \cup {Absent}]
  /\ \A k \in Keys : table'[k] = Absent =>
       \/ table[k] = Absent /\ ~(r.op \in Upsert /\ r.to = k)
       \/ MovesFrom(r, k)
       \/ Deletes(r, k) /\ p = PartitionOf[k]
       \/ OwnProducer
  /\ OwnProducer \/ Recorded(r)

(* The attempt at the record in hand ends: by itself or with the process. *)
AttemptEnds(how) ==
  /\ status = "processing"
  /\ status' \in {"polling", "stopped", "down"}
  /\ UNCHANGED <<table, columns, topic, alters, position, committed, partition>>
  /\ Finish(how)
  /\ kills' \in kills .. MaxKills
  /\ cache' \in {cache, {Meta}}
  /\ \/ how = Skipped /\ replica' = replica
     \/ /\ Recognized(Record.op)
        /\ ~Refused(Record, Meta)
        /\ replica' = Applied(Record, Meta)
        /\ how \in {Skipped, [how |-> "applied", meta |-> Meta]}

(* Nothing becomes of any record. *)
Quiet ==
  /\ UNCHANGED <<table, columns, topic, alters, replica, outcome>>
  /\ \/ StartConsumer
     \/ \E p \in Partitions : Poll(p)
     \/ StreamFails
     \/ AutoCommit
     \/ Kill /\ status # "processing"
     \/ UNCHANGED vars

(* What is known of the types, without the domains of sequences. *)
LEMMA Typed ==
  ASSUME TypeInv
  PROVE  /\ topic \in [Partitions -> Seq(Records)]
         /\ outcome \in [Partitions -> Seq(Outcomes)]
         /\ position \in [Partitions -> Nat] /\ committed \in [Partitions -> Nat]
         /\ \A p \in Partitions :
              /\ Len(topic[p]) \in Nat /\ Len(outcome[p]) = Len(topic[p])
              /\ DOMAIN topic[p] = 1 .. Len(topic[p]) /\ DOMAIN outcome[p] = 1 .. Len(topic[p])
              /\ position[p] \in 0 .. Len(topic[p]) /\ committed[p] \in 0 .. position[p]
         /\ \A p \in Partitions : \A i \in 1 .. Len(topic[p]) :
              /\ topic[p][i] \in Records
              /\ outcome[p][i] \in Outcomes
         /\ partition \in Partitions
         /\ kills \in Nat /\ kills <= MaxKills /\ MaxKills \in Nat
<1>1. /\ topic \in [Partitions -> Seq(Records)]
      /\ outcome \in [Partitions -> Seq(Outcomes)]
      /\ position \in [Partitions -> Nat] /\ committed \in [Partitions -> Nat]
      /\ \A p \in Partitions : position[p] \in 0 .. Len(topic[p])
                               /\ committed[p] \in 0 .. position[p]
                               /\ Len(outcome[p]) = Len(topic[p])
      /\ partition \in Partitions /\ kills \in 0 .. MaxKills
  BY DEF TypeInv, TypeOK
<1>2. \A p \in Partitions : Len(topic[p]) \in Nat /\ DOMAIN topic[p] = 1 .. Len(topic[p])
  BY <1>1, LenProperties
<1>3. \A p \in Partitions : DOMAIN outcome[p] = 1 .. Len(topic[p])
  BY <1>1, LenProperties
<1>4. \A p \in Partitions : \A i \in 1 .. Len(topic[p]) :
        topic[p][i] \in Records /\ outcome[p][i] \in Outcomes
  BY <1>1, ElementOfSeq
<1>5. kills \in Nat /\ kills <= MaxKills /\ MaxKills \in Nat
  BY <1>1, ApplyAssumption
<1> QED BY <1>1, <1>2, <1>3, <1>4, <1>5

(* The record in hand, and the columns it is applied with. *)
LEMMA RecordTyped ==
  ASSUME TypeInv, status = "processing"
  PROVE  /\ position[partition] \in 1 .. Len(topic[partition])
         /\ Record \in Records
         /\ Record.op \in Upsert => Record.to \in Keys
<1>1. partition \in Partitions /\ position[partition] \in 1 .. Len(topic[partition])
  BY Typed DEF TypeInv, RecordExists
<1>2. Record \in Records
  BY <1>1, Typed DEF Record
<1>3. RecordPlaced(partition, Record)
  BY <1>1 DEF TypeInv, RecordsPlaced, Record
<1> QED BY <1>1, <1>2, <1>3 DEF RecordPlaced, Upsert

(* An attempt works with a set of columns; the cache holds that set or nothing. *)
LEMMA MetaTyped == ASSUME TypeInv PROVE Meta \in SUBSET Columns /\ (cache # {} => cache = {Meta})
<1>1. CASE cache = {}
  BY <1>1 DEF Meta, Described, TypeInv, TypeOK
<1>2. CASE \E m \in SUBSET Columns : cache = {m}
  <2>1. PICK m \in SUBSET Columns : cache = {m}
    BY <1>2
  <2>2. Meta = m
    BY <2>1 DEF Meta
  <2> QED BY <2>1, <2>2
<1> QED BY <1>1, <1>2 DEF TypeInv, TypeOK

(* Every step is of one of the groups. *)
LEMMA Steps ==
  ASSUME TypeInv, [Next]_vars
  PROVE  \/ \E p \in Partitions, r \in Records : Appends(p, r)
         \/ \E t \in {"source", "replica"}, c \in Columns : AlterTable(t, c)
         \/ \E how \in {Skipped, [how |-> "applied", meta |-> Meta]} : AttemptEnds(how)
         \/ Quiet
<1> USE ApplyAssumption
<1>1. /\ table \in [Keys -> SourceContents \cup {Absent}]
      /\ columns["source"] \in SUBSET Columns
      /\ SourceContents \subseteq Contents
      /\ Default \in Values
      /\ Absent \notin SourceContents
  BY DEF TypeInv, TypeOK, SourceContents, Contents
<1>2. ASSUME NEW k \in Keys, NEW content \in SourceContents, InsertRow(k, content)
      PROVE  \E p \in Partitions, r \in Records : Appends(p, r)
  <2> DEFINE r == Change("c", Absent, k, content)
  <2>1. r \in Records /\ r.op = "c" /\ r.to = k
    BY <1>1 DEF Change, Records, Upsert
  <2>3. table' \in [Keys -> SourceContents \cup {Absent}]
    BY <1>1, <1>2 DEF InsertRow
  <2>4. PartitionOf[k] \in Partitions /\ RecordPlaced(PartitionOf[k], r)
    BY <2>1 DEF RecordPlaced
  <2> HIDE DEF r
  <2>5. AppendRecord(PartitionOf[k], r)
    BY <1>2 DEF InsertRow, r
  <2>6. \A l \in Keys : table'[l] = Absent => table[l] = Absent /\ r.to # l
    BY <1>1, <1>2, <2>1 DEF InsertRow
  <2>7. Recorded(r)
    <3>1. r.op = "c" /\ r.to = k /\ r.content = content
      BY DEF r, Change
    <3> QED BY <1>1, <1>2, <3>1 DEF InsertRow, Recorded, Names, Touches, Settles, Upsert
  <2> QED BY <2>1, <2>3, <2>4, <2>5, <2>6, <2>7 DEF Appends
<1>3. ASSUME NEW k \in Keys, NEW to \in Keys, NEW content \in SourceContents,
             UpdateRow(k, to, content)
      PROVE  \E p \in Partitions, r \in Records : Appends(p, r)
  <2> DEFINE r == Change("u", k, to, content)
  <2>1. r \in Records /\ r.op = "u" /\ r.to = to /\ r.from = k
    BY <1>1 DEF Change, Records, Upsert
  <2>2. table' \in [Keys -> SourceContents \cup {Absent}]
    BY <1>1, <1>3 DEF UpdateRow
  <2>3. PartitionOf[k] \in Partitions /\ RecordPlaced(PartitionOf[k], r)
    BY <2>1 DEF RecordPlaced
  <2> HIDE DEF r
  <2>4. AppendRecord(PartitionOf[k], r)
    BY <1>3 DEF UpdateRow, r
  <2>5. \A l \in Keys : table'[l] = Absent =>
          MovesFrom(r, l) \/ (table[l] = Absent /\ r.to # l)
    BY <1>1, <1>3, <2>1 DEF UpdateRow, MovesFrom
  <2>6. Recorded(r)
    <3>1. r.op = "u" /\ r.from = k /\ r.to = to /\ r.content = content
      BY DEF r, Change
    <3> QED BY <1>1, <1>3, <3>1 DEF UpdateRow, Recorded, Names, Touches, Settles, Upsert
  <2> QED BY <2>1, <2>2, <2>3, <2>4, <2>5, <2>6 DEF Appends
<1>4. ASSUME NEW k \in Keys, DeleteRow(k)
      PROVE  \E p \in Partitions, r \in Records : Appends(p, r)
  <2> DEFINE r == IF OwnProducer THEN Change("c", Absent, k, table[k])
                                 ELSE Change("d", k, Absent, table[k])
  <2>1. table[k] \in Contents
    BY <1>1, <1>4 DEF DeleteRow
  <2>2. r \in Records /\ RecordPlaced(PartitionOf[k], r)
    BY <1>1, <2>1 DEF Change, Records, Upsert, RecordPlaced
  <2>3. table' \in [Keys -> SourceContents \cup {Absent}]
    BY <1>1, <1>4 DEF DeleteRow
  <2>4. PartitionOf[k] \in Partitions
    OBVIOUS
  <2>5. AppendRecord(PartitionOf[k], r)
    BY <1>4 DEF DeleteRow
  <2>6. ASSUME NEW l \in Keys, table'[l] = Absent, ~OwnProducer
        PROVE  \/ table[l] = Absent /\ r.op \notin Upsert
               \/ Deletes(r, l) /\ l = k
    <3>1. r.op = "d" /\ r.from = k
      BY <2>6 DEF Change
    <3>2. l = k \/ table[l] = Absent
      BY <1>1, <1>4, <2>6 DEF DeleteRow
    <3> QED BY <3>1, <3>2 DEF Deletes, Deleted, Upsert
  <2>7. ASSUME ~OwnProducer PROVE Recorded(r)
    <3>1. r.op = "d" /\ r.from = k
      BY <2>7 DEF Change
    <3>2. \A l \in Keys : table'[l] = IF l = k THEN Absent ELSE table[l]
      BY <1>1, <1>4 DEF DeleteRow
    <3> HIDE DEF r
    <3> QED BY <3>1, <3>2 DEF Recorded, Names, Touches, Settles, Upsert
  <2> HIDE DEF r
  <2> QED BY <2>2, <2>3, <2>4, <2>5, <2>6, <2>7 DEF Appends
<1>5. ASSUME NEW p \in Partitions, ForeignRecord(p)
      PROVE  \E q \in Partitions, r \in Records : Appends(q, r)
  <2> DEFINE default == [c \in Columns |-> Default]
  <2>1. PICK op \in {"t", "d"} : AppendRecord(p, Change(op, Absent, Absent, default))
    BY <1>5 DEF ForeignRecord
  <2> DEFINE r == Change(op, Absent, Absent, default)
  <2>2. default \in Contents
    BY <1>1 DEF Contents
  <2> HIDE DEF default
  <2>3. r \in Records /\ RecordPlaced(p, r)
    BY <1>1, <2>2 DEF Change, Records, Upsert, RecordPlaced
  <2>4. table' \in [Keys -> SourceContents \cup {Absent}]
    BY <1>1, <1>5 DEF ForeignRecord
  <2> HIDE DEF r
  <2>5. AppendRecord(p, r)
    BY <2>1 DEF r
  <2>6. r.op \notin Upsert /\ UNCHANGED table
    BY <1>5 DEF r, Change, Upsert, ForeignRecord
  <2>7. r.from = Absent
    BY DEF r, Change
  <2>8. Recorded(r)
    BY <1>1, <2>6, <2>7, ApplyAssumption DEF Recorded, Settles
  <2> QED BY <2>3, <2>4, <2>5, <2>6, <2>8 DEF Appends
<1>6. ASSUME ProcessRecord \/ SkipRecord \/ DescPanics \/ (Kill /\ status = "processing")
      PROVE  \E how \in {Skipped, [how |-> "applied", meta |-> Meta]} : AttemptEnds(how)
  <2>1. kills \in Nat /\ MaxKills \in Nat /\ kills <= MaxKills
    BY Typed
  <2>2. CASE ProcessRecord
    <3>1. kills' \in kills .. MaxKills
      BY <2>1, <2>2 DEF ProcessRecord
    <3>2. CASE Finish(Skipped)
      <4>1. AttemptEnds(Skipped)
        BY <2>2, <3>1, <3>2 DEF ProcessRecord, AttemptEnds, external
      <4> QED BY <4>1
    <3>3. CASE Finish([how |-> "applied", meta |-> Meta]) /\ ~Refused(Record, Meta)
               /\ replica' = Applied(Record, Meta)
      <4>1. AttemptEnds([how |-> "applied", meta |-> Meta])
        BY <2>2, <3>1, <3>3 DEF ProcessRecord, AttemptEnds, external
      <4> QED BY <4>1
    <3> QED BY <2>2, <3>2, <3>3 DEF ProcessRecord
  <2>3. CASE SkipRecord \/ DescPanics
    <3>1. AttemptEnds(Skipped)
      BY <2>1, <2>3 DEF SkipRecord, DescPanics, AttemptEnds, external
    <3> QED BY <3>1
  <2>4. CASE Kill /\ status = "processing"
    <3>1. kills' \in kills .. MaxKills
      BY <2>1, <2>4 DEF Kill
    <3>2. AttemptEnds(Skipped)
      BY <2>4, <3>1 DEF Kill, AttemptEnds, external
    <3> QED BY <3>2
  <2> QED BY <1>6, <2>2, <2>3, <2>4
<1>7. ASSUME \/ StartConsumer \/ (\E p \in Partitions : Poll(p)) \/ StreamFails \/ AutoCommit
             \/ (Kill /\ status # "processing") \/ UNCHANGED vars
      PROVE  Quiet
  BY <1>7 DEF Quiet, StartConsumer, Poll, StreamFails, AutoCommit, Kill, vars, external
<1> QED BY <1>2, <1>3, <1>4, <1>5, <1>6, <1>7 DEF Next

-----------------------------------------------------------------------------
(* What a step of a group does to the topic and to the outcomes. *)

(* One record more in one partition. *)
LEMMA Appended ==
  ASSUME TypeInv, NEW p \in Partitions, NEW r \in Records, AppendRecord(p, r)
  PROVE  /\ topic' \in [Partitions -> Seq(Records)]
         /\ outcome' \in [Partitions -> Seq(Outcomes)]
         /\ \A q \in Partitions \ {p} : topic'[q] = topic[q] /\ outcome'[q] = outcome[q]
         /\ Len(topic'[p]) = Len(topic[p]) + 1 /\ Len(outcome'[p]) = Len(topic[p]) + 1
         /\ \A q \in Partitions : \A i \in 1 .. Len(topic[q]) :
              i \in 1 .. Len(topic'[q]) /\ topic'[q][i] = topic[q][i] /\ outcome'[q][i] = outcome[q][i]
         /\ topic'[p][Len(topic[p]) + 1] = r
         /\ outcome'[p][Len(topic[p]) + 1] = New
<1>1. /\ topic[p] \in Seq(Records) /\ outcome[p] \in Seq(Outcomes)
      /\ Len(topic[p]) \in Nat /\ Len(outcome[p]) = Len(topic[p])
      /\ topic \in [Partitions -> Seq(Records)] /\ outcome \in [Partitions -> Seq(Outcomes)]
  BY Typed
<1>2. New \in Outcomes
  BY DEF New, Outcomes
<1>3. /\ Append(topic[p], r) \in Seq(Records) /\ Len(Append(topic[p], r)) = Len(topic[p]) + 1
      /\ \A i \in 1 .. Len(topic[p]) : Append(topic[p], r)[i] = topic[p][i]
      /\ Append(topic[p], r)[Len(topic[p]) + 1] = r
  BY <1>1, AppendProperties
<1>4. /\ Append(outcome[p], New) \in Seq(Outcomes)
      /\ Len(Append(outcome[p], New)) = Len(outcome[p]) + 1
      /\ \A i \in 1 .. Len(outcome[p]) : Append(outcome[p], New)[i] = outcome[p][i]
      /\ Append(outcome[p], New)[Len(outcome[p]) + 1] = New
  BY <1>1, <1>2, AppendProperties
<1>5. /\ topic' = [topic EXCEPT ![p] = Append(topic[p], r)]
      /\ outcome' = [outcome EXCEPT ![p] = Append(outcome[p], New)]
  BY DEF AppendRecord
<1>6. /\ topic' \in [Partitions -> Seq(Records)] /\ outcome' \in [Partitions -> Seq(Outcomes)]
      /\ \A q \in Partitions \ {p} : topic'[q] = topic[q] /\ outcome'[q] = outcome[q]
      /\ topic'[p] = Append(topic[p], r) /\ outcome'[p] = Append(outcome[p], New)
  BY <1>1, <1>3, <1>4, <1>5
<1>7. ASSUME NEW q \in Partitions, NEW i \in 1 .. Len(topic[q])
      PROVE  i \in 1 .. Len(topic'[q]) /\ topic'[q][i] = topic[q][i] /\ outcome'[q][i] = outcome[q][i]
  <2>1. CASE q = p
    <3>1. i \in 1 .. Len(topic[p]) /\ i \in 1 .. Len(topic[p]) + 1
      BY <1>1, <2>1
    <3>2. topic'[q][i] = topic[q][i] /\ outcome'[q][i] = outcome[q][i]
      BY <1>1, <1>3, <1>4, <1>6, <2>1, <3>1
    <3> QED BY <1>3, <1>6, <2>1, <3>1, <3>2
  <2>2. CASE q # p
    BY <1>6, <2>2
  <2> QED BY <2>1, <2>2
<1> QED BY <1>1, <1>3, <1>4, <1>6, <1>7

(* Another outcome of the record in hand. *)
LEMMA Finished ==
  ASSUME TypeInv, status = "processing", NEW how \in Outcomes, Finish(how)
  PROVE  /\ outcome' \in [Partitions -> Seq(Outcomes)]
         /\ \A q \in Partitions : Len(outcome'[q]) = Len(outcome[q])
         /\ \A q \in Partitions : \A i \in 1 .. Len(topic[q]) :
              outcome'[q][i] = IF InHand(q, i) THEN how ELSE outcome[q][i]
<1> DEFINE p == partition
           n == position[partition]
<1>1. /\ p \in Partitions /\ n \in 1 .. Len(outcome[p]) /\ outcome[p] \in Seq(Outcomes)
      /\ outcome \in [Partitions -> Seq(Outcomes)]
      /\ \A q \in Partitions : Len(outcome[q]) = Len(topic[q])
  BY Typed, RecordTyped
<1>2. outcome' = [outcome EXCEPT ![p] = [outcome[p] EXCEPT ![n] = how]]
  BY DEF Finish
<1> HIDE DEF p, n
<1>3. /\ [outcome[p] EXCEPT ![n] = how] \in Seq(Outcomes)
      /\ Len([outcome[p] EXCEPT ![n] = how]) = Len(outcome[p])
      /\ \A i \in 1 .. Len(outcome[p]) :
           [outcome[p] EXCEPT ![n] = how][i] = IF i = n THEN how ELSE outcome[p][i]
  BY <1>1, ExceptSeq
<1>4. /\ outcome' \in [Partitions -> Seq(Outcomes)]
      /\ \A q \in Partitions : outcome'[q] = IF q = p THEN [outcome[p] EXCEPT ![n] = how]
                                                      ELSE outcome[q]
  BY <1>1, <1>2, <1>3
<1>5. ASSUME NEW q \in Partitions, NEW i \in 1 .. Len(topic[q])
      PROVE  outcome'[q][i] = IF InHand(q, i) THEN how ELSE outcome[q][i]
  <2>1. InHand(q, i) <=> q = p /\ i = n
    BY DEF InHand, p, n
  <2>2. CASE q = p
    BY <1>1, <1>3, <1>4, <2>1, <2>2
  <2>3. CASE q # p
    BY <1>4, <2>1, <2>3
  <2> QED BY <2>2, <2>3
<1>6. \A q \in Partitions : Len(outcome'[q]) = Len(outcome[q])
  BY <1>3, <1>4
<1> QED BY <1>4, <1>5, <1>6

(* Outcomes lose a column at most. *)
LEMMA Altered ==
  ASSUME TypeInv, NEW t \in {"source", "replica"}, NEW c \in Columns, AlterTable(t, c)
  PROVE  /\ outcome' \in [Partitions -> Seq(Outcomes)]
         /\ \A q \in Partitions : Len(outcome'[q]) = Len(outcome[q])
         /\ \A q \in Partitions : \A i \in 1 .. Len(topic[q]) :
              /\ outcome'[q][i].how = outcome[q][i].how
              /\ outcome'[q][i].meta = IF t = "replica" THEN outcome[q][i].meta \ {c}
                                                        ELSE outcome[q][i].meta
<1>1. /\ outcome \in [Partitions -> Seq(Outcomes)]
      /\ \A q \in Partitions : /\ Len(outcome[q]) = Len(topic[q]) /\ Len(topic[q]) \in Nat
                               /\ DOMAIN outcome[q] = 1 .. Len(topic[q])
      /\ \A q \in Partitions : \A i \in 1 .. Len(topic[q]) : outcome[q][i] \in Outcomes
  BY Typed
<1>2. CASE t = "source"
  BY <1>1, <1>2 DEF AlterTable
<1>3. CASE t = "replica"
  <2> DEFINE forgot(q, i) == [outcome[q][i] EXCEPT !.meta = @ \ {c}]
  <2>1. outcome' = [q \in Partitions |-> [i \in 1 .. Len(topic[q]) |-> forgot(q, i)]]
    BY <1>1, <1>3 DEF AlterTable, Forgotten
  <2>2. \A q \in Partitions : \A i \in 1 .. Len(topic[q]) :
          /\ forgot(q, i) \in Outcomes
          /\ forgot(q, i).how = outcome[q][i].how
          /\ forgot(q, i).meta = outcome[q][i].meta \ {c}
    BY <1>1 DEF Outcomes
  <2> HIDE DEF forgot
  <2>3. \A q \in Partitions : /\ outcome'[q] \in [1 .. Len(topic[q]) -> Outcomes]
                              /\ \A i \in 1 .. Len(topic[q]) : outcome'[q][i] = forgot(q, i)
    BY <2>1, <2>2
  <2>4. \A q \in Partitions : outcome'[q] \in Seq(Outcomes)
    <3> SUFFICES ASSUME NEW q \in Partitions PROVE outcome'[q] \in Seq(Outcomes)
      OBVIOUS
    <3> DEFINE n == Len(topic[q])
    <3>1. n \in Nat /\ outcome'[q] \in [1 .. n -> Outcomes]
      BY <1>1, <2>3
    <3> HIDE DEF n
    <3> QED BY <3>1, SeqDef
  <2>5. outcome' \in [Partitions -> Seq(Outcomes)]
    BY <2>1, <2>4
  <2>6. \A q \in Partitions : Len(outcome'[q]) = Len(outcome[q])
    <3> SUFFICES ASSUME NEW q \in Partitions PROVE Len(outcome'[q]) = Len(outcome[q])
      OBVIOUS
    <3>1. DOMAIN outcome'[q] = 1 .. Len(topic[q])
      BY <2>3
    <3>2. DOMAIN outcome'[q] = 1 .. Len(outcome'[q]) /\ Len(outcome'[q]) \in Nat
      BY <2>4, LenProperties
    <3> QED BY <1>1, <3>1, <3>2
  <2> QED BY <1>3, <2>2, <2>3, <2>5, <2>6
<1> QED BY <1>2, <1>3

-----------------------------------------------------------------------------
(* What a statement makes of the replica. *)

(* Contents of rows are no Absent; an upsert gives all columns a value. *)
LEMMA RowsTyped ==
  ASSUME TypeInv, status = "processing", Recognized(Record.op)
  PROVE  /\ Absent \notin Contents /\ Absent \notin Keys
         /\ Inserted(Record, Meta) \in Contents
         /\ Record.op \in Upsert => Upserted(Record, Meta) \in Contents
         /\ Record.op \notin Upsert => Record.op = "d"
<1> USE ApplyAssumption
<1>1. Absent \notin Contents /\ Absent \notin Keys
  BY DEF Contents
<1>2. Record.content \in Contents /\ Default \in Values
  BY RecordTyped DEF Records
<1>3. Inserted(Record, Meta) \in Contents
  BY <1>2 DEF Inserted, Contents
<1>4. ASSUME Record.op \in Upsert PROVE Upserted(Record, Meta) \in Contents
  <2>1. Record.to \in Keys /\ replica[Record.to] \in Contents \cup {Absent}
    BY <1>4, RecordTyped DEF TypeInv, TypeOK, RowState
  <2>2. \A c \in Columns : Inserted(Record, Meta)[c] \in Values
    BY <1>3 DEF Contents
  <2>3. \A c \in Columns : replica[Record.to] # Absent => replica[Record.to][c] \in Values
    BY <2>1 DEF Contents
  <2> QED BY <2>2, <2>3 DEF Upserted, Contents
<1>5. Record.op \notin Upsert => Record.op = "d"
  BY DEF Recognized
<1> QED BY <1>1, <1>3, <1>4, <1>5

(* Which rows change, and how. *)
LEMMA AppliedRows ==
  ASSUME TypeInv, status = "processing", Recognized(Record.op)
  PROVE  /\ Applied(Record, Meta) \in [Keys -> RowState]
         /\ \A k \in Keys :
              Applied(Record, Meta)[k] =
                CASE Record.op \in Upsert /\ k = Record.to -> Upserted(Record, Meta)
                  [] Record.op = "d" /\ k \in Deleted(Record) -> Absent
                  [] OTHER -> replica[k]
<1>1. replica \in [Keys -> RowState] /\ Absent \in RowState /\ Contents \subseteq RowState
  BY DEF TypeInv, TypeOK, RowState
<1>2. CASE Record.op \in Upsert
  <2>1. Record.to \in Keys /\ Upserted(Record, Meta) \in RowState /\ Record.op # "d"
    BY <1>1, <1>2, RecordTyped, RowsTyped DEF Upsert
  <2>2. Applied(Record, Meta) = [replica EXCEPT ![Record.to] = Upserted(Record, Meta)]
    BY <1>2 DEF Applied
  <2> QED BY <1>1, <1>2, <2>1, <2>2
<1>3. CASE Record.op \notin Upsert
  <2>1. Record.op = "d"
    BY <1>3, RowsTyped
  <2>2. Applied(Record, Meta) = [k \in Keys |-> IF k \in Deleted(Record) THEN Absent ELSE replica[k]]
    BY <1>3 DEF Applied
  <2> QED BY <1>1, <1>3, <2>1, <2>2
<1> QED BY <1>2, <1>3

(* A column the replica does not have stays at its default. *)
LEMMA AppliedColumns ==
  ASSUME TypeInv, status = "processing", Recognized(Record.op), ~Refused(Record, Meta),
         NEW k \in Keys, NEW c \in Columns \ columns["replica"], Applied(Record, Meta)[k] # Absent
  PROVE  Applied(Record, Meta)[k][c] = Default
<1>1. \A l \in Keys : replica[l] # Absent => replica[l][c] = Default
  BY DEF TypeInv, TypeOK
<1>2. CASE Record.op \in Upsert /\ k = Record.to
  <2>1. Applied(Record, Meta)[k] = Upserted(Record, Meta)
    BY <1>2, AppliedRows
  <2>2. c \notin Meta
    BY <1>2 DEF Refused
  <2>3. Inserted(Record, Meta)[c] = Default
    BY <2>2 DEF Inserted
  <2> QED BY <1>1, <1>2, <2>1, <2>2, <2>3 DEF Upserted
<1>3. CASE ~(Record.op \in Upsert /\ k = Record.to)
  BY <1>1, <1>3, AppliedRows
<1> QED BY <1>2, <1>3

-----------------------------------------------------------------------------
(* Types. *)

(* The initial state has its types: no record, an empty replica. *)
LEMMA TypeInit == Init => TypeInv
<1> SUFFICES ASSUME Init PROVE TypeInv
  OBVIOUS
<1> USE ApplyAssumption
<1>1. topic \in [Partitions -> Seq(Records)] /\ outcome \in [Partitions -> Seq(Outcomes)]
      /\ \A p \in Partitions : Len(topic[p]) = 0 /\ Len(outcome[p]) = 0
  BY DEF Init
<1>2. {position, committed} \subseteq [Partitions -> Nat]
      /\ \A p \in Partitions : position[p] = 0 /\ committed[p] = 0
  BY DEF Init
<1>3. /\ \A p \in Partitions : position[p] \in 0 .. Len(topic[p])
                              /\ committed[p] \in 0 .. position[p]
                              /\ Len(outcome[p]) = Len(topic[p])
  BY <1>1, <1>2
<1>4. /\ table \in [Keys -> SourceContents \cup {Absent}]
      /\ replica \in [Keys -> RowState] /\ \A k \in Keys : replica[k] = Absent
      /\ columns \in [{"source", "replica"} -> SUBSET Columns]
      /\ cache \in {{}} \cup {{m} : m \in SUBSET Columns}
      /\ status \in {"down", "polling", "processing", "stopped"}
      /\ alters \in 0 .. MaxAlters /\ kills \in 0 .. MaxKills
      /\ partition \in Partitions
  BY DEF Init, RowState
<1>5. TypeOK
  BY <1>1, <1>2, <1>3, <1>4 DEF TypeOK
<1>6. RecordsPlaced /\ RecordExists
  BY <1>1 DEF Init, RecordsPlaced, RecordExists
<1> QED BY <1>5, <1>6 DEF TypeInv

(* Every step keeps the types. *)
LEMMA TypeInductive == ASSUME TypeInv, [Next]_vars PROVE TypeInv'
<1>1. TypeOK
  BY DEF TypeInv
<1>2. ASSUME NEW p \in Partitions, NEW r \in Records, Appends(p, r) PROVE TypeInv'
  <2>1. /\ UNCHANGED <<columns, status, position, committed, partition, cache, replica, alters, kills>>
        /\ AppendRecord(p, r)
    BY <1>2 DEF Appends, AppendRecord
  <2>2. SourceContents' = SourceContents
    BY <2>1 DEF SourceContents
  <2>3. /\ topic' \in [Partitions -> Seq(Records)]
        /\ outcome' \in [Partitions -> Seq(Outcomes)]
        /\ \A q \in Partitions : Len(outcome'[q]) = Len(topic'[q])
        /\ \A q \in Partitions : Len(topic'[q]) \in Nat /\ Len(topic[q]) <= Len(topic'[q])
    <3>1. /\ topic' \in [Partitions -> Seq(Records)]
          /\ outcome' \in [Partitions -> Seq(Outcomes)]
      BY <2>1, Appended
    <3>2. Len(topic'[p]) = Len(topic[p]) + 1 /\ Len(outcome'[p]) = Len(topic[p]) + 1
      BY <2>1, Appended
    <3>3. \A q \in Partitions : q # p => topic'[q] = topic[q] /\ outcome'[q] = outcome[q]
      BY <2>1, Appended
    <3>4. \A q \in Partitions : Len(topic[q]) \in Nat /\ Len(outcome[q]) = Len(topic[q])
      BY Typed
    <3>5. ASSUME NEW q \in Partitions
          PROVE  /\ Len(outcome'[q]) = Len(topic'[q])
                 /\ Len(topic'[q]) \in Nat /\ Len(topic[q]) <= Len(topic'[q])
      <4>1. CASE q = p
        BY <3>2, <3>4, <4>1
      <4>2. CASE q # p
        BY <3>3, <3>4, <4>2
      <4> QED BY <4>1, <4>2
    <3> QED BY <3>1, <3>5
  <2>4. \A q \in Partitions : position[q] \in 0 .. Len(topic'[q])
    BY <2>3, Typed
  <2>5. TypeOK'
    BY <1>1, <1>2, <2>1, <2>2, <2>3, <2>4 DEF TypeOK, Appends, Outcomes, Records, RowState
  <2>6. ASSUME NEW q \in Partitions, NEW i \in 1 .. Len(topic'[q])
        PROVE  RecordPlaced(q, topic'[q][i])
    <3>1. CASE i \in 1 .. Len(topic[q])
      BY <2>1, <3>1, Appended DEF TypeInv, RecordsPlaced
    <3>2. CASE q = p /\ i = Len(topic[p]) + 1
      BY <1>2, <2>1, <3>2, Appended DEF Appends
    <3>3. i \in 1 .. Len(topic[q]) \/ (q = p /\ i = Len(topic[p]) + 1)
      <4>1. Len(topic[q]) \in Nat
        BY Typed
      <4>2. Len(topic'[q]) = IF q = p THEN Len(topic[p]) + 1 ELSE Len(topic[q])
        BY <2>1, Appended
      <4> QED BY <4>1, <4>2
    <3> QED BY <3>1, <3>2, <3>3
  <2>7. RecordExists'
    BY <2>1, <2>3, Typed DEF TypeInv, RecordExists
  <2> QED BY <2>5, <2>6, <2>7 DEF TypeInv, RecordsPlaced
<1>3. ASSUME NEW t \in {"source", "replica"}, NEW c \in Columns, AlterTable(t, c)
      PROVE  TypeInv'
  <2>1. /\ UNCHANGED <<topic, status, position, committed, partition, cache, kills>>
        /\ alters < MaxAlters /\ alters' = alters + 1
        /\ columns' = [columns EXCEPT ![t] = IF c \in @ THEN @ \ {c} ELSE @ \cup {c}]
        /\ table' = IF t = "source" THEN Without(table, c) ELSE table
        /\ replica' = IF t = "replica" THEN Without(replica, c) ELSE replica
    BY <1>3 DEF AlterTable
  <2>2. columns' \in [{"source", "replica"} -> SUBSET Columns] /\ alters' \in 0 .. MaxAlters
    BY <1>1, <2>1, ApplyAssumption DEF TypeOK
  <2>3. table' \in [Keys -> SourceContents' \cup {Absent}]
    <3>1. CASE t = "replica"
      <4>1. columns'["source"] = columns["source"]
        BY <1>1, <2>1, <3>1 DEF TypeOK
      <4> QED BY <1>1, <2>1, <3>1, <4>1 DEF TypeOK, SourceContents
    <3>2. CASE t = "source"
      <4>1. columns["source"] \subseteq columns'["source"] \cup {c}
        BY <1>1, <2>1, <3>2 DEF TypeOK
      <4>2. ASSUME NEW k \in Keys, table[k] # Absent
            PROVE  [table[k] EXCEPT ![c] = Default] \in SourceContents'
        <5>1. table[k] \in Contents /\ \A d \in Columns \ columns["source"] : table[k][d] = Default
          BY <1>1, <4>2 DEF TypeOK, SourceContents
        <5>2. [table[k] EXCEPT ![c] = Default] \in Contents
          BY <5>1, ApplyAssumption DEF Contents
        <5>3. \A d \in Columns \ columns'["source"] : [table[k] EXCEPT ![c] = Default][d] = Default
          BY <4>1, <5>1 DEF Contents
        <5> QED BY <5>2, <5>3 DEF SourceContents
      <4> QED BY <2>1, <3>2, <4>2 DEF Without
    <3> QED BY <3>1, <3>2
  <2>4. /\ replica' \in [Keys -> RowState]
        /\ \A k \in Keys, d \in Columns \ columns'["replica"] :
             replica'[k] # Absent => replica'[k][d] = Default
    <3>1. replica \in [Keys -> RowState]
          /\ \A k \in Keys, d \in Columns \ columns["replica"] :
               replica[k] # Absent => replica[k][d] = Default
      BY <1>1 DEF TypeOK
    <3>2. CASE t = "source"
      <4>1. columns'["replica"] = columns["replica"] /\ replica' = replica
        BY <1>1, <2>1, <3>2 DEF TypeOK
      <4> QED BY <3>1, <4>1
    <3>3. CASE t = "replica"
      <4>1. columns["replica"] \subseteq columns'["replica"] \cup {c}
        BY <1>1, <2>1, <3>3 DEF TypeOK
      <4>2. \A k \in Keys : replica'[k] = IF replica[k] = Absent THEN Absent
                                          ELSE [replica[k] EXCEPT ![c] = Default]
        BY <2>1, <3>3 DEF Without
      <4>3. \A k \in Keys : replica[k] # Absent => replica[k] \in Contents
        BY <3>1 DEF RowState
      <4>4. \A k \in Keys : replica[k] # Absent =>
              /\ [replica[k] EXCEPT ![c] = Default] \in Contents
              /\ \A d \in Columns : [replica[k] EXCEPT ![c] = Default][d] =
                                      IF d = c THEN Default ELSE replica[k][d]
        BY <4>3, ApplyAssumption DEF Contents
      <4>5. replica' \in [Keys -> RowState]
        BY <2>1, <3>1, <3>3, <4>4 DEF Without, RowState
      <4>6. ASSUME NEW k \in Keys, NEW d \in Columns \ columns'["replica"], replica'[k] # Absent
            PROVE  replica'[k][d] = Default
        <5>1. replica[k] # Absent /\ replica'[k] = [replica[k] EXCEPT ![c] = Default]
          BY <4>2, <4>6
        <5>2. replica'[k][d] = IF d = c THEN Default ELSE replica[k][d]
          BY <4>4, <5>1
        <5>3. d = c \/ d \notin columns["replica"]
          BY <4>1
        <5> QED BY <3>1, <5>1, <5>2, <5>3
      <4> QED BY <4>5, <4>6
    <3> QED BY <3>2, <3>3
  <2>5. outcome' \in [Partitions -> Seq(Outcomes)]
        /\ \A q \in Partitions : Len(outcome'[q]) = Len(topic[q])
    BY <1>3, Altered, Typed
  <2>6. TypeOK'
    BY <1>1, <2>1, <2>2, <2>3, <2>4, <2>5 DEF TypeOK, Outcomes, Records, RowState
  <2> QED BY <2>1, <2>6 DEF TypeInv, RecordsPlaced, RecordExists
<1>4. ASSUME NEW how \in {Skipped, [how |-> "applied", meta |-> Meta]}, AttemptEnds(how)
      PROVE  TypeInv'
  <2>1. how \in Outcomes
    BY MetaTyped DEF Skipped, Outcomes
  <2>2. outcome' \in [Partitions -> Seq(Outcomes)]
        /\ \A q \in Partitions : Len(outcome'[q]) = Len(topic[q])
    BY <1>4, <2>1, Finished, Typed DEF AttemptEnds
  <2>3. cache' \in {{}} \cup {{m} : m \in SUBSET Columns}
    BY <1>1, <1>4, MetaTyped DEF AttemptEnds, TypeOK
  <2>4. /\ replica' \in [Keys -> RowState]
        /\ \A k \in Keys, c \in Columns \ columns["replica"] :
             replica'[k] # Absent => replica'[k][c] = Default
    <3>1. CASE replica' = replica
      BY <1>1, <3>1 DEF TypeOK
    <3>2. CASE /\ Recognized(Record.op) /\ ~Refused(Record, Meta)
               /\ replica' = Applied(Record, Meta)
      BY <1>4, <3>2, AppliedRows, AppliedColumns DEF AttemptEnds
    <3> QED BY <1>4, <3>1, <3>2 DEF AttemptEnds
  <2>5. UNCHANGED <<table, columns, topic, alters, position, committed, partition>>
        /\ status' \in {"polling", "stopped", "down"} /\ kills' \in 0 .. MaxKills
        /\ SourceContents' = SourceContents
    BY <1>4, Typed DEF AttemptEnds, SourceContents
  <2>6. TypeOK'
    BY <1>1, <2>2, <2>3, <2>4, <2>5 DEF TypeOK, Outcomes, Records, RowState
  <2> QED BY <2>5, <2>6 DEF TypeInv, RecordsPlaced, RecordExists
<1>5. CASE Quiet
  <2>1. UNCHANGED <<table, columns, topic, alters, replica, outcome>>
    BY <1>5 DEF Quiet
  <2>2. SourceContents' = SourceContents
    BY <2>1 DEF SourceContents
  <2>3. /\ position' \in [Partitions -> Nat] /\ committed' \in [Partitions -> Nat]
        /\ \A p \in Partitions : position'[p] \in 0 .. Len(topic[p])
                                 /\ committed'[p] \in 0 .. position'[p]
    <3>1. CASE StartConsumer
      <4>1. \A p \in Partitions : committed[p] \in Nat /\ committed[p] \in 0 .. Len(topic[p])
        BY Typed
      <4> QED BY <3>1, <4>1, Typed DEF StartConsumer, FirstOffset
    <3>2. ASSUME NEW p \in Partitions, Poll(p)
          PROVE  /\ position' \in [Partitions -> Nat] /\ committed' \in [Partitions -> Nat]
                 /\ \A q \in Partitions : position'[q] \in 0 .. Len(topic[q])
                                          /\ committed'[q] \in 0 .. position'[q]
      <4>1. /\ position' = [position EXCEPT ![p] = position[p] + 1] /\ committed' = committed
            /\ position[p] < Len(topic[p])
        BY <3>2 DEF Poll
      <4>2. \A q \in Partitions : /\ position[q] \in Nat /\ committed[q] \in Nat
                                  /\ Len(topic[q]) \in Nat
                                  /\ position[q] <= Len(topic[q]) /\ committed[q] <= position[q]
        BY Typed
      <4> QED BY <4>1, <4>2, Typed
    <3>3. CASE AutoCommit
      <4>1. \A p \in Partitions : position[p] \in Nat /\ position[p] \in 0 .. Len(topic[p])
        BY Typed
      <4> QED BY <3>3, <4>1, Typed DEF AutoCommit, Stored
    <3>4. CASE UNCHANGED <<position, committed>>
      BY <3>4, Typed
    <3> QED BY <1>5, <3>1, <3>2, <3>3, <3>4 DEF Quiet, StreamFails, Kill, vars
  <2>4. /\ partition' \in Partitions
        /\ kills' \in 0 .. MaxKills
        /\ cache' \in {{}} \cup {{m} : m \in SUBSET Columns}
        /\ status' \in {"down", "polling", "processing", "stopped"}
    <3> USE DEF TypeOK
    <3>1. CASE StartConsumer
      BY <1>1, <3>1 DEF StartConsumer
    <3>2. CASE \E p \in Partitions : Poll(p)
      BY <1>1, <3>2 DEF Poll
    <3>3. CASE StreamFails \/ AutoCommit
      BY <1>1, <3>3 DEF StreamFails, AutoCommit
    <3>4. CASE Kill
      <4>1. kills' \in 0 .. MaxKills
        BY <3>4, Typed DEF Kill
      <4> QED BY <1>1, <3>4, <4>1 DEF Kill
    <3>5. CASE UNCHANGED vars
      BY <1>1, <3>5 DEF vars
    <3> QED BY <1>5, <3>1, <3>2, <3>3, <3>4, <3>5 DEF Quiet
  <2>5. RecordExists'
    <3>1. ASSUME NEW p \in Partitions, Poll(p)
          PROVE  RecordExists'
      <4>1. /\ position' = [position EXCEPT ![p] = position[p] + 1] /\ partition' = p
            /\ position[p] < Len(topic[p])
        BY <3>1 DEF Poll
      <4>2. position'[p] \in 1 .. Len(topic[p])
        BY <4>1, Typed
      <4> QED BY <2>1, <4>1, <4>2 DEF RecordExists
    <3>2. CASE AutoCommit \/ UNCHANGED vars
      BY <2>1, <3>2 DEF AutoCommit, vars, TypeInv, RecordExists
    <3>3. CASE StartConsumer \/ StreamFails \/ Kill
      BY <3>3 DEF StartConsumer, StreamFails, Kill, RecordExists
    <3> QED BY <1>5, <3>1, <3>2, <3>3 DEF Quiet
  <2>6. {position', committed'} \subseteq [Partitions -> Nat]
    BY <2>3
  <2>7. TypeOK'
    BY <1>1, <2>1, <2>2, <2>3, <2>4, <2>6 DEF TypeOK, Outcomes, Records, RowState
  <2> QED BY <2>1, <2>5, <2>7 DEF TypeInv, RecordsPlaced
<1> QED BY <1>2, <1>3, <1>4, <1>5, Steps

(* The types of TypeOK: offsets lie within their partitions, no row of either
   table has a value in a column its table has not. *)
THEOREM TypeCorrect == Spec => []TypeOK
<1>1. TypeInv => TypeOK
  BY DEF TypeInv
<1>2. TypeInv /\ [Next]_vars => TypeInv'
  BY TypeInductive
<1> QED BY <1>1, <1>2, TypeInit, PTL DEF Spec

-----------------------------------------------------------------------------
(* No record is passed over. *)

(* A record is left behind with an outcome. *)
LEMMA AttemptedInductive ==
  ASSUME TypeInv, HandedOutAttempted, [Next]_vars PROVE HandedOutAttempted'
<1>1. \A p \in Partitions : Len(topic[p]) \in Nat /\ position[p] \in 0 .. Len(topic[p])
  BY Typed
<1>2. ASSUME NEW p \in Partitions, NEW r \in Records, Appends(p, r)
      PROVE  HandedOutAttempted'
  <2>1. UNCHANGED <<status, position, partition>> /\ AppendRecord(p, r)
    BY <1>2 DEF Appends, AppendRecord
  <2>2. \A q \in Partitions : \A i \in 1 .. position[q] : outcome'[q][i] = outcome[q][i]
    <3>1. \A q \in Partitions : \A i \in 1 .. position[q] : i \in 1 .. Len(topic[q])
      BY <1>1
    <3> QED BY <2>1, <3>1, Appended
  <2> QED BY <2>1, <2>2 DEF HandedOutAttempted, InHand
<1>3. ASSUME NEW t \in {"source", "replica"}, NEW c \in Columns, AlterTable(t, c)
      PROVE  HandedOutAttempted'
  <2>1. UNCHANGED <<status, position, partition>>
    BY <1>3 DEF AlterTable
  <2>2. \A q \in Partitions : \A i \in 1 .. position[q] : outcome'[q][i].how = outcome[q][i].how
    BY <1>1, <1>3, Altered
  <2> QED BY <2>1, <2>2 DEF HandedOutAttempted, InHand
<1>4. ASSUME NEW how \in {Skipped, [how |-> "applied", meta |-> Meta]}, AttemptEnds(how)
      PROVE  HandedOutAttempted'
  <2>1. how \in Outcomes /\ how.how # "new"
    BY MetaTyped DEF Skipped, Outcomes
  <2>2. \A q \in Partitions : \A i \in 1 .. position[q] :
          outcome'[q][i] = IF InHand(q, i) THEN how ELSE outcome[q][i]
    BY <1>1, <1>4, <2>1, Finished DEF AttemptEnds
  <2>3. UNCHANGED position
    BY <1>4 DEF AttemptEnds
  <2>4. \A q \in Partitions : \A i \in 1 .. position[q] : outcome'[q][i].how # "new"
    BY <2>1, <2>2 DEF HandedOutAttempted
  <2> QED BY <2>3, <2>4 DEF HandedOutAttempted
<1>5. CASE Quiet
  <2>1. CASE StartConsumer
    <3>1. \A p \in Partitions : position'[p] = committed[p] /\ committed[p] \in 0 .. position[p]
      BY <2>1, Typed DEF StartConsumer, FirstOffset
    <3>2. \A p \in Partitions : \A i \in 1 .. position'[p] : i \in 1 .. position[p]
      BY <1>1, <3>1
    <3>3. \A p \in Partitions, i \in Nat : ~InHand(p, i)
      BY <2>1 DEF StartConsumer, InHand
    <3> QED BY <1>5, <3>2, <3>3 DEF Quiet, HandedOutAttempted
  <2>2. ASSUME NEW p \in Partitions, Poll(p) PROVE HandedOutAttempted'
    <3>1. /\ position' = [position EXCEPT ![p] = position[p] + 1] /\ partition' = p
          /\ status' = "processing" /\ status = "polling" /\ UNCHANGED outcome
      BY <2>2 DEF Poll, AsksForRecord
    <3> SUFFICES ASSUME NEW q \in Partitions, NEW i \in 1 .. position'[q]
                 PROVE  outcome[q][i].how # "new" \/ InHand(q, i)'
      BY <3>1 DEF HandedOutAttempted
    <3>2. position \in [Partitions -> Nat]
      BY Typed
    <3>3. CASE i \in 1 .. position[q]
      BY <3>1, <3>3 DEF HandedOutAttempted, InHand
    <3>4. CASE q = p /\ i = position'[p]
      BY <3>1, <3>4 DEF InHand
    <3> QED BY <3>1, <3>2, <3>3, <3>4
  <2>3. CASE StreamFails
    BY <2>3 DEF StreamFails, HandedOutAttempted, InHand
  <2>4. CASE AutoCommit
    BY <2>4 DEF AutoCommit, HandedOutAttempted, InHand
  <2>5. CASE Kill /\ status # "processing"
    BY <2>5 DEF Kill, HandedOutAttempted, InHand
  <2>6. CASE UNCHANGED vars
    BY <2>6 DEF vars, HandedOutAttempted, InHand
  <2> QED BY <1>5, <2>1, <2>2, <2>3, <2>4, <2>5, <2>6 DEF Quiet
<1> QED BY <1>2, <1>3, <1>4, <1>5, Steps

(* A restart passes over no record that the sink has not had in hand, however
   often the client commits and whenever the process is killed. *)
THEOREM RestartsSkipNothing == Spec => []CommittedWereAttempted
<1>1. Init => TypeInv /\ HandedOutAttempted
  <2>1. Init => HandedOutAttempted
    BY DEF Init, HandedOutAttempted
  <2> QED BY <2>1, TypeInit
<1>2. TypeInv /\ HandedOutAttempted /\ [Next]_vars => TypeInv' /\ HandedOutAttempted'
  BY TypeInductive, AttemptedInductive
<1>3. TypeInv /\ HandedOutAttempted => CommittedWereAttempted
  <2> SUFFICES ASSUME TypeInv, HandedOutAttempted, NEW p \in Partitions,
                      NEW i \in 1 .. committed[p]
               PROVE  outcome[p][i].how # "new" \/ InHand(p, i)
    BY DEF CommittedWereAttempted, InHand
  <2>1. position[p] \in Nat /\ committed[p] \in 0 .. position[p]
    BY Typed
  <2>2. i \in 1 .. position[p]
    BY <2>1
  <2> QED BY <2>2 DEF HandedOutAttempted
<1> QED BY <1>1, <1>2, <1>3, PTL DEF Spec

-----------------------------------------------------------------------------
(* A row is what its last record says. *)

(* Between attempts, what was handed out and is not in hand stays so. *)
LEMMA QuietHands ==
  ASSUME TypeInv, Quiet, NEW p \in Partitions, NEW i \in 1 .. Len(topic[p]),
         i <= position'[p], ~InHand(p, i)'
  PROVE  i <= position[p] /\ ~InHand(p, i)
<1>1. position \in [Partitions -> Nat] /\ committed[p] \in 0 .. position[p] /\ i \in Nat
  BY Typed
<1>2. CASE StartConsumer
  BY <1>1, <1>2 DEF StartConsumer, FirstOffset, InHand
<1>3. ASSUME NEW q \in Partitions, Poll(q) PROVE i <= position[p] /\ ~InHand(p, i)
  <2>1. /\ position' = [position EXCEPT ![q] = position[q] + 1] /\ partition' = q
        /\ status' = "processing" /\ status = "polling"
    BY <1>3 DEF Poll, AsksForRecord
  <2>2. CASE p = q
    BY <1>1, <2>1, <2>2 DEF InHand
  <2>3. CASE p # q
    BY <1>1, <2>1, <2>3 DEF InHand
  <2> QED BY <2>2, <2>3
<1>4. CASE StreamFails
  BY <1>4 DEF StreamFails, InHand
<1>5. CASE AutoCommit
  BY <1>5 DEF AutoCommit, InHand
<1>6. CASE Kill /\ status # "processing"
  BY <1>6 DEF Kill, InHand
<1>7. CASE UNCHANGED vars
  BY <1>7 DEF vars, InHand
<1> QED BY <1>2, <1>3, <1>4, <1>5, <1>6, <1>7 DEF Quiet

(* Whatever the cache lacks, `desc` included, has its default in all rows. *)
LEMMA MetaUnknown ==
  ASSUME TypeInv, UnknownIsDefault, NEW k \in Keys, replica[k] # Absent,
         NEW c \in Columns, c \notin Meta
  PROVE  replica[k][c] = Default
<1>1. CASE cache = {}
  <2>1. Meta = columns["replica"]
    BY <1>1 DEF Meta, Described
  <2> QED BY <2>1 DEF TypeInv, TypeOK
<1>2. CASE cache # {}
  BY <1>2, MetaTyped DEF UnknownIsDefault
<1> QED BY <1>1, <1>2

(* So an upsert makes of a row what an insert would have made of it. *)
LEMMA UpsertInserts ==
  ASSUME TypeInv, UnknownIsDefault, status = "processing", Record.op \in Upsert
  PROVE  Upserted(Record, Meta) = Inserted(Record, Meta)
<1>1. Record.to \in Keys
  BY RecordTyped
<1>2. ASSUME NEW c \in Columns
      PROVE  (IF c \in Meta \/ replica[Record.to] = Absent
                THEN Inserted(Record, Meta)[c] ELSE replica[Record.to][c])
               = IF c \in Meta \cap Record.columns THEN Record.content[c] ELSE Default
  <2>1. CASE c \in Meta \/ replica[Record.to] = Absent
    BY <2>1 DEF Inserted
  <2>2. CASE c \notin Meta /\ replica[Record.to] # Absent
    BY <1>1, <2>2, MetaUnknown
  <2> QED BY <2>1, <2>2
<1> QED BY <1>2 DEF Upserted, Inserted

(* A column that is added or dropped has its default in all rows afterwards. *)
LEMMA UnknownInductive ==
  ASSUME TypeInv, UnknownIsDefault, [Next]_vars PROVE UnknownIsDefault'
<1>1. ASSUME NEW p \in Partitions, NEW r \in Records, Appends(p, r)
      PROVE  UnknownIsDefault'
  BY <1>1 DEF Appends, AppendRecord, UnknownIsDefault
<1>2. ASSUME NEW t \in {"source", "replica"}, NEW c \in Columns, AlterTable(t, c)
      PROVE  UnknownIsDefault'
  <2>1. CASE t = "source"
    BY <1>2, <2>1 DEF AlterTable, UnknownIsDefault
  <2>2. CASE t = "replica"
    <3>1. /\ UNCHANGED cache
          /\ \A k \in Keys : replica'[k] = IF replica[k] = Absent THEN Absent
                                           ELSE [replica[k] EXCEPT ![c] = Default]
      BY <1>2, <2>2 DEF AlterTable, Without
    <3>2. \A k \in Keys : replica[k] # Absent =>
            \A d \in Columns : [replica[k] EXCEPT ![c] = Default][d] =
                                 IF d = c THEN Default ELSE replica[k][d]
      BY DEF TypeInv, TypeOK, RowState, Contents
    <3>3. ASSUME NEW m \in cache, NEW k \in Keys, NEW d \in Columns \ m, replica'[k] # Absent
          PROVE  replica'[k][d] = Default
      <4>1. replica[k] # Absent /\ replica'[k] = [replica[k] EXCEPT ![c] = Default]
        BY <3>1, <3>3
      <4>2. replica[k][d] = Default
        BY <4>1 DEF UnknownIsDefault
      <4> QED BY <3>2, <4>1, <4>2
    <3> QED BY <3>1, <3>3 DEF UnknownIsDefault
  <2> QED BY <2>1, <2>2
<1>3. ASSUME NEW how \in {Skipped, [how |-> "applied", meta |-> Meta]}, AttemptEnds(how)
      PROVE  UnknownIsDefault'
  <2> SUFFICES ASSUME NEW m \in cache', NEW k \in Keys, NEW c \in Columns \ m,
                      replica'[k] # Absent
               PROVE  replica'[k][c] = Default
    BY DEF UnknownIsDefault
  <2>1. m = Meta
    BY <1>3, MetaTyped DEF AttemptEnds
  <2>2. CASE replica'[k] = replica[k]
    BY <2>1, <2>2, MetaUnknown
  <2>3. CASE /\ replica' = Applied(Record, Meta) /\ Recognized(Record.op)
             /\ Record.op \in Upsert /\ k = Record.to
    <3>1. replica'[k] = Inserted(Record, Meta)
      BY <1>3, <2>3, AppliedRows, UpsertInserts DEF AttemptEnds
    <3> QED BY <2>1, <3>1 DEF Inserted
  <2>4. \/ replica' = replica
        \/ replica' = Applied(Record, Meta) /\ Recognized(Record.op)
    BY <1>3 DEF AttemptEnds
  <2> QED BY <1>3, <2>2, <2>3, <2>4, AppliedRows DEF AttemptEnds
<1>4. CASE Quiet
  <2>1. UNCHANGED replica /\ (cache' = cache \/ cache' = {})
    BY <1>4 DEF Quiet, StartConsumer, Poll, StreamFails, AutoCommit, Kill, vars
  <2> QED BY <2>1 DEF UnknownIsDefault
<1> QED BY <1>1, <1>2, <1>3, <1>4, Steps

(* The records behind a row's last one leave the row alone, and an attempt at
   the last one overwrites whatever an older one left. *)
LEMMA LastInductive ==
  ASSUME TypeInv, UnknownIsDefault, LastDecides, [Next]_vars PROVE LastDecides'
<1>1. \A p \in Partitions : /\ Len(topic[p]) \in Nat /\ position[p] \in 0 .. Len(topic[p])
                            /\ DOMAIN topic[p] = 1 .. Len(topic[p])
  BY Typed
<1>2. ASSUME NEW p \in Partitions, NEW r \in Records, Appends(p, r)
      PROVE  LastDecides'
  <2>1. UNCHANGED <<status, position, partition, replica>> /\ AppendRecord(p, r)
    BY <1>2 DEF Appends, AppendRecord
  <2> SUFFICES ASSUME NEW q \in Partitions, NEW i \in 1 .. Len(topic'[q]), NEW k \in Keys,
                      LastTouching(q, i, k)', i <= position[q], ~InHand(q, i),
                      outcome'[q][i].how = "applied"
               PROVE  Decided(q, i, k)'
    BY <2>1 DEF LastDecides, InHand
  <2>2. i \in 1 .. Len(topic[q])
    BY <1>1, <2>1, Appended
  <2>3. topic'[q][i] = topic[q][i] /\ outcome'[q][i] = outcome[q][i]
    BY <2>1, <2>2, Appended
  <2>4. \A s \in Partitions : DOMAIN topic'[s] = 1 .. Len(topic'[s])
    BY <2>1, Appended, LenProperties
  <2>5. \A s \in Partitions : \A j \in DOMAIN topic[s] :
          j \in DOMAIN topic'[s] /\ topic'[s][j] = topic[s][j]
    BY <1>1, <2>1, <2>4, Appended
  <2>6. LastTouching(q, i, k)
    BY <2>3, <2>5 DEF LastTouching, Touches, Deleted
  <2>7. Decided(q, i, k)
    BY <2>2, <2>3, <2>6 DEF LastDecides
  <2> QED BY <2>1, <2>3, <2>7 DEF Decided, Inserted
<1>3. ASSUME NEW t \in {"source", "replica"}, NEW c \in Columns, AlterTable(t, c)
      PROVE  LastDecides'
  <2>1. UNCHANGED <<topic, status, position, partition>>
    BY <1>3 DEF AlterTable
  <2> SUFFICES ASSUME NEW q \in Partitions, NEW i \in 1 .. Len(topic[q]), NEW k \in Keys,
                      LastTouching(q, i, k), i <= position[q], ~InHand(q, i),
                      outcome'[q][i].how = "applied"
               PROVE  Decided(q, i, k)'
    BY <2>1 DEF LastDecides, InHand, LastTouching, Touches, Deleted
  <2>2. outcome'[q][i].how = outcome[q][i].how
        /\ outcome'[q][i].meta = IF t = "replica" THEN outcome[q][i].meta \ {c}
                                                  ELSE outcome[q][i].meta
    <3>1. \A s \in Partitions : \A j \in 1 .. Len(topic[s]) :
            /\ outcome'[s][j].how = outcome[s][j].how
            /\ outcome'[s][j].meta = IF t = "replica" THEN outcome[s][j].meta \ {c}
                                                      ELSE outcome[s][j].meta
      BY <1>3, Altered
    <3> QED BY <3>1
  <2>3. Decided(q, i, k)
    BY <2>2 DEF LastDecides
  <2>4. CASE t = "source"
    BY <1>3, <2>1, <2>2, <2>3, <2>4 DEF AlterTable, Decided, Inserted
  <2>5. CASE t = "replica"
    <3>1. \A l \in Keys : replica'[l] = IF replica[l] = Absent THEN Absent
                                        ELSE [replica[l] EXCEPT ![c] = Default]
      BY <1>3, <2>5 DEF AlterTable, Without
    <3>2. CASE topic[q][i].op = "d"
      BY <2>1, <2>3, <3>1, <3>2 DEF Decided
    <3>3. CASE topic[q][i].op # "d"
      <4> DEFINE r == topic[q][i]
                 m == outcome[q][i].meta
      <4>1. replica[k] = Inserted(r, m)
        BY <2>3, <3>3 DEF Decided
      <4>2. r.content \in Contents
        BY Typed DEF Records
      <4> HIDE DEF r, m
      <4>3. Inserted(r, m) \in Contents
        BY <4>2, ApplyAssumption DEF Inserted, Contents
      <4>4. replica[k] # Absent
        BY <4>1, <4>3, ApplyAssumption DEF Contents
      <4>5. [Inserted(r, m) EXCEPT ![c] = Default] = Inserted(r, m \ {c})
        BY DEF Inserted
      <4>6. replica'[k] = Inserted(r, m \ {c})
        BY <3>1, <4>1, <4>4, <4>5
      <4>7. outcome'[q][i].meta = m \ {c} /\ topic'[q][i] = r /\ r.op # "d"
        BY <2>1, <2>2, <2>5, <3>3 DEF r, m
      <4> QED BY <4>6, <4>7 DEF Decided, Inserted
    <3> QED BY <3>2, <3>3
  <2> QED BY <2>4, <2>5
<1>4. ASSUME NEW how \in {Skipped, [how |-> "applied", meta |-> Meta]}, AttemptEnds(how)
      PROVE  LastDecides'
  <2>1. /\ UNCHANGED <<topic, position>> /\ status = "processing"
        /\ \/ replica' = replica /\ how = Skipped
           \/ Recognized(Record.op) /\ replica' = Applied(Record, Meta)
    BY <1>4 DEF AttemptEnds
  <2>2. how \in Outcomes
    BY MetaTyped DEF Skipped, Outcomes
  <2> SUFFICES ASSUME NEW q \in Partitions, NEW i \in 1 .. Len(topic[q]), NEW k \in Keys,
                      LastTouching(q, i, k), i <= position[q],
                      outcome'[q][i].how = "applied"
               PROVE  Decided(q, i, k)'
    BY <2>1 DEF LastDecides, LastTouching, Touches, Deleted
  <2>3. outcome'[q][i] = IF InHand(q, i) THEN how ELSE outcome[q][i]
    BY <1>4, <2>2, Finished DEF AttemptEnds
  <2>4. CASE InHand(q, i)
    <3>1. /\ how = [how |-> "applied", meta |-> Meta] /\ outcome'[q][i].meta = Meta
          /\ Recognized(Record.op) /\ replica' = Applied(Record, Meta)
      BY <1>4, <2>1, <2>3, <2>4 DEF Skipped
    <3>2. Record = topic[q][i] /\ Touches(Record, k)
      BY <2>4 DEF InHand, Record, LastTouching
    <3>3. CASE Record.op \in Upsert
      <4>1. k = Record.to /\ Record.op # "d"
        BY <3>2, <3>3 DEF Touches, Upsert
      <4>2. replica'[k] = Inserted(Record, Meta)
        BY <2>1, <3>1, <3>3, <4>1, AppliedRows, UpsertInserts
      <4> QED BY <2>1, <3>1, <3>2, <4>1, <4>2 DEF Decided, Inserted
    <3>4. CASE Record.op = "d"
      <4>1. k \in Deleted(Record) /\ Record.op \notin Upsert
        BY <3>2, <3>4 DEF Touches, Upsert
      <4>2. replica'[k] = Absent
        BY <2>1, <3>1, <3>4, <4>1, AppliedRows
      <4> QED BY <2>1, <3>2, <3>4, <4>2 DEF Decided
    <3> QED BY <3>1, <3>3, <3>4 DEF Recognized
  <2>5. CASE ~InHand(q, i)
    <3>1. Decided(q, i, k)
      BY <2>3, <2>5 DEF LastDecides
    <3>2. ~Touches(Record, k)
      <4>1. partition \in Partitions /\ position[partition] \in DOMAIN topic[partition]
        BY <1>1, <2>1, RecordTyped, Typed
      <4>2. ASSUME Touches(Record, k) PROVE FALSE
        <5>1. partition = q
          BY <4>1, <4>2 DEF LastTouching, Record
        <5>2. position[q] <= i
          BY <4>1, <4>2, <5>1 DEF LastTouching, Record
        <5>3. position[q] = i
          BY <1>1, <5>2
        <5> QED BY <2>1, <2>5, <5>1, <5>3 DEF InHand
      <4> QED BY <4>2
    <3>3. replica'[k] = replica[k]
      BY <2>1, <3>2, AppliedRows DEF Touches
    <3> QED BY <2>1, <2>3, <2>5, <3>1, <3>3 DEF Decided, Inserted
  <2> QED BY <2>4, <2>5
<1>5. CASE Quiet
  <2>1. UNCHANGED <<topic, replica, outcome>>
    BY <1>5 DEF Quiet
  <2> SUFFICES ASSUME NEW q \in Partitions, NEW i \in 1 .. Len(topic[q]), NEW k \in Keys,
                      LastTouching(q, i, k), i <= position'[q], ~InHand(q, i)',
                      outcome[q][i].how = "applied"
               PROVE  Decided(q, i, k)
    BY <2>1 DEF LastDecides, LastTouching, Touches, Deleted, Decided, Inserted
  <2>2. i <= position[q] /\ ~InHand(q, i)
    BY <1>5, QuietHands
  <2> QED BY <2>2 DEF LastDecides
<1> QED BY <1>2, <1>3, <1>4, <1>5, Steps

(* Once the program has caught up, a row holds what its last record gave it,
   whatever older records, earlier attempts, ALTERs and a stale cache left. *)
THEOREM LastRecordWins == Spec => []LastChangeDecides
<1>1. Init => DecidedInv
  <2>1. Init => UnknownIsDefault /\ LastDecides
    BY DEF Init, UnknownIsDefault, LastDecides
  <2> QED BY <2>1, TypeInit DEF DecidedInv
<1>2. DecidedInv /\ [Next]_vars => DecidedInv'
  BY TypeInductive, UnknownInductive, LastInductive DEF DecidedInv
<1>3. DecidedInv => LastChangeDecides
  <2> SUFFICES ASSUME DecidedInv, CaughtUp, NEW p \in Partitions, NEW i \in DOMAIN topic[p],
                      NEW k \in Keys, LastTouching(p, i, k), outcome[p][i].how = "applied"
               PROVE  IF topic[p][i].op = "d"
                        THEN replica[k] = Absent
                        ELSE /\ replica[k] # Absent
                             /\ \A c \in Columns :
                                  replica[k][c] =
                                    IF c \in outcome[p][i].meta \cap topic[p][i].columns
                                      THEN topic[p][i].content[c] ELSE Default
    BY DEF LastChangeDecides
  <2>1. i \in 1 .. Len(topic[p]) /\ Len(topic[p]) \in Nat
    BY Typed DEF DecidedInv
  <2>2. i <= position[p] /\ ~InHand(p, i)
    BY <2>1 DEF CaughtUp, InHand
  <2>3. Decided(p, i, k)
    BY <2>1, <2>2 DEF DecidedInv, LastDecides
  <2>4. topic[p][i].content \in Contents
    BY <2>1, Typed DEF DecidedInv, Records
  <2>5. Inserted(topic[p][i], outcome[p][i].meta) # Absent
    BY <2>4, ApplyAssumption DEF Inserted, Contents
  <2> QED BY <2>3, <2>5 DEF Decided, Inserted
<1> QED BY <1>1, <1>2, <1>3, PTL DEF Spec

-----------------------------------------------------------------------------
(* What keeps a row in the replica.  The program's own MySQL source writes a
   delete as an insert: the run `resurrect` shows what becomes of it. *)

(* A record is never taken back. *)
LEMMA StaysPutBefore ==
  ASSUME TypeInv, [Next]_vars, NEW k \in Keys, StaysPut(k)' PROVE StaysPut(k)
<1>1. ASSUME NEW p \in Partitions, NEW r \in Records, Appends(p, r)
      PROVE  StaysPut(k)
  <2>1. \A q \in Partitions : \A i \in 1 .. Len(topic[q]) :
          i \in 1 .. Len(topic'[q]) /\ topic'[q][i] = topic[q][i]
    BY <1>1, Appended DEF Appends
  <2> QED BY <2>1 DEF StaysPut, MovesFrom, MovesAcross
<1>2. CASE UNCHANGED topic
  BY <1>2 DEF StaysPut, MovesFrom, MovesAcross
<1> QED BY <1>1, <1>2, Steps DEF AlterTable, AttemptEnds, Quiet

(* A row leaves the source by a delete, which is recorded behind all that wrote
   the row, or by a move. *)
LEMMA DeletesInductive ==
  ASSUME ~OwnProducer, TypeInv, DeletesRecorded, [Next]_vars PROVE DeletesRecorded'
<1>1. \A p \in Partitions : Len(topic[p]) \in Nat
  BY Typed
<1>2. ASSUME NEW p \in Partitions, NEW r \in Records, Appends(p, r)
      PROVE  DeletesRecorded'
  <2> SUFFICES ASSUME NEW k \in Keys, StaysPut(k)', table'[k] = Absent,
                      NEW i \in 1 .. Len(topic'[PartitionOf[k]]),
                      Writes(PartitionOf[k], i, k)'
               PROVE  \E j \in i + 1 .. Len(topic'[PartitionOf[k]]) :
                        Deletes(topic'[PartitionOf[k]][j], k)
    BY DEF DeletesRecorded, Deletes, Deleted
  <2> DEFINE q == PartitionOf[k]
             n == Len(topic[q])
  <2>1. q \in Partitions /\ n \in Nat
    BY <1>1, ApplyAssumption
  <2>2. /\ Len(topic'[q]) = IF q = p THEN n + 1 ELSE n
        /\ \A j \in 1 .. n : topic'[q][j] = topic[q][j]
        /\ q = p => topic'[q][n + 1] = r
        /\ topic'[p][Len(topic[p]) + 1] = r /\ Len(topic[p]) + 1 \in 1 .. Len(topic'[p])
    <3>1. /\ Len(topic'[p]) = Len(topic[p]) + 1 /\ topic'[p][Len(topic[p]) + 1] = r
          /\ q # p => topic'[q] = topic[q]
      BY <1>2, <2>1, Appended DEF Appends
    <3>2. \A j \in 1 .. n : topic'[q][j] = topic[q][j]
      BY <1>2, <2>1, Appended DEF Appends
    <3> QED BY <1>1, <2>1, <3>1, <3>2
  <2>3. ~MovesFrom(r, k)
    BY <2>2 DEF StaysPut, MovesFrom
  <2>4. StaysPut(k)
    BY StaysPutBefore
  <2> HIDE DEF q, n
  <2>5. CASE table[k] = Absent /\ ~(r.op \in Upsert /\ r.to = k)
    <3>1. i \in 1 .. n /\ Writes(q, i, k)
      BY <2>1, <2>2, <2>5 DEF Writes, q
    <3>2. PICK j \in i + 1 .. n : Deletes(topic[q][j], k)
      BY <2>4, <2>5, <3>1 DEF DeletesRecorded, q, n
    <3>3. j \in i + 1 .. Len(topic'[q]) /\ topic'[q][j] = topic[q][j]
      BY <2>1, <2>2, <3>1, <3>2
    <3> QED BY <3>2, <3>3 DEF q
  <2>6. CASE Deletes(r, k) /\ p = q
    <3>1. i # n + 1
      BY <2>2, <2>6 DEF Writes, Deletes, Upsert, q
    <3>2. n + 1 \in i + 1 .. Len(topic'[q])
      BY <2>1, <2>2, <2>6, <3>1 DEF q
    <3> QED BY <2>2, <2>6, <3>2 DEF q
  <2> QED BY <1>2, <2>3, <2>5, <2>6 DEF Appends, q
<1>3. ASSUME UNCHANGED topic, \A k \in Keys : table'[k] = Absent => table[k] = Absent
      PROVE  DeletesRecorded'
  BY <1>3 DEF DeletesRecorded, StaysPut, MovesFrom, MovesAcross, Writes, Deletes, Deleted
<1>4. ASSUME NEW t \in {"source", "replica"}, NEW c \in Columns, AlterTable(t, c), NEW k \in Keys,
             table'[k] = Absent
      PROVE  table[k] = Absent
  <2>1. table[k] # Absent => [table[k] EXCEPT ![c] = Default] # Absent
    <3>1. table[k] # Absent => table[k] \in Contents
      BY DEF TypeInv, TypeOK, SourceContents
    <3> QED BY <3>1, ApplyAssumption DEF Contents
  <2> QED BY <1>4, <2>1 DEF AlterTable, Without
<1> QED BY <1>2, <1>3, <1>4, Steps DEF AlterTable, AttemptEnds, Quiet

(* An attempt writes a row, deletes it or leaves it; a delete that leaves the
   row is skipped. *)
LEMMA RowsInductive ==
  ASSUME TypeInv, RowsWritten, [Next]_vars PROVE RowsWritten'
<1>1. \A p \in Partitions : /\ Len(topic[p]) \in Nat /\ position[p] \in Nat
                            /\ position[p] <= Len(topic[p])
  BY Typed
<1>2. \A k \in Keys : PartitionOf[k] \in Partitions
  BY ApplyAssumption
<1>3. ASSUME NEW p \in Partitions, NEW r \in Records, Appends(p, r)
      PROVE  RowsWritten'
  <2>1. UNCHANGED <<status, position, partition, replica>> /\ AppendRecord(p, r)
    BY <1>3 DEF Appends, AppendRecord
  <2> SUFFICES ASSUME NEW k \in Keys, StaysPut(k)', replica[k] # Absent
               PROVE  \E i \in 1 .. Len(topic'[PartitionOf[k]]) :
                        /\ Writes(PartitionOf[k], i, k)'
                        /\ \A j \in i + 1 .. Len(topic'[PartitionOf[k]]) :
                             Deletes(topic'[PartitionOf[k]][j], k) => Ineffective(PartitionOf[k], j)'
    BY <2>1 DEF RowsWritten, Deletes, Deleted
  <2> DEFINE q == PartitionOf[k]
  <2>2. StaysPut(k) /\ q \in Partitions
    BY <1>2, StaysPutBefore
  <2>3. PICK i \in 1 .. Len(topic[q]) :
               /\ Writes(q, i, k)
               /\ \A j \in i + 1 .. Len(topic[q]) :
                    Deletes(topic[q][j], k) => Ineffective(q, j)
    BY <2>2 DEF RowsWritten
  <2>4. \A j \in 1 .. Len(topic[q]) : /\ topic'[q][j] = topic[q][j] /\ outcome'[q][j] = outcome[q][j]
                                      /\ j \in 1 .. Len(topic'[q])
    BY <2>1, <2>2, Appended
  <2>5. Len(topic'[q]) \in Nat
    BY <1>1, <2>1, <2>2, Appended
  <2> HIDE DEF q
  <2>6. ASSUME NEW j \in i + 1 .. Len(topic'[q]), Deletes(topic'[q][j], k)
        PROVE  Ineffective(q, j)'
    <3>1. CASE j \in 1 .. Len(topic[q])
      <4>1. j \in i + 1 .. Len(topic[q]) /\ Deletes(topic[q][j], k)
        BY <1>1, <2>2, <2>4, <2>6, <3>1
      <4>2. Ineffective(q, j)
        BY <2>3, <4>1
      <4> QED BY <2>1, <2>4, <3>1, <4>2 DEF Ineffective, InHand, q
    <3>2. CASE j > Len(topic[q])
      <4>1. j > position[q]
        BY <1>1, <2>2, <2>5, <3>2
      <4> QED BY <2>1, <4>1 DEF Ineffective, q
    <3> QED BY <1>1, <2>2, <2>3, <2>5, <3>1, <3>2
  <2> QED BY <2>3, <2>4, <2>6 DEF Writes, q
<1>4. ASSUME NEW t \in {"source", "replica"}, NEW c \in Columns, AlterTable(t, c)
      PROVE  RowsWritten'
  <2>1. UNCHANGED <<topic, status, position, partition>>
    BY <1>4 DEF AlterTable
  <2>2. \A k \in Keys : replica'[k] # Absent => replica[k] # Absent
    BY <1>4 DEF AlterTable, Without
  <2>3. \A q \in Partitions : \A i \in 1 .. Len(topic[q]) : outcome'[q][i].how = outcome[q][i].how
    BY <1>4, Altered
  <2> SUFFICES ASSUME NEW k \in Keys, StaysPut(k)', replica'[k] # Absent
               PROVE  \E i \in 1 .. Len(topic'[PartitionOf[k]]) :
                        /\ Writes(PartitionOf[k], i, k)'
                        /\ \A j \in i + 1 .. Len(topic'[PartitionOf[k]]) :
                             Deletes(topic'[PartitionOf[k]][j], k) => Ineffective(PartitionOf[k], j)'
    BY DEF RowsWritten, Deletes, Deleted
  <2> SUFFICES ASSUME StaysPut(k), replica[k] # Absent
               PROVE  \E i \in 1 .. Len(topic[PartitionOf[k]]) :
                        /\ Writes(PartitionOf[k], i, k)
                        /\ \A j \in i + 1 .. Len(topic[PartitionOf[k]]) :
                             Deletes(topic[PartitionOf[k]][j], k) => Ineffective(PartitionOf[k], j)'
    BY <2>1, <2>2 DEF Writes, StaysPut
  <2> DEFINE q == PartitionOf[k]
  <2>4. PICK i \in 1 .. Len(topic[q]) :
               /\ Writes(q, i, k)
               /\ \A j \in i + 1 .. Len(topic[q]) :
                    Deletes(topic[q][j], k) => Ineffective(q, j)
    BY DEF RowsWritten
  <2>5. \A j \in i + 1 .. Len(topic[q]) : outcome'[q][j].how = outcome[q][j].how
    BY <1>1, <1>2, <2>3
  <2> QED BY <2>1, <2>4, <2>5 DEF Ineffective, InHand
<1>5. ASSUME NEW how \in {Skipped, [how |-> "applied", meta |-> Meta]}, AttemptEnds(how)
      PROVE  RowsWritten'
  <2>1. /\ UNCHANGED <<topic, position, partition>> /\ status = "processing"
        /\ \/ replica' = replica /\ how = Skipped
           \/ Recognized(Record.op) /\ replica' = Applied(Record, Meta)
    BY <1>5 DEF AttemptEnds
  <2>2. how \in Outcomes /\ (how # Skipped => how.how = "applied") /\ Skipped.how = "skipped"
    BY MetaTyped DEF Skipped, Outcomes
  <2>3. \A q \in Partitions : \A i \in 1 .. Len(topic[q]) :
          outcome'[q][i] = IF InHand(q, i) THEN how ELSE outcome[q][i]
    BY <1>5, <2>2, Finished DEF AttemptEnds
  <2> SUFFICES ASSUME NEW k \in Keys, StaysPut(k)', replica'[k] # Absent
               PROVE  \E i \in 1 .. Len(topic'[PartitionOf[k]]) :
                        /\ Writes(PartitionOf[k], i, k)'
                        /\ \A j \in i + 1 .. Len(topic'[PartitionOf[k]]) :
                             Deletes(topic'[PartitionOf[k]][j], k) => Ineffective(PartitionOf[k], j)'
    BY DEF RowsWritten, Deletes, Deleted
  <2> SUFFICES ASSUME StaysPut(k)
               PROVE  \E i \in 1 .. Len(topic[PartitionOf[k]]) :
                        /\ Writes(PartitionOf[k], i, k)
                        /\ \A j \in i + 1 .. Len(topic[PartitionOf[k]]) :
                             Deletes(topic[PartitionOf[k]][j], k) => Ineffective(PartitionOf[k], j)'
    BY <2>1 DEF Writes, StaysPut
  <2>4. CASE Record.op \in Upsert /\ Record.to = k
    <3>1. /\ partition \in Partitions /\ position[partition] \in 1 .. Len(topic[partition])
          /\ Record = topic[partition][position[partition]]
      BY <2>1, RecordTyped, Typed DEF Record
    <3>2. partition = PartitionOf[k]
      <4>1. RecordPlaced(partition, Record) /\ ~MovesAcross(Record, k)
        BY <3>1 DEF TypeInv, RecordsPlaced, StaysPut
      <4> QED BY <2>4, <4>1 DEF RecordPlaced, MovesAcross, Upsert
    <3>3. Writes(PartitionOf[k], position[partition], k)
      BY <2>4, <3>1, <3>2 DEF Writes
    <3>4. \A j \in position[partition] + 1 .. Len(topic[PartitionOf[k]]) :
            Ineffective(PartitionOf[k], j)'
      BY <1>1, <2>1, <3>1, <3>2 DEF Ineffective
    <3> QED BY <3>1, <3>2, <3>3, <3>4
  <2>5. CASE ~(Record.op \in Upsert /\ Record.to = k)
    <3> DEFINE q == PartitionOf[k]
    <3>1. replica[k] # Absent
      BY <2>1, <2>5, AppliedRows
    <3>2. PICK i \in 1 .. Len(topic[q]) :
                 /\ Writes(q, i, k)
                 /\ \A j \in i + 1 .. Len(topic[q]) :
                      Deletes(topic[q][j], k) => Ineffective(q, j)
      BY <3>1 DEF RowsWritten
    <3> SUFFICES ASSUME NEW j \in i + 1 .. Len(topic[q]), Deletes(topic[q][j], k)
                 PROVE  Ineffective(q, j)'
      BY <3>2
    <3>3. q \in Partitions /\ j \in 1 .. Len(topic[q]) /\ Ineffective(q, j)
      BY <1>1, <1>2, <3>2
    <3> HIDE DEF q
    <3>4. CASE InHand(q, j)
      <4>1. Record = topic[q][j]
        BY <3>4 DEF InHand, Record
      <4>2. how = Skipped
        <5>1. CASE Recognized(Record.op) /\ replica' = Applied(Record, Meta)
          BY <2>1, <4>1, <5>1, AppliedRows DEF Deletes, Upsert, q
        <5> QED BY <2>1, <5>1
      <4>3. outcome'[q][j].how = "skipped"
        BY <2>2, <2>3, <3>3, <3>4, <4>2
      <4> QED BY <4>3 DEF Ineffective, q
    <3>5. CASE ~InHand(q, j)
      BY <2>1, <2>3, <3>3, <3>5 DEF Ineffective, q
    <3> QED BY <3>4, <3>5
  <2> QED BY <2>4, <2>5
<1>6. CASE Quiet
  <2>1. UNCHANGED <<topic, replica, outcome>>
    BY <1>6 DEF Quiet
  <2> SUFFICES ASSUME NEW k \in Keys, StaysPut(k)', replica'[k] # Absent
               PROVE  \E i \in 1 .. Len(topic'[PartitionOf[k]]) :
                        /\ Writes(PartitionOf[k], i, k)'
                        /\ \A j \in i + 1 .. Len(topic'[PartitionOf[k]]) :
                             Deletes(topic'[PartitionOf[k]][j], k) => Ineffective(PartitionOf[k], j)'
    BY DEF RowsWritten, Deletes, Deleted
  <2> SUFFICES ASSUME StaysPut(k), replica[k] # Absent
               PROVE  \E i \in 1 .. Len(topic[PartitionOf[k]]) :
                        /\ Writes(PartitionOf[k], i, k)
                        /\ \A j \in i + 1 .. Len(topic[PartitionOf[k]]) :
                             Deletes(topic[PartitionOf[k]][j], k) => Ineffective(PartitionOf[k], j)'
    BY <2>1 DEF Writes, StaysPut
  <2> DEFINE q == PartitionOf[k]
  <2>2. PICK i \in 1 .. Len(topic[q]) :
               /\ Writes(q, i, k)
               /\ \A j \in i + 1 .. Len(topic[q]) :
                    Deletes(topic[q][j], k) => Ineffective(q, j)
    BY DEF RowsWritten
  <2> SUFFICES ASSUME NEW j \in i + 1 .. Len(topic[q]), Ineffective(q, j)
               PROVE  Ineffective(q, j)'
    BY <2>2
  <2>3. q \in Partitions /\ j \in 1 .. Len(topic[q]) /\ position'[q] \in Nat
    <3>1. TypeInv'
      BY TypeInductive
    <3>2. position' \in [Partitions -> Nat]
      BY <3>1 DEF TypeInv, TypeOK
    <3>3. j \in 1 .. Len(topic[q])
      BY <1>1, <1>2, <2>2
    <3> QED BY <1>2, <3>2, <3>3
  <2> HIDE DEF q
  <2>4. ASSUME j <= position'[q], ~InHand(q, j)' PROVE j <= position[q] /\ ~InHand(q, j)
    BY <1>6, <2>3, <2>4, QuietHands
  <2> QED BY <1>1, <2>1, <2>3, <2>4 DEF Ineffective
<1> QED BY <1>3, <1>4, <1>5, <1>6, Steps

(* With records of Debezium, the replica keeps a row that the source no longer
   has only for the three reasons that OnlyMovesLeaveRows names: a move, one
   across partitions, a delete that failed. *)
THEOREM RowsLeaveWithTheirDeletes ==
  ASSUME ~OwnProducer
  PROVE  Spec => []OnlyMovesLeaveRows
<1>1. Init => LeftInv
  <2> SUFFICES ASSUME Init PROVE LeftInv
    OBVIOUS
  <2>1. \A k \in Keys : PartitionOf[k] \in Partitions /\ Len(topic[PartitionOf[k]]) = 0
    BY ApplyAssumption DEF Init
  <2>2. DeletesRecorded
    BY <2>1 DEF DeletesRecorded
  <2>3. RowsWritten
    BY DEF Init, RowsWritten
  <2> QED BY <2>2, <2>3, TypeInit DEF LeftInv
<1>2. LeftInv /\ [Next]_vars => LeftInv'
  BY TypeInductive, DeletesInductive, RowsInductive DEF LeftInv
<1>3. LeftInv => OnlyMovesLeaveRows
  <2> SUFFICES ASSUME LeftInv, CaughtUp, NEW k \in Keys, replica[k] # Absent, table[k] = Absent
               PROVE  \E p \in Partitions : \E i \in DOMAIN topic[p] :
                        \/ MovesFrom(topic[p][i], k)
                        \/ MovesAcross(topic[p][i], k)
                        \/ Deletes(topic[p][i], k) /\ outcome[p][i].how = "skipped"
    BY DEF OnlyMovesLeaveRows
  <2>1. \A p \in Partitions : DOMAIN topic[p] = 1 .. Len(topic[p]) /\ Len(topic[p]) \in Nat
    BY Typed DEF LeftInv
  <2>2. CASE ~StaysPut(k)
    BY <2>1, <2>2 DEF StaysPut
  <2>3. CASE StaysPut(k)
    <3> DEFINE q == PartitionOf[k]
    <3>1. PICK i \in 1 .. Len(topic[q]) :
                 /\ Writes(q, i, k)
                 /\ \A j \in i + 1 .. Len(topic[q]) :
                      Deletes(topic[q][j], k) => Ineffective(q, j)
      BY <2>3 DEF LeftInv, RowsWritten
    <3>2. PICK j \in i + 1 .. Len(topic[q]) : Deletes(topic[q][j], k)
      BY <2>3, <3>1 DEF LeftInv, DeletesRecorded
    <3>3. q \in Partitions /\ j \in 1 .. Len(topic[q])
      BY <2>1, <3>1, ApplyAssumption
    <3>4. Ineffective(q, j)
      BY <3>1, <3>2
    <3> HIDE DEF q
    <3>5. outcome[q][j].how = "skipped"
      BY <2>1, <3>3, <3>4 DEF Ineffective, InHand, CaughtUp
    <3> QED BY <2>1, <3>2, <3>3, <3>5
  <2> QED BY <2>2, <2>3
<1> QED BY <1>1, <1>2, <1>3, PTL DEF Spec

-----------------------------------------------------------------------------
(* The refinement of ReplicatedTable. *)

(* What was handed out and is not in hand is done. *)
LEMMA DoneTyped ==
  ASSUME TypeInv
  PROVE  /\ Done \in [Partitions -> Nat]
         /\ \A p \in Partitions : Done[p] <= position[p]
<1>1. position \in [Partitions -> Nat] /\ partition \in Partitions
  BY Typed
<1>2. status = "processing" => position[partition] \in Nat \ {0}
  BY <1>1, RecordTyped, Typed
<1> QED BY <1>1, <1>2 DEF Done

(* The columns that upserts write are those of the cache as long as there is one. *)
LEMMA MetaStays ==
  ASSUME TypeInv, columns'["replica"] = columns["replica"], cache' \in {cache, {Meta}}
  PROVE  Meta' = Meta
<1>1. CASE cache' = cache
  BY <1>1 DEF Meta, Described
<1>2. CASE cache' = {Meta}
  BY <1>2 DEF Meta
<1> QED BY <1>1, <1>2

(* Whoever adds a record writes to the log. *)
LEMMA AppendRefines ==
  ASSUME TypeInv, NEW p \in Partitions, NEW r \in Records, Appends(p, r)
  PROVE  Replicated!Write(p)
<1>1. /\ UNCHANGED <<columns, status, position, partition, cache, replica>>
      /\ AppendRecord(p, r)
  BY DEF Appends, AppendRecord
<1>2. UNCHANGED <<Done, replica, columns["replica"], Meta>>
  BY <1>1 DEF Done, Meta, Described
<1>3. /\ Len(topic'[p]) = Len(topic[p]) + 1
      /\ \A i \in 1 .. Len(topic[p]) : topic'[p][i] = topic[p][i]
  BY <1>1, Appended
<1>4. topic' = [topic EXCEPT ![p] = topic'[p]]
  BY <1>1, Typed DEF AppendRecord
<1> QED BY <1>2, <1>3, <1>4 DEF Replicated!Write

(* An ALTER of the source is nothing to the replica. *)
LEMMA AlterRefines ==
  ASSUME TypeInv, NEW t \in {"source", "replica"}, NEW c \in Columns, AlterTable(t, c)
  PROVE  Replicated!Alter(c) \/ UNCHANGED Replicated!vars
<1>1. /\ UNCHANGED <<topic, status, position, partition, cache>>
      /\ columns' = [columns EXCEPT ![t] = IF c \in @ THEN @ \ {c} ELSE @ \cup {c}]
      /\ columns \in [{"source", "replica"} -> SUBSET Columns]
  BY DEF AlterTable, TypeInv, TypeOK
<1>2. UNCHANGED Done
  BY <1>1 DEF Done
<1>3. CASE t = "source"
  <2>1. UNCHANGED <<replica, columns["replica"]>>
    BY <1>1, <1>3 DEF AlterTable
  <2>2. UNCHANGED Meta
    BY <1>1, <2>1, MetaStays
  <2> QED BY <1>1, <1>2, <2>1, <2>2 DEF Replicated!vars
<1>4. CASE t = "replica"
  <2>1. columns'["replica"] = IF c \in columns["replica"] THEN columns["replica"] \ {c}
                                                          ELSE columns["replica"] \cup {c}
    BY <1>1, <1>4
  <2>2. Meta' \in {Meta, columns'["replica"]}
    BY <1>1 DEF Meta, Described
  <2>3. replica' = Without(replica, c)
    BY <1>4 DEF AlterTable
  <2> QED BY <1>1, <1>2, <2>1, <2>2, <2>3 DEF Replicated!Alter, Without
<1> QED BY <1>3, <1>4

(* An attempt at the record in hand is done with it: its upsert leaves nothing of
   the row it finds. *)
LEMMA AttemptRefines ==
  ASSUME TypeInv, UnknownIsDefault,
         NEW how \in {Skipped, [how |-> "applied", meta |-> Meta]}, AttemptEnds(how)
  PROVE  Replicated!Apply(partition)
<1>1. /\ status = "processing" /\ status' # "processing"
      /\ UNCHANGED <<topic, columns, position, partition>>
      /\ cache' \in {cache, {Meta}}
  BY DEF AttemptEnds
<1>2. /\ partition \in Partitions /\ position \in [Partitions -> Nat]
      /\ position[partition] \in 1 .. Len(topic[partition])
      /\ Len(topic[partition]) \in Nat
  BY <1>1, RecordTyped, Typed
<1>3. /\ Done[partition] < Len(topic[partition])
      /\ Done' = [Done EXCEPT ![partition] = @ + 1]
      /\ Done'[partition] = position[partition]
  <2>1. Done[partition] = position[partition] - 1
    BY <1>1, <1>2 DEF Done
  <2>2. /\ Done' = [p \in Partitions |-> position[p]]
        /\ Done \in [Partitions -> Int]
    BY <1>1, <1>2 DEF Done
  <2>3. ASSUME NEW p \in Partitions PROVE Done'[p] = [Done EXCEPT ![partition] = @ + 1][p]
    <3>1. CASE p = partition
      BY <1>2, <2>1, <2>2, <3>1
    <3>2. CASE p # partition
      BY <1>1, <1>2, <2>2, <3>2 DEF Done
    <3> QED BY <3>1, <3>2
  <2>4. Done' = [Done EXCEPT ![partition] = @ + 1]
    BY <2>2, <2>3, Zenon
  <2>5. Done'[partition] = position[partition]
    BY <1>2, <2>2
  <2>6. Done[partition] < Len(topic[partition])
    BY <1>2, <2>1
  <2> QED BY <2>4, <2>5, <2>6, Zenon
<1>4. Meta' = Meta
  BY <1>1, MetaStays
<1>5. Replicated!Replace(Record) \/ Replicated!TakeAway(Record) \/ UNCHANGED replica
  <2>1. CASE replica' = replica
    BY <2>1
  <2>2. CASE /\ Recognized(Record.op) /\ ~Refused(Record, Meta)
             /\ replica' = Applied(Record, Meta)
    <3>1. CASE Record.op \in Upsert
      <4>1. replica' = [replica EXCEPT ![Record.to] = Inserted(Record, Meta)]
        BY <1>1, <2>2, <3>1, UpsertInserts DEF Applied
      <4>2. Meta \subseteq columns["replica"]
        BY <2>2, <3>1 DEF Refused
      <4>3. Inserted(Record, Meta) = Replicated!RowOf(Record)
        BY DEF Inserted, Replicated!RowOf
      <4> QED BY <3>1, <4>1, <4>2, <4>3 DEF Replicated!Replace, Upsert
    <3>2. CASE Record.op = "d"
      <4>1. replica' = [k \in Keys |-> IF k \in Deleted(Record) THEN Absent ELSE replica[k]]
        BY <2>2, <3>2 DEF Applied, Upsert
      <4>2. \A k \in Keys : k \in Deleted(Record) <=> Record.from \in {k, Absent}
        BY DEF Deleted
      <4> QED BY <3>2, <4>1, <4>2 DEF Replicated!TakeAway
    <3> QED BY <2>2, <3>1, <3>2 DEF Recognized
  <2> QED BY <2>1, <2>2 DEF AttemptEnds
<1>6. Record = topic[partition][Done'[partition]]
  BY <1>3 DEF Record
<1> QED BY <1>1, <1>3, <1>4, <1>5, <1>6 DEF Replicated!Apply

(* Only the start of a consumer goes back; a record that is handed out is not
   done. *)
LEMMA QuietRefines ==
  ASSUME TypeInv, Quiet
  PROVE  Replicated!GoBack \/ UNCHANGED Replicated!vars
<1>1. UNCHANGED <<topic, columns, replica>>
  BY DEF Quiet
<1>2. position \in [Partitions -> Nat] /\ \A p \in Partitions : committed[p] \in 0 .. position[p]
  BY Typed
<1>3. CASE StartConsumer
  <2>1. Meta' = columns["replica"]
    BY <1>1, <1>3 DEF StartConsumer, Meta, Described
  <2>2. Done = [p \in Partitions |-> position[p]] /\ Done' = [p \in Partitions |-> committed[p]]
    BY <1>3 DEF StartConsumer, FirstOffset, Done
  <2>3. Done' \in [Partitions -> Nat] /\ \A p \in Partitions : Done'[p] <= Done[p]
    BY <1>2, <2>2
  <2> QED BY <1>1, <2>1, <2>3 DEF Replicated!GoBack
<1>4. CASE ~StartConsumer
  <2>1. UNCHANGED cache
    BY <1>4 DEF Quiet, Poll, StreamFails, AutoCommit, Kill, vars
  <2>2. UNCHANGED Meta
    BY <1>1, <2>1, MetaStays
  <2>3. UNCHANGED Done
    <3>1. ASSUME NEW q \in Partitions, Poll(q) PROVE UNCHANGED Done
      <4>1. /\ status = "polling" /\ status' = "processing" /\ partition' = q
            /\ position' = [position EXCEPT ![q] = position[q] + 1]
        BY <3>1 DEF Poll, AsksForRecord
      <4>2. \A p \in Partitions :
              (IF partition' = p THEN position'[p] - 1 ELSE position'[p]) = position[p]
        BY <1>2, <4>1
      <4> QED BY <4>1, <4>2 DEF Done
    <3>2. CASE StreamFails \/ AutoCommit \/ (Kill /\ status # "processing") \/ UNCHANGED vars
      BY <3>2 DEF StreamFails, AutoCommit, Kill, vars, Done
    <3> QED BY <1>4, <3>1, <3>2 DEF Quiet
  <2> QED BY <1>1, <2>2, <2>3 DEF Replicated!vars
<1> QED BY <1>3, <1>4

(* The replica is a ReplicatedTable: the records of a partition are applied or
   passed over one by one in their order, an upsert replaces the whole row, a
   restart goes back to records that were committed, and nothing else touches it. *)
THEOREM Refinement == Spec => ImplementsReplica
<1>1. Init => Replicated!Init /\ TypeInv /\ UnknownIsDefault
  <2> SUFFICES ASSUME Init PROVE Replicated!Init /\ UnknownIsDefault
    BY TypeInit
  <2>1. Meta = columns["replica"] /\ columns["replica"] \in SUBSET Columns
    BY ApplyAssumption DEF Init, Meta, Described
  <2>2. Done = [p \in Partitions |-> 0]
    BY DEF Init, Done
  <2> QED BY <2>1, <2>2 DEF Init, Replicated!Init, UnknownIsDefault
<1>2. TypeInv /\ UnknownIsDefault /\ [Next]_vars => TypeInv' /\ UnknownIsDefault'
  BY TypeInductive, UnknownInductive
<1>3. TypeInv /\ UnknownIsDefault /\ [Next]_vars => [Replicated!Next]_(Replicated!vars)
  <2> SUFFICES ASSUME TypeInv, UnknownIsDefault, [Next]_vars
               PROVE  Replicated!Next \/ UNCHANGED Replicated!vars
    OBVIOUS
  <2>1. partition \in Partitions
    BY Typed
  <2> QED
    BY <2>1, Steps, AppendRefines, AlterRefines, AttemptRefines, QuietRefines DEF Replicated!Next
<1> QED BY <1>1, <1>2, <1>3, PTL DEF Spec, ImplementsReplica, Replicated!Spec

-----------------------------------------------------------------------------
(* The replica converges to the source, record by record. *)

(* The last record that names a row is followed by the source until the next. *)
LEMMA SourceInductive ==
  ASSUME ~OwnProducer, TypeInv, SourceFollows, [Next]_vars PROVE SourceFollows'
<1>1. ASSUME NEW p \in Partitions, NEW r \in Records, Appends(p, r)
      PROVE  SourceFollows'
  <2>1. /\ AppendRecord(p, r) /\ UNCHANGED alters /\ Recorded(r)
        /\ \A s \in Partitions : /\ Len(topic[s]) \in Nat
                                 /\ DOMAIN topic[s] = 1 .. Len(topic[s])
    BY <1>1, Typed DEF Appends, AppendRecord
  <2>2. \A s \in Partitions : DOMAIN topic'[s] = 1 .. Len(topic'[s])
    BY <2>1, Appended, LenProperties
  <2>3. \A s \in Partitions : \A j \in DOMAIN topic[s] :
          j \in DOMAIN topic'[s] /\ topic'[s][j] = topic[s][j]
    BY <2>1, <2>2, Appended
  <2>4. /\ Len(topic[p]) + 1 \in DOMAIN topic'[p] /\ topic'[p][Len(topic[p]) + 1] = r
        /\ \A s \in Partitions : Len(topic'[s]) = IF s = p THEN Len(topic[p]) + 1 ELSE Len(topic[s])
    BY <2>1, <2>2, Appended
  <2> SUFFICES ASSUME NEW q \in Partitions, NEW i \in 1 .. Len(topic'[q]), NEW k \in Keys,
                      LastNaming(q, i, k)', Settles(topic'[q][i], k)
               PROVE  SourceSays(q, i, k)'
    BY DEF SourceFollows, Settles
  <2>5. CASE q = p /\ i = Len(topic[p]) + 1
    <3>1. topic'[q][i] = r
      BY <2>4, <2>5
    <3>2. table'[k] = IF r.op = "d" THEN Absent ELSE r.content
      BY <2>1, <3>1 DEF Recorded
    <3>3. r.content # Absent
      BY ApplyAssumption DEF Records, Contents
    <3> QED BY <3>1, <3>2, <3>3 DEF SourceSays
  <2>6. CASE ~(q = p /\ i = Len(topic[p]) + 1)
    <3>1. i \in 1 .. Len(topic[q]) /\ (q = p => i <= Len(topic[p]))
      BY <2>1, <2>4, <2>6
    <3>2. topic'[q][i] = topic[q][i]
      BY <2>1, <2>3, <3>1
    <3>3. LastNaming(q, i, k)
      BY <2>3, <3>2 DEF LastNaming, Names, Touches, Deleted
    <3>4. ~Names(r, k)
      <4>1. CASE q = p
        BY <2>1, <2>4, <3>1, <4>1 DEF LastNaming, Names, Touches, Deleted
      <4>2. CASE q # p
        BY <2>4, <4>2 DEF LastNaming, Names, Touches, Deleted
      <4> QED BY <4>1, <4>2
    <3>5. table'[k] = table[k]
      BY <2>1, <3>4 DEF Recorded
    <3>6. SourceSays(q, i, k)
      BY <3>1, <3>2, <3>3 DEF SourceFollows
    <3> QED BY <2>1, <3>2, <3>5, <3>6 DEF SourceSays
  <2> QED BY <2>5, <2>6
<1>2. ASSUME NEW t \in {"source", "replica"}, NEW c \in Columns, AlterTable(t, c)
      PROVE  SourceFollows'
  <2>1. /\ UNCHANGED topic /\ alters' = alters + 1
        /\ table' = IF t = "source" THEN Without(table, c) ELSE table
    BY <1>2 DEF AlterTable
  <2>2. alters \in Nat /\ alters' > 0
    BY <2>1, ApplyAssumption DEF TypeInv, TypeOK
  <2> SUFFICES ASSUME NEW q \in Partitions, NEW i \in 1 .. Len(topic[q]), NEW k \in Keys,
                      LastNaming(q, i, k), Settles(topic[q][i], k)
               PROVE  SourceSays(q, i, k)'
    BY <2>1 DEF SourceFollows, Settles, LastNaming, Names, Touches, Deleted
  <2>3. SourceSays(q, i, k)
    BY DEF SourceFollows
  <2>4. CASE t = "replica"
    BY <2>1, <2>2, <2>3, <2>4 DEF SourceSays
  <2>5. CASE t = "source"
    <3>1. table'[k] = IF table[k] = Absent THEN Absent ELSE [table[k] EXCEPT ![c] = Default]
      BY <2>1, <2>5 DEF Without
    <3>2. ASSUME table[k] # Absent
          PROVE  /\ table'[k] # Absent
                 /\ \A d \in Columns : table'[k][d] = IF d = c THEN Default ELSE table[k][d]
      <4>1. table[k] \in Contents
        BY <3>2 DEF TypeInv, TypeOK, SourceContents
      <4>2. table'[k] \in Contents
        BY <3>1, <3>2, <4>1, ApplyAssumption DEF Contents
      <4> QED BY <3>1, <3>2, <4>1, <4>2, ApplyAssumption DEF Contents
    <3> QED BY <2>1, <2>2, <2>3, <3>1, <3>2 DEF SourceSays
  <2> QED BY <2>4, <2>5
<1>3. ASSUME UNCHANGED <<table, topic, alters>> PROVE SourceFollows'
  BY <1>3 DEF SourceFollows, SourceSays, Settles, LastNaming, Names, Touches, Deleted
<1>4. ASSUME NEW how \in {Skipped, [how |-> "applied", meta |-> Meta]}, AttemptEnds(how)
      PROVE  SourceFollows'
  BY <1>3, <1>4 DEF AttemptEnds
<1>5. CASE Quiet
  BY <1>3, <1>5 DEF Quiet
<1> QED BY <1>1, <1>2, <1>4, <1>5, Steps

(* The last record that names a row is the last that touches it. *)
LEMMA NamingTouches ==
  ASSUME NEW p \in Partitions, NEW i \in DOMAIN topic[p], NEW k \in Keys,
         LastNaming(p, i, k), Settles(topic[p][i], k)
  PROVE  LastTouching(p, i, k)
<1>1. Touches(topic[p][i], k)
  BY DEF Settles, Touches, Deleted
<1> QED BY <1>1 DEF LastNaming, LastTouching, Names

(* Once the program has caught up, a row whose last record was applied exists in
   the replica when it does in the source, and holds the source's values. *)
THEOREM ReplicaFollowsSource ==
  ASSUME ~OwnProducer PROVE Spec => []ReplicaConverges
<1>1. Init => DecidedInv /\ SourceFollows
  <2>1. Init => UnknownIsDefault /\ LastDecides /\ SourceFollows
    BY DEF Init, UnknownIsDefault, LastDecides, SourceFollows
  <2> QED BY <2>1, TypeInit DEF DecidedInv
<1>2. DecidedInv /\ SourceFollows /\ [Next]_vars => DecidedInv' /\ SourceFollows'
  BY TypeInductive, UnknownInductive, LastInductive, SourceInductive DEF DecidedInv
<1>3. DecidedInv /\ SourceFollows => ReplicaConverges
  <2> SUFFICES ASSUME DecidedInv, SourceFollows, CaughtUp,
                      NEW p \in Partitions, NEW i \in DOMAIN topic[p], NEW k \in Keys,
                      LastNaming(p, i, k), Settles(topic[p][i], k),
                      outcome[p][i].how = "applied"
               PROVE  /\ replica[k] = Absent <=> table[k] = Absent
                      /\ table[k] # Absent =>
                           \A c \in topic[p][i].columns \cap outcome[p][i].meta :
                             \/ replica[k][c] = table[k][c]
                             \/ alters > 0 /\ table[k][c] = Default
    BY DEF ReplicaConverges
  <2>1. /\ i \in 1 .. Len(topic[p]) /\ Len(topic[p]) \in Nat
        /\ topic[p][i] \in Records /\ outcome[p][i] \in Outcomes
    BY Typed DEF DecidedInv
  <2>2. i <= position[p] /\ ~InHand(p, i)
    BY <2>1 DEF CaughtUp, InHand
  <2>3. Decided(p, i, k)
    BY <2>1, <2>2, NamingTouches DEF DecidedInv, LastDecides
  <2>4. SourceSays(p, i, k)
    BY <2>1 DEF SourceFollows
  <2>5. CASE topic[p][i].op = "d"
    BY <2>3, <2>4, <2>5 DEF Decided, SourceSays
  <2>6. CASE topic[p][i].op # "d"
    <3> DEFINE row == Inserted(topic[p][i], outcome[p][i].meta)
    <3>1. row \in Contents
      BY <2>1, ApplyAssumption DEF Inserted, Contents, Records
    <3>2. replica[k] = row /\ replica[k] # Absent
      BY <2>3, <2>6, <3>1, ApplyAssumption DEF Decided, Contents
    <3>3. \A c \in topic[p][i].columns \cap outcome[p][i].meta :
            c \in Columns /\ replica[k][c] = topic[p][i].content[c]
      BY <2>1, <3>2 DEF Inserted, Records
    <3> QED BY <2>4, <2>6, <3>2, <3>3 DEF SourceSays
  <2> QED BY <2>5, <2>6
<1> QED BY <1>1, <1>2, <1>3, PTL DEF Spec
=============================================================================
