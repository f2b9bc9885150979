----------------------- MODULE MysqldumpSource_proofs -----------------------
(***************************************************************************)
(* Proofs about MysqldumpSource, for dumps of any length and content, any  *)
(* capacity, any number of threads, channels and failures.                 *)
(***************************************************************************)
EXTENDS MysqldumpSource, InsertSyntax_proofs, FiniteSetTheorems

-----------------------------------------------------------------------------
(* What the source holds.                                                  *)

(* Batches are counted without a look at their statements. *)
BatchBounded ==
  /\ sql_buffer \in Seq(Range(sql_buffer))
  /\ Len(sql_buffer) <= BatchSize
  /\ status = "reading" => Len(sql_buffer) < BatchSize
  /\ status \notin {"reading", "batch"} => sql_buffer = <<>>

(* INSERT statements of a batch, before and after they are parsed. *)
TaskFields == {"at", "sql", "parsed", "left"}

TasksBounded ==
  /\ IsFiniteSet(tasks)
  /\ \A task \in tasks : DOMAIN task = TaskFields /\ task.parsed \in BOOLEAN
  /\ Cardinality(Started) <= Threads
  /\ tasks # {} => status \in {"sending", "panicking"}

ChannelsBounded ==
  /\ waiting \in [Channels -> 0 .. ChannelSize]
  /\ open \subseteq Channels

LimitsInv == BatchBounded /\ TasksBounded /\ ChannelsBounded

(* A batch has room for a statement, a channel for a message. *)
LEMMA Sizes == BatchSize \in Nat \ {0} /\ Threads \in Nat \ {0} /\ ChannelSize \in Nat \ {0}
BY SourceAssumption DEF SourceAssumption, BatchSize

(* The source starts with nothing in its hands. *)
LEMMA LimitsInit == Init => LimitsInv
<1> SUFFICES ASSUME Init PROVE LimitsInv
  OBVIOUS
<1>1. BatchBounded
  BY Sizes DEF Init, BatchBounded, Range
<1>2. TasksBounded
  BY Sizes, FS_EmptySet DEF Init, TasksBounded, Started
<1>3. ChannelsBounded
  BY Sizes DEF Init, ChannelsBounded
<1> QED
  BY <1>1, <1>2, <1>3 DEF LimitsInv

(* What the invariant says is what WithinLimits asks for. *)
LEMMA LimitsSafe == LimitsInv => WithinLimits
BY Sizes DEF LimitsInv, BatchBounded, TasksBounded, ChannelsBounded, WithinLimits

(* A batch grows by one statement while it is read. *)
LEMMA BatchInductive == ASSUME LimitsInv, [Next]_vars PROVE BatchBounded'
<1>1. CASE UNCHANGED <<sql_buffer, status>>
  BY <1>1 DEF LimitsInv, BatchBounded
<1>2. CASE ReadLine
  <2>1. status = "reading" /\ Len(sql_buffer) < BatchSize
        /\ sql_buffer \in Seq(Range(sql_buffer))
    BY <1>2 DEF ReadLine, LimitsInv, BatchBounded
  <2>2. CASE UNCHANGED sql_buffer
    <3>1. status' \in {"reading", "batch"}
      BY <1>2, <2>1 DEF ReadLine
    <3> QED
      BY <2>1, <2>2, <3>1 DEF LimitsInv, BatchBounded
  <2>3. CASE ~UNCHANGED sql_buffer
    <3>1. PICK sql : /\ sql_buffer' = Append(sql_buffer, sql)
                     /\ status' = IF BatchIsFull(sql_buffer') THEN "batch" ELSE status
      BY <1>2, <2>3 DEF ReadLine
    <3>2. sql_buffer \in Seq(Range(sql_buffer) \cup {sql})
      BY <2>1
    <3>3. /\ sql_buffer' \in Seq(Range(sql_buffer) \cup {sql})
          /\ Len(sql_buffer') = Len(sql_buffer) + 1
      BY <3>1, <3>2
    <3>4. sql_buffer' \in Seq(Range(sql_buffer'))
      BY <3>3 DEF Range
    <3>5. Len(sql_buffer) \in Nat
      BY <2>1
    <3> QED
      BY <2>1, <3>1, <3>3, <3>4, <3>5, SourceAssumption
         DEF BatchBounded, BatchIsFull, BatchSize, SourceAssumption
  <2> QED
    BY <2>2, <2>3
<1>3. CASE sql_buffer' = <<>>
  <2>1. <<>> \in Seq(Range(<<>>)) /\ Len(<<>>) = 0
    BY DEF Range
  <2> QED
    BY <1>3, <2>1, Sizes DEF BatchBounded
<1>4. CASE EndFile /\ UNCHANGED sql_buffer
  BY <1>4 DEF EndFile, LeftToParse, LimitsInv, BatchBounded
<1>5. CASE OpenFile \/ AllRead \/ EndBatch
  <2>1. sql_buffer = <<>>
    BY <1>5 DEF OpenFile, AllRead, EndBatch, LimitsInv, BatchBounded
  <2> QED
    BY <1>3, <1>5, <2>1 DEF OpenFile, AllRead, EndBatch, reading
<1>6. CASE \E task \in tasks : StartInsert(task)
  <2>1. sql_buffer = <<>>
    BY <1>6 DEF StartInsert, LimitsInv, BatchBounded
  <2> QED
    BY <1>3, <1>6, <2>1 DEF StartInsert, reading
<1> QED
  BY <1>1, <1>2, <1>3, <1>4, <1>5, <1>6
     DEF Next, Source, Batch, EndFile, ParseCreates, SendRow, OpenFails, ReadFails, Abandon,
         Receive, Disconnect, vars, reading

(* The tasks of a batch are started one by one, as threads become free, and a
   task that goes on or ends takes no other thread. *)
LEMMA TasksInductive == ASSUME LimitsInv, [Next]_vars PROVE TasksBounded'
<1>0. /\ IsFiniteSet(tasks)
      /\ \A task \in tasks : DOMAIN task = TaskFields /\ task.parsed \in BOOLEAN
      /\ Cardinality(Started) <= Threads
      /\ tasks # {} => status \in {"sending", "panicking"}
  BY DEF LimitsInv, TasksBounded
<1>a. Started \in SUBSET tasks /\ IsFiniteSet(Started) /\ Cardinality(Started) \in Nat
  BY <1>0, FS_Subset, FS_CardinalityType DEF Started
<1>1. CASE UNCHANGED tasks /\ (tasks # {} => UNCHANGED status)
  BY <1>0, <1>1 DEF TasksBounded, Started
<1>2. CASE ParseCreates
  <2>1. CASE UNCHANGED tasks
    BY <1>0, <1>1, <1>2, <2>1 DEF ParseCreates
  <2>2. CASE ~UNCHANGED tasks
    <3> DEFINE inserts == {i \in DOMAIN sql_buffer : IsInsert(sql_buffer[i])}
               TaskOf == [i \in inserts |-> [at |-> i, sql |-> sql_buffer[i],
                                             parsed |-> FALSE, left |-> <<>>]]
    <3>1. /\ tasks' = {[at |-> i, sql |-> sql_buffer[i],
                        parsed |-> FALSE, left |-> <<>>] : i \in inserts}
          /\ status' = "sending"
      BY <1>2, <2>2 DEF ParseCreates
    <3>2. IsFiniteSet(inserts)
      <4>1. DOMAIN sql_buffer = 1 .. Len(sql_buffer) /\ Len(sql_buffer) \in Nat
        BY DEF LimitsInv, BatchBounded
      <4>2. IsFiniteSet(DOMAIN sql_buffer)
        BY <4>1, FS_Interval
      <4> QED
        BY <4>2, FS_Subset
    <3>3. TaskOf \in Surjection(inserts, tasks')
      BY <3>1 DEF Surjection
    <3>4. IsFiniteSet(tasks')
      BY <3>2, <3>3, FS_Surjection
    <3>5. \A task \in tasks' : DOMAIN task = TaskFields /\ task.parsed = FALSE
      BY <3>1 DEF TaskFields
    <3>6. Started' = {}
      BY <3>5 DEF Started
    <3>7. Cardinality(Started') <= Threads
      BY <3>6, FS_EmptySet, Sizes
    <3> HIDE DEF inserts, TaskOf
    <3> QED
      BY <3>1, <3>4, <3>5, <3>7 DEF TasksBounded
  <2> QED
    BY <2>1, <2>2
<1>3. ASSUME NEW task \in tasks, StartInsert(task) PROVE TasksBounded'
  <2>1. /\ status \in {"sending", "panicking"} /\ status' \in {"sending", "panicking"}
        /\ ~task.parsed /\ Cardinality(Started) < Threads
    BY <1>3 DEF StartInsert
  <2>2. IsFiniteSet(Others(task))
    BY <1>0, FS_Subset DEF Others
  <2>3. CASE tasks' = Others(task)
    <3>1. Started' = Started
      BY <2>1, <2>3 DEF Started, Others
    <3> QED
      BY <1>0, <2>1, <2>2, <2>3, <3>1 DEF TasksBounded, Others
  <2>4. CASE tasks' # Others(task)
    <3>1. PICK records : tasks' = Others(task) \cup
                                   {[task EXCEPT !.parsed = TRUE, !.left = records]}
      BY <1>3, <2>4 DEF StartInsert
    <3> DEFINE begun == [task EXCEPT !.parsed = TRUE, !.left = records]
    <3>2. DOMAIN begun = TaskFields /\ begun.parsed = TRUE
      BY <1>0 DEF TaskFields
    <3>3. Started' = Started \cup {begun}
      BY <2>1, <3>1, <3>2 DEF Started, Others
    <3>4. Cardinality(Started') \in {Cardinality(Started), Cardinality(Started) + 1}
      BY <1>a, <3>3, FS_AddElement
    <3>5. IsFiniteSet(tasks')
      BY <2>2, <3>1, FS_AddElement
    <3>6. \A t \in tasks' : DOMAIN t = TaskFields /\ t.parsed \in BOOLEAN
      BY <1>0, <3>1, <3>2 DEF Others
    <3>7. Cardinality(Started') <= Threads
      BY <1>a, <2>1, <3>4, Sizes
    <3> QED
      BY <2>1, <3>5, <3>6, <3>7 DEF TasksBounded
  <2> QED
    BY <2>3, <2>4
<1>4. ASSUME NEW task \in tasks, SendRow(task) PROVE TasksBounded'
  <2>1. status \in {"sending", "panicking"} /\ UNCHANGED status /\ task.parsed
    BY <1>4 DEF SendRow
  <2>2. IsFiniteSet(Others(task))
    BY <1>0, FS_Subset DEF Others
  <2>3. task \in Started /\ IsFiniteSet(Started \ {task})
        /\ Cardinality(Started \ {task}) = Cardinality(Started) - 1
    BY <1>a, <2>1, FS_RemoveElement DEF Started
  <2>4. CASE tasks' = Others(task)
    <3>1. Started' = Started \ {task}
      BY <2>4 DEF Started, Others
    <3>2. Cardinality(Started') <= Threads
      BY <1>0, <1>a, <2>3, <3>1, Sizes
    <3> QED
      BY <1>0, <2>1, <2>2, <2>4, <3>2 DEF TasksBounded, Others
  <2>5. CASE tasks' # Others(task)
    <3> DEFINE further == [task EXCEPT !.left = Tail(@)]
    <3>1. tasks' = Others(task) \cup {further}
      BY <1>4, <2>5 DEF SendRow
    <3>2. DOMAIN further = TaskFields /\ further.parsed = task.parsed
      BY <1>0 DEF TaskFields
    <3>3. Started' = (Started \ {task}) \cup {further}
      BY <2>1, <3>1, <3>2 DEF Started, Others
    <3> DEFINE rest == Started \ {task}
    <3>a. Cardinality(rest \cup {further}) \in {Cardinality(rest), Cardinality(rest) + 1}
      BY <2>3, FS_AddElement
    <3>4. Cardinality(Started') \in {Cardinality(Started) - 1, Cardinality(Started)}
      BY <1>a, <2>3, <3>3, <3>a
    <3>5. IsFiniteSet(tasks')
      BY <2>2, <3>1, FS_AddElement
    <3>6. \A t \in tasks' : DOMAIN t = TaskFields /\ t.parsed \in BOOLEAN
      BY <1>0, <3>1, <3>2 DEF Others
    <3>7. Cardinality(Started') <= Threads
      BY <1>0, <1>a, <3>4, Sizes
    <3> QED
      BY <2>1, <3>5, <3>6, <3>7 DEF TasksBounded
  <2> QED
    BY <2>4, <2>5
<1>5. ASSUME NEW task \in tasks, Abandon(task) PROVE TasksBounded'
  <2>1. status = "panicking" /\ UNCHANGED status /\ ~task.parsed /\ tasks' = Others(task)
    BY <1>5 DEF Abandon
  <2>2. IsFiniteSet(tasks')
    BY <1>0, <2>1, FS_Subset DEF Others
  <2>3. Started' = Started
    BY <2>1 DEF Started, Others
  <2> QED
    BY <1>0, <2>1, <2>2, <2>3 DEF TasksBounded, Others
<1>6. CASE OpenFile \/ AllRead \/ ReadLine \/ EndFile \/ EndBatch
  <2>1. tasks = {} /\ UNCHANGED tasks
    BY <1>0, <1>6, SMTT(30) DEF OpenFile, AllRead, ReadLine, EndFile, EndBatch
  <2> QED
    BY <1>1, <2>1
<1>7. CASE OpenFails \/ ReadFails \/ (\E channel \in Channels : Receive(channel) \/ Disconnect(channel))
           \/ UNCHANGED vars
  BY <1>1, <1>7, SMTT(30) DEF OpenFails, ReadFails, Receive, Disconnect, vars
<1> QED
  BY <1>2, <1>3, <1>4, <1>5, <1>6, <1>7 DEF Next, Source, Batch

(* A channel is filled by a record that finds room, one at a time. *)
LEMMA ChannelsInductive == ASSUME LimitsInv, [Next]_vars PROVE ChannelsBounded'
<1>1. CASE UNCHANGED <<waiting, open>>
  BY <1>1 DEF LimitsInv, ChannelsBounded
<1>2. ASSUME NEW task \in tasks, SendRow(task) PROVE ChannelsBounded'
  <2>1. CASE UNCHANGED waiting
    BY <1>1, <1>2, <2>1 DEF SendRow
  <2>2. CASE ~UNCHANGED waiting
    <3>1. PICK channel \in open : /\ HasRoom(channel)
                                  /\ waiting' = [waiting EXCEPT ![channel] = @ + 1]
      BY <1>2, <2>2 DEF SendRow
    <3>2. waiting[channel] \in 0 .. ChannelSize /\ waiting[channel] < ChannelSize
      BY <3>1 DEF HasRoom, LimitsInv, ChannelsBounded
    <3>3. waiting[channel] + 1 \in 0 .. ChannelSize
      BY <3>2, Sizes
    <3> QED
      BY <1>2, <3>1, <3>3 DEF SendRow, LimitsInv, ChannelsBounded
  <2> QED
    BY <2>1, <2>2
<1>3. ASSUME NEW channel \in Channels, Receive(channel) PROVE ChannelsBounded'
  <2>1. waiting[channel] \in 0 .. ChannelSize /\ waiting[channel] > 0
    BY <1>3 DEF Receive, LimitsInv, ChannelsBounded
  <2>2. waiting[channel] - 1 \in 0 .. ChannelSize
    BY <2>1, Sizes
  <2> QED
    BY <1>3, <2>2 DEF Receive, LimitsInv, ChannelsBounded
<1>4. ASSUME NEW channel \in Channels, Disconnect(channel) PROVE ChannelsBounded'
  BY <1>4 DEF Disconnect, LimitsInv, ChannelsBounded
<1> QED
  BY <1>1, <1>2, <1>3, <1>4
     DEF Next, Source, Batch, OpenFile, AllRead, ReadLine, EndFile, ParseCreates, EndBatch,
         StartInsert, OpenFails, ReadFails, Abandon, vars, receiving

(* However long the dump, its statements and its rows are, and however slow the
   receivers: what the source holds stays within the batch, the threads and the
   channels, and no batch is read while rows of another one are being sent. *)
THEOREM LimitsKept == Spec => []WithinLimits
<1>1. Init => LimitsInv
  BY LimitsInit
<1>2. LimitsInv /\ [Next]_vars => LimitsInv'
  BY BatchInductive, TasksInductive, ChannelsInductive DEF LimitsInv
<1>3. LimitsInv => WithinLimits
  BY LimitsSafe
<1> QED
  BY <1>1, <1>2, <1>3, PTL DEF Spec

-----------------------------------------------------------------------------
(* Types.                                                                  *)

(* Every table in the cache was created, and has the columns of one of its
   definitions. *)
TypeInv ==
  /\ LimitsInv
  /\ failures \in 0 .. MaxFailures
  /\ status \in {"opening", "reading", "batch", "sending", "panicking", "done", "panicked"}
  /\ CacheTyped
  /\ IsABag(sent)

(* A record more in a bag leaves a bag. *)
LEMMA RecordAdded ==
  ASSUME NEW bag, IsABag(bag), NEW record PROVE IsABag(bag (+) SetToBag({record}))
<1> DEFINE one == SetToBag({record})
           both == bag (+) one
           count(b, e) == IF e \in DOMAIN b THEN b[e] ELSE 0
<1>1. one = [e \in {record} |-> 1]
  BY DEF SetToBag
<1>2. bag \in [DOMAIN bag -> {n \in Nat : n > 0}]
  BY DEF IsABag
<1>3. both = [e \in DOMAIN bag \cup {record} |-> count(bag, e) + count(one, e)]
  BY <1>1 DEF (+)
<1>4. ASSUME NEW e \in DOMAIN bag \cup {record}
      PROVE  count(bag, e) + count(one, e) \in {n \in Nat : n > 0}
  BY <1>1, <1>2
<1> HIDE DEF count
<1>5. both \in [DOMAIN both -> {n \in Nat : n > 0}]
  BY <1>3, <1>4
<1> QED BY <1>5 DEF IsABag

(* The last of a table's definitions is one of them. *)
LEMMA LastCreates ==
  ASSUME NEW n \in Nat, NEW places \in SUBSET (0 .. n), NEW definitions,
         DOMAIN definitions = places, NEW t \in CreatedBy(definitions)
  PROVE  LastOf(t, definitions) \in Range(definitions)
         /\ Definitions[LastOf(t, definitions)].table = t
<1> DEFINE at == {i \in DOMAIN definitions : Definitions[definitions[i]].table = t}
<1>1. at \subseteq 0 .. n /\ at # {}
  BY DEF CreatedBy, Range
<1>2. \E i \in at : \A j \in at : i >= j
  <2> HIDE DEF at
  <2> QED BY <1>1, GreatestElement
<1>3. Max(at) \in at
  <2> HIDE DEF at
  <2> QED BY <1>2 DEF Max
<1> QED BY <1>3 DEF LastOf, Range

(* parse_create_table leaves a cache of the dump's definitions. *)
LEMMA CacheKept ==
  ASSUME CacheTyped, NEW n \in Nat, NEW places \in SUBSET (0 .. n),
         NEW definitions \in [places -> DOMAIN Definitions],
         table_cache' = WithTables(table_cache, definitions)
  PROVE  CacheTyped'
<1> SUFFICES ASSUME NEW t \in DOMAIN table_cache'
             PROVE  \E d \in DOMAIN Definitions :
                      Definitions[d].table = t /\ table_cache'[t] = Definitions[d].columns
  BY DEF CacheTyped
<1>1. CASE t \in CreatedBy(definitions)
  <2>1. table_cache'[t] = Definitions[LastOf(t, definitions)].columns
    BY <1>1 DEF WithTables
  <2>2. DOMAIN definitions = places /\ Range(definitions) \subseteq DOMAIN Definitions
    BY DEF Range
  <2>3. LastOf(t, definitions) \in Range(definitions)
        /\ Definitions[LastOf(t, definitions)].table = t
    BY <1>1, <2>2, LastCreates
  <2> QED BY <2>1, <2>2, <2>3
<1>2. CASE t \notin CreatedBy(definitions)
  <2>1. t \in DOMAIN table_cache /\ table_cache'[t] = table_cache[t]
    BY <1>2 DEF WithTables
  <2> QED BY <2>1 DEF CacheTyped
<1> QED BY <1>1, <1>2

(* The source starts with the types it keeps. *)
LEMMA TypesInit == Init => TypeInv
BY LimitsInit, SourceAssumption, SMTT(30)
   DEF Init, TypeInv, CacheTyped, EmptyBag, SetToBag, IsABag

(* A step keeps them. *)
LEMMA TypesInductive == ASSUME TypeInv, [Next]_vars PROVE TypeInv'
<1>1. LimitsInv'
  BY BatchInductive, TasksInductive, ChannelsInductive DEF LimitsInv, TypeInv
<1>2. (failures \in 0 .. MaxFailures)'
  <2>1. UNCHANGED failures \/ (failures < MaxFailures /\ failures' = failures + 1)
    BY ZenonT(40)
       DEF Next, Source, Batch, OpenFile, OpenFails, AllRead, ReadLine, EndFile, ReadFails,
           ParseCreates, StartInsert, SendRow, Abandon, EndBatch, Receive, Disconnect, vars,
           reading
  <2>2. failures \in 0 .. MaxFailures /\ MaxFailures \in Nat
    BY SourceAssumption, SMTT(30) DEF SourceAssumption, TypeInv
  <2> QED BY <2>1, <2>2, SMTT(30)
<1>3. (status \in {"opening", "reading", "batch", "sending", "panicking", "done", "panicked"})'
  BY ZenonT(40)
     DEF TypeInv, Next, Source, Batch, OpenFile, OpenFails, AllRead, ReadLine, EndFile, ReadFails,
         ParseCreates, StartInsert, SendRow, Abandon, EndBatch, Receive, Disconnect, vars
<1>4. CacheTyped'
  <2>1. CASE UNCHANGED table_cache
    BY <2>1 DEF CacheTyped, TypeInv
  <2>2. CASE ParseCreates /\ ~UNCHANGED table_cache
    <3> DEFINE creates == {i \in DOMAIN sql_buffer : IsCreateTable(sql_buffer[i])}
    <3>1. PICK parsed \in [creates -> DOMAIN Definitions \cup {"error"}] :
            /\ \A i \in creates : parsed[i] # "error"
            /\ table_cache' = WithTables(table_cache, parsed)
      BY <2>2 DEF ParseCreates
    <3>2. Len(sql_buffer) \in Nat /\ creates \subseteq 0 .. Len(sql_buffer)
      BY DEF TypeInv, LimitsInv, BatchBounded
    <3> HIDE DEF creates
    <3>3. parsed \in [creates -> DOMAIN Definitions]
      BY <3>1, SMTT(30)
    <3> QED BY <3>1, <3>2, <3>3, CacheKept DEF TypeInv
  <2> QED
    BY <2>1, <2>2
       DEF Next, Source, Batch, OpenFile, OpenFails, AllRead, ReadLine, EndFile, ReadFails,
           StartInsert, SendRow, Abandon, EndBatch, Receive, Disconnect, vars
<1>5. IsABag(sent')
  <2>1. CASE UNCHANGED sent
    BY <2>1 DEF TypeInv
  <2>2. ASSUME NEW task \in tasks, SendRow(task) PROVE IsABag(sent')
    BY <2>2, RecordAdded DEF SendRow, TypeInv
  <2> QED
    BY <2>1, <2>2
       DEF Next, Source, Batch, OpenFile, OpenFails, AllRead, ReadLine, EndFile, ReadFails,
           ParseCreates, StartInsert, Abandon, EndBatch, Receive, Disconnect, vars, receiving
<1> QED BY <1>1, <1>2, <1>3, <1>4, <1>5 DEF TypeInv

(* The state has its types, and every table in the cache has all the columns of
   one of its definitions, whatever a batch creates anew and whatever it cuts
   short. *)
THEOREM TypeCorrect == Spec => []TypeOK
<1>1. Init => TypeInv
  BY TypesInit
<1>2. TypeInv /\ [Next]_vars => TypeInv'
  BY TypesInductive
<1>3. TypeInv => TypeOK
  BY Sizes DEF TypeInv, TypeOK, LimitsInv, ChannelsBounded
<1> QED
  BY <1>1, <1>2, <1>3, PTL DEF Spec

-----------------------------------------------------------------------------
(* What the source makes of mysqldump's texts.                             *)

(* When the source begins with a statement, it is one that its parser reads
   back as the rows that were dumped: InsertReadBack, for the rows that the
   constants name. *)
THEOREM DumpedRowsCorrect == Spec => []DumpedRowsParse
<1>1. DumpedRowsParse
  BY DumpedRowsReadBack DEF DumpedRowsParse
<1> QED
  BY <1>1, PTL

-----------------------------------------------------------------------------
(* The lines of a statement.                                               *)

(* What the texts of a dump are made of: the characters of the INSERT syntax, the texts
   of CREATE statements, and the words around both. *)
Marks == Symbols \cup DOMAIN Definitions
         \cup {"CREATE", "TABLE", "LOCK", "TABLES", "--", "text", "EOF", " ", ";", "\n"}

(* A prefix is read element by element. *)
LEMMA PrefixAt ==
  ASSUME NEW T, NEW s \in Seq(T), NEW t \in Seq(T), Len(s) <= Len(t)
  PROVE  IsPrefix(s, t) <=> \A i \in 1 .. Len(s) : s[i] = t[i]
<1> DEFINE n == Len(s)
           u == SubSeq(t, 1, n)
           v == SubSeq(s, 1, n)
<1>1. n \in Nat /\ n <= Len(t) /\ Len(t) \in Nat
  OBVIOUS
<1>2. \A i \in 1 .. n : t[i] \in T /\ s[i] \in T
  BY <1>1, ElementOfSeq
<1>3. u \in Seq(T) /\ Len(u) = n /\ \A i \in 1 .. n : u[i] = t[i]
  BY <1>1, <1>2, SubSeqProperties
<1>4. v \in Seq(T) /\ Len(v) = n /\ \A i \in 1 .. n : v[i] = s[i]
  BY <1>1, <1>2, SubSeqProperties
<1>5. (\A i \in 1 .. n : s[i] = t[i]) => u = v
  <2> HIDE DEF u, v
  <2> QED BY <1>3, <1>4, SeqEqual
<1>6. u = v => \A i \in 1 .. n : s[i] = t[i]
  <2> HIDE DEF u, v
  <2> QED BY <1>3, <1>4
<1> QED BY <1>1, <1>5, <1>6 DEF IsPrefix

(* Reverse turns a sequence round. *)
LEMMA ReversedAt ==
  ASSUME NEW T, NEW t \in Seq(T)
  PROVE  /\ Reverse(t) \in Seq(T) /\ Len(Reverse(t)) = Len(t)
         /\ \A i \in 1 .. Len(t) : Reverse(t)[i] = t[Len(t) - i + 1]
<1>1. Len(t) \in Nat
  OBVIOUS
<1>2. \A i \in 1 .. Len(t) : (Len(t) - i) + 1 \in 1 .. Len(t)
  BY <1>1
<1>3. \A i \in 1 .. Len(t) : t[(Len(t) - i) + 1] \in T
  BY <1>2, ElementOfSeq
<1> QED BY <1>1, <1>2, <1>3 DEF Reverse

(* The last two marks of a line of at least two decide whether a statement ends
   with it. *)
LEMMA LastLineEnds ==
  ASSUME NEW x \in Seq(Marks), NEW line \in Seq(Marks), Len(line) >= 2
  PROVE  Terminated(x \o line)
           <=> \/ line[Len(line)] = ";"
               \/ line[Len(line)] = "\n" /\ line[Len(line) - 1] = ";"
<1> DEFINE semicolon == ";"
           feed == "\n"
           t == x \o line
           n == Len(t)
           m == Len(line)
           back == Reverse(t)
           one == <<semicolon>>
           two == <<semicolon, feed>>
<1>0. semicolon \in Marks /\ feed \in Marks
  BY DEF Marks
<1> HIDE DEF semicolon, feed
<1>1. /\ t \in Seq(Marks) /\ n \in Nat /\ m \in Nat /\ m >= 2 /\ Len(x) \in Nat /\ n = Len(x) + m
      /\ \A i \in 1 .. Len(x) + m : t[i] = IF i <= Len(x) THEN x[i] ELSE line[i - Len(x)]
  BY ConcatProperties
<1>2. t[n] = line[m] /\ t[n - 1] = line[m - 1] /\ n >= 2
  <2> HIDE DEF t, n, m
  <2>1. /\ n \in 1 .. Len(x) + m /\ n - 1 \in 1 .. Len(x) + m /\ n >= 2
        /\ ~(n <= Len(x)) /\ ~(n - 1 <= Len(x)) /\ n - Len(x) = m /\ n - 1 - Len(x) = m - 1
    BY <1>1
  <2> QED BY <1>1, <2>1
<1>3. /\ back \in Seq(Marks) /\ Len(back) = n
      /\ \A i \in 1 .. n : back[i] = t[n - i + 1]
  <2> HIDE DEF t
  <2> QED BY <1>1, ReversedAt
<1>4. back[1] = t[n] /\ back[2] = t[n - 1]
  <2> HIDE DEF t, n, m, back
  <2>1. 1 \in 1 .. n /\ 2 \in 1 .. n /\ n - 1 + 1 = n /\ n - 2 + 1 = n - 1
    BY <1>1, <1>2
  <2> QED BY <1>3, <2>1
<1>5. /\ one \in Seq(Marks) /\ two \in Seq(Marks) /\ Len(one) = 1 /\ Len(two) = 2
      /\ one[1] = semicolon /\ two[1] = semicolon /\ two[2] = feed
  BY <1>0
<1> HIDE DEF t, n, m, back, one, two
<1>6. /\ Reverse(one) \in Seq(Marks) /\ Len(Reverse(one)) = 1 /\ Reverse(one)[1] = semicolon
  <2>1. /\ Reverse(one) \in Seq(Marks) /\ Len(Reverse(one)) = Len(one)
        /\ \A i \in 1 .. Len(one) : Reverse(one)[i] = one[Len(one) - i + 1]
    BY <1>5, ReversedAt
  <2> QED BY <1>5, <2>1
<1>7. /\ Reverse(two) \in Seq(Marks) /\ Len(Reverse(two)) = 2 /\ Reverse(two)[1] = feed
      /\ Reverse(two)[2] = semicolon
  <2>1. /\ Reverse(two) \in Seq(Marks) /\ Len(Reverse(two)) = Len(two)
        /\ \A i \in 1 .. Len(two) : Reverse(two)[i] = two[Len(two) - i + 1]
    BY <1>5, ReversedAt
  <2> QED BY <1>5, <2>1
<1>8. /\ IsSuffix(one, t) <=> t[n] = semicolon
      /\ IsSuffix(two, t) <=> t[n] = feed /\ t[n - 1] = semicolon
  <2>0. ASSUME NEW r \in Seq(Marks), Len(r) <= n
        PROVE  IsPrefix(r, back) <=> \A i \in 1 .. Len(r) : r[i] = back[i]
    BY <1>3, <2>0, PrefixAt
  <2>1. IsPrefix(Reverse(one), back) <=> \A i \in 1 .. 1 : Reverse(one)[i] = back[i]
    <3>1. Len(Reverse(one)) <= n
      BY <1>1, <1>2, <1>6
    <3> QED BY <1>6, <2>0, <3>1
  <2>2. IsPrefix(Reverse(two), back) <=> \A i \in 1 .. 2 : Reverse(two)[i] = back[i]
    BY <1>2, <1>7, <2>0
  <2>3. 1 .. 2 = {1, 2} /\ 1 .. 1 = {1}
    OBVIOUS
  <2>4. /\ IsSuffix(one, t) <=> IsPrefix(Reverse(one), back)
        /\ IsSuffix(two, t) <=> IsPrefix(Reverse(two), back)
    BY DEF IsSuffix, back
  <2> QED BY <1>4, <1>6, <1>7, <2>1, <2>2, <2>3, <2>4
<1>9. Terminated(t) <=> IsSuffix(two, t) \/ IsSuffix(one, t)
  BY DEF Terminated, semicolon, feed, one, two
<1> QED BY <1>2, <1>8, <1>9 DEF t, semicolon, feed, m

(* A line of three marks or more that does not begin like a comment is read. *)
LEMMA LineRead ==
  ASSUME NEW line \in Seq(Marks), Len(line) >= 3, line[1] \notin {"--", "/*", "EOF"},
         line[Len(line)] = "\n"
  PROVE  /\ ~Discarded(line) /\ line # EndOfFile
         /\ \A x \in Seq(Marks) : Terminated(x \o line) <=> line[Len(line) - 1] = ";"
<1>1. Len(line) \in Nat
  OBVIOUS
<1>2. ~Discarded(line)
  BY <1>1 DEF Discarded
<1>3. line # EndOfFile
  <2>1. EndOfFile[1] = "EOF"
    BY DEF EndOfFile
  <2> QED BY <2>1
<1>4. \A x \in Seq(Marks) :
        Terminated(x \o line) <=> \/ line[Len(line)] = ";"
                                  \/ line[Len(line)] = "\n" /\ line[Len(line) - 1] = ";"
  <2>1. Len(line) >= 2
    BY <1>1
  <2> QED BY <2>1, LastLineEnds
<1>5. line[Len(line)] # ";"
  OBVIOUS
<1> QED BY <1>2, <1>3, <1>4, <1>5

(* So is a line of at least one mark, a mark that ends it and a line end. *)
LEMMA EndedLineRead ==
  ASSUME NEW x \in Seq(Marks), x # <<>>, x[1] \notin {"--", "/*", "EOF"}, NEW c \in Marks
  PROVE  /\ x \o <<c, "\n">> \in Seq(Marks)
         /\ Len(x \o <<c, "\n">>) = Len(x) + 2
         /\ ~Discarded(x \o <<c, "\n">>) /\ x \o <<c, "\n">> # EndOfFile
         /\ \A y \in Seq(Marks) : Terminated(y \o (x \o <<c, "\n">>)) <=> c = ";"
<1> DEFINE feed == "\n"
           e == <<c, feed>>
           line == x \o e
<1>0. feed \in Marks
  BY DEF Marks
<1> HIDE DEF feed
<1>1. e \in Seq(Marks) /\ Len(e) = 2 /\ e[1] = c /\ e[2] = feed
  BY <1>0
<1>2. Len(x) \in Nat /\ Len(x) >= 1
  OBVIOUS
<1> HIDE DEF e
<1>3. /\ line \in Seq(Marks) /\ Len(line) = Len(x) + 2
      /\ \A i \in 1 .. Len(x) + 2 : line[i] = IF i <= Len(x) THEN x[i] ELSE e[i - Len(x)]
  BY <1>1, ConcatProperties
<1> HIDE DEF line
<1>4. line[1] = x[1] /\ line[Len(line) - 1] = c /\ line[Len(line)] = feed
  <2>1. /\ 1 \in 1 .. Len(x) + 2 /\ Len(x) + 1 \in 1 .. Len(x) + 2 /\ Len(x) + 2 \in 1 .. Len(x) + 2
        /\ Len(x) + 2 - 1 = Len(x) + 1 /\ ~(Len(x) + 1 <= Len(x)) /\ ~(Len(x) + 2 <= Len(x))
        /\ Len(x) + 1 - Len(x) = 1 /\ Len(x) + 2 - Len(x) = 2
    BY <1>2
  <2> QED BY <1>1, <1>2, <1>3, <2>1
<1>5. /\ ~Discarded(line) /\ line # EndOfFile
      /\ \A y \in Seq(Marks) : Terminated(y \o line) <=> line[Len(line) - 1] = ";"
  <2>1. Len(line) >= 3
    BY <1>2, <1>3
  <2> QED BY <1>3, <1>4, <2>1, LineRead DEF feed
<1> QED BY <1>3, <1>4, <1>5 DEF line, e, feed

-----------------------------------------------------------------------------
(* The lines of a statement: the source gathers the whole of it, and it ends with
   its last line. *)
IsGathered(w) ==
  /\ w \in Seq(Seq(Marks)) /\ w # <<>>
  /\ \A i \in 1 .. Len(w) :
       /\ ~Discarded(w[i]) /\ w[i] # EndOfFile
       /\ \A x \in Seq(Marks) : Terminated(x \o w[i]) <=> i = Len(w)

(* A statement on one line is gathered whole. *)
LEMMA OneLineGathered ==
  ASSUME NEW x \in Seq(Marks), x # <<>>, x[1] \notin {"--", "/*", "EOF"}
  PROVE  IsGathered(<<x \o <<";", "\n">> >>)
<1> DEFINE semicolon == ";"
           line == x \o <<semicolon, "\n">>
           w == <<line>>
<1>1. semicolon \in Marks
  BY DEF Marks
<1>2. /\ line \in Seq(Marks) /\ ~Discarded(line) /\ line # EndOfFile
      /\ \A y \in Seq(Marks) : Terminated(y \o line)
  BY <1>1, EndedLineRead
<1> HIDE DEF line, semicolon
<1>3. w \in Seq(Seq(Marks)) /\ w # <<>> /\ Len(w) = 1 /\ w[1] = line
  BY <1>2
<1>4. \A i \in 1 .. 1 : i = 1
  OBVIOUS
<1>5. IsGathered(w)
  BY <1>2, <1>3, <1>4 DEF IsGathered
<1> QED BY <1>5 DEF line, semicolon

(* So are the CREATE statements of tables without partitions, *)
LEMMA CreateGathered ==
  ASSUME NEW d \in DOMAIN Definitions
  PROVE  /\ <<"CREATE", " ", "TABLE", " ", d>> \in Seq(Marks)
         /\ IsGathered(<< <<"CREATE", " ", "TABLE", " ", d>> \o <<";", "\n">> >>)
<1> DEFINE a == "CREATE"
           b == " "
           c == "TABLE"
           x == <<a, b, c, b, d>>
<1>1. a \in Marks /\ b \in Marks /\ c \in Marks /\ d \in Marks
  BY DEF Marks
<1>2. a \notin {"--", "/*", "EOF"}
  OBVIOUS
<1> HIDE DEF a, b, c
<1>3. x \in Seq(Marks) /\ x # <<>> /\ x[1] = a
  BY <1>1
<1>4. IsGathered(<<x \o <<";", "\n">> >>)
  <2> HIDE DEF x
  <2> QED BY <1>2, <1>3, OneLineGathered
<1> QED BY <1>3, <1>4, Zenon DEF a, b, c, x

(* and the LOCK statements. *)
LEMMA LockGathered == IsGathered(<< <<"LOCK", " ", "TABLES", ";", "\n">> >>)
<1> DEFINE a == "LOCK"
           b == " "
           c == "TABLES"
           d == ";"
           e == "\n"
           x == <<a, b, c>>
           end == <<d, e>>
           line == <<a, b, c, d, e>>
<1>1. a \in Marks /\ b \in Marks /\ c \in Marks /\ d \in Marks /\ e \in Marks
  BY DEF Marks
<1>2. a \notin {"--", "/*", "EOF"}
  OBVIOUS
<1> HIDE DEF a, b, c, d, e
<1>3. x \in Seq(Marks) /\ x # <<>> /\ x[1] = a /\ end \in Seq(Marks) /\ line \in Seq(Marks)
  BY <1>1
<1>4. x \o end = line
  <2> DEFINE t == x \o end
  <2>1. Len(x) = 3 /\ Len(end) = 2 /\ Len(line) = 5
        /\ x[1] = a /\ x[2] = b /\ x[3] = c /\ end[1] = d /\ end[2] = e
        /\ line[1] = a /\ line[2] = b /\ line[3] = c /\ line[4] = d /\ line[5] = e
    OBVIOUS
  <2> HIDE DEF x, end, line
  <2>2. /\ t \in Seq(Marks) /\ Len(t) = 5
        /\ \A i \in 1 .. 5 : t[i] = IF i <= 3 THEN x[i] ELSE end[i - 3]
    <3>1. /\ t \in Seq(Marks) /\ Len(t) = Len(x) + Len(end)
          /\ \A i \in 1 .. Len(x) + Len(end) : t[i] = IF i <= Len(x) THEN x[i] ELSE end[i - Len(x)]
      BY <1>3, ConcatProperties
    <3> HIDE DEF t
    <3> QED BY <2>1, <3>1
  <2> HIDE DEF t
  <2>3. t[1] = a /\ t[2] = b /\ t[3] = c /\ t[4] = d /\ t[5] = e
    BY <2>1, <2>2
  <2>4. \A i \in 1 .. 5 : i \in {1, 2, 3, 4, 5}
    OBVIOUS
  <2>5. \A i \in 1 .. 5 : t[i] = line[i]
    BY <2>1, <2>3, <2>4
  <2>6. t = line
    BY <1>3, <2>1, <2>2, <2>5, SeqEqual
  <2> QED BY <2>6 DEF t
<1>5. IsGathered(<<x \o end>>)
  <2> HIDE DEF x
  <2>1. end = <<";", "\n">>
    BY DEF d, e
  <2> HIDE DEF end
  <2> QED BY <1>2, <1>3, <2>1, OneLineGathered
<1>6. IsGathered(<<line>>)
  <2> HIDE DEF line, x, end
  <2> QED BY <1>4, <1>5
<1> QED BY <1>6, Zenon DEF a, b, c, d, e, line

(* Texts of the INSERT syntax are texts of a dump. *)
LEMMA TextsAreMarks ==
  Seq(Symbols) \subseteq Seq(Marks) /\ Seq(Seq(Symbols)) \subseteq Seq(Seq(Marks))
<1>1. Symbols \subseteq Marks
  BY DEF Marks
<1>2. Seq(Symbols) \subseteq Seq(Marks)
  <2> HIDE DEF Marks
  <2> QED BY <1>1
<1>3. \A T, U : T \subseteq U => Seq(T) \subseteq Seq(U)
  OBVIOUS
<1> QED BY <1>2, <1>3

(* The first line of an INSERT statement is read and does not end it. *)
LEMMA HeadLineRead ==
  ASSUME NEW table \in Names
  PROVE  LET line == InsertHead(table) \o <<"\n">>
         IN /\ line \in Seq(Marks) /\ ~Discarded(line) /\ line # EndOfFile
            /\ \A x \in Seq(Marks) : ~Terminated(x \o line)
<1> DEFINE feed == "\n"
           head == InsertHead(table)
           e == <<feed>>
           line == head \o e
<1>1. /\ head \in Seq(Marks) /\ Len(head) = 9 /\ head[1] = "INSERT" /\ head[9] = "VALUES"
  BY HeadIsText, TextsAreMarks
<1>2. feed \in Marks
  BY DEF Marks
<1> HIDE DEF feed, head
<1>3. e \in Seq(Marks) /\ Len(e) = 1 /\ e[1] = feed
  BY <1>2
<1> HIDE DEF e
<1>4. /\ line \in Seq(Marks) /\ Len(line) = 10
      /\ \A i \in 1 .. 10 : line[i] = IF i <= 9 THEN head[i] ELSE e[i - 9]
  <2>1. /\ line \in Seq(Marks) /\ Len(line) = Len(head) + Len(e)
        /\ \A i \in 1 .. Len(head) + Len(e) :
             line[i] = IF i <= Len(head) THEN head[i] ELSE e[i - Len(head)]
    BY <1>1, <1>3, ConcatProperties
  <2> HIDE DEF line
  <2> QED BY <1>1, <1>3, <2>1
<1> HIDE DEF line
<1>5. line[1] = "INSERT" /\ line[9] = "VALUES" /\ line[10] = feed
  BY <1>1, <1>3, <1>4
<1>6. /\ ~Discarded(line) /\ line # EndOfFile
      /\ \A x \in Seq(Marks) : Terminated(x \o line) <=> line[Len(line) - 1] = ";"
  <2>1. Len(line) >= 3 /\ line[Len(line)] = feed
    BY <1>4, <1>5
  <2> QED BY <1>4, <1>5, <2>1, LineRead DEF feed
<1>7. line[Len(line) - 1] = "VALUES"
  BY <1>4, <1>5
<1> QED BY <1>4, <1>6, <1>7 DEF line, head, e, feed

(* The line of a row is read; its last mark decides whether it ends the statement. *)
LEMMA RowLineRead ==
  ASSUME NEW row \in Filled, NEW c \in Marks
  PROVE  LET line == WrittenRow(row) \o <<c, "\n">>
         IN /\ line \in Seq(Marks) /\ ~Discarded(line) /\ line # EndOfFile
            /\ \A x \in Seq(Marks) : Terminated(x \o line) <=> c = ";"
<1> DEFINE x == WrittenRow(row)
           paren == "("
<1>1. row \in Seq(Dumpable) /\ row[1] \in Dumpable /\ <<>> \in Seq(Symbols)
  <2> HIDE DEF paren, x
  <2>1. row \in Seq(Dumpable) /\ row # <<>>
    BY DEF Filled
  <2>2. Len(row) \in Nat \ {0}
    BY <2>1, EmptySeq
  <2>3. 1 \in 1 .. Len(row)
    BY <2>2
  <2>4. row[1] \in Dumpable
    BY <2>1, <2>3, ElementOfSeq
  <2> QED BY <2>1, <2>4, EmptySeq
<1>2. x \in Seq(Symbols) /\ x \o <<>> = <<paren>> \o Closed(row, <<>>)
  BY <1>1, WrittenRowBefore
<1>3. Closed(row, <<>>) \in Seq(Symbols)
  BY <1>1, ClosedSteps
<1>4. paren \in Symbols /\ paren \notin {"--", "/*", "EOF"}
  BY SymbolsAssumption DEF SymbolsAssumption, Special, Punctuation
<1> HIDE DEF x, paren
<1>5. x = <<paren>> \o Closed(row, <<>>)
  BY <1>2, ConcatEmptySeq
<1>6. x # <<>> /\ x[1] = paren
  BY <1>3, <1>4, <1>5, Prepended DEF IsCons
<1>7. x \in Seq(Marks)
  BY <1>2, TextsAreMarks
<1> QED BY <1>4, <1>6, <1>7, EndedLineRead DEF x

(* INSERT statements are gathered whole, whatever their rows hold. *)
LEMMA InsertGathered ==
  ASSUME NEW table \in Names, NEW rows \in Seq(Filled), rows # <<>>
  PROVE  IsGathered(InsertLines(table, rows))
<1> DEFINE head == InsertHead(table) \o <<"\n">>
           w == <<head>> \o Lines(rows)
           n == Len(rows)
<1>1. InsertLines(table, rows) = w
  BY DEF InsertLines, Lines
<1>2. n \in Nat /\ n >= 1 /\ DOMAIN rows = 1 .. n
  OBVIOUS
<1>3. /\ head \in Seq(Marks) /\ ~Discarded(head) /\ head # EndOfFile
      /\ \A x \in Seq(Marks) : ~Terminated(x \o head)
  BY HeadLineRead
<1>4. Lines(rows) \in Seq(Seq(Marks)) /\ Len(Lines(rows)) = n
  BY LinesAreTexts, TextsAreMarks
<1>5. ASSUME NEW i \in 1 .. n
      PROVE  /\ ~Discarded(Lines(rows)[i]) /\ Lines(rows)[i] # EndOfFile
             /\ \A x \in Seq(Marks) : Terminated(x \o Lines(rows)[i]) <=> i = n
  <2> DEFINE c == IF i = n THEN ";" ELSE ","
             line == WrittenRow(rows[i]) \o <<c, "\n">>
  <2>1. Lines(rows)[i] = line
    BY LinesAreTexts
  <2>2. rows[i] \in Filled /\ c \in Marks
    <3>1. {";", ","} \subseteq Marks
      BY SymbolsAssumption DEF SymbolsAssumption, Special, Punctuation, Marks
    <3>2. c \in {";", ","}
      OBVIOUS
    <3>3. c \in Marks
      BY <3>1, <3>2, Zenon
    <3> HIDE DEF c
    <3> QED BY <1>2, <3>3
  <2>3. /\ ~Discarded(line) /\ line # EndOfFile
        /\ \A x \in Seq(Marks) : Terminated(x \o line) <=> c = ";"
    <3> HIDE DEF c
    <3> QED BY <2>2, RowLineRead
  <2>4. c = ";" <=> i = n
    OBVIOUS
  <2> HIDE DEF line, c
  <2> QED BY <2>1, <2>3, <2>4
<1> HIDE DEF head
<1>6. w \in Seq(Seq(Marks)) /\ IsCons(w, head, Lines(rows))
  BY <1>3, <1>4, Prepended
<1> HIDE DEF w, n
<1>7. Len(w) = n + 1 /\ w[1] = head /\ \A i \in 2 .. n + 1 : w[i] = Lines(rows)[i - 1]
  BY <1>4, <1>6 DEF IsCons
<1>8. ASSUME NEW i \in 1 .. n + 1
      PROVE  /\ ~Discarded(w[i]) /\ w[i] # EndOfFile
             /\ \A x \in Seq(Marks) : Terminated(x \o w[i]) <=> i = n + 1
  <2>1. CASE i = 1
    <3>1. i # n + 1
      BY <1>2, <2>1
    <3> QED BY <1>3, <1>7, <2>1, <3>1
  <2>2. CASE i # 1
    <3>1. i - 1 \in 1 .. n /\ i \in 2 .. n + 1 /\ (i - 1 = n <=> i = n + 1)
      BY <1>2, <2>2
    <3> QED BY <1>5, <1>7, <3>1
  <2> QED BY <2>1, <2>2
<1>9. w # <<>>
  BY <1>2, <1>7
<1> QED BY <1>1, <1>6, <1>7, <1>8, <1>9 DEF IsGathered

-----------------------------------------------------------------------------
(* Dumps.                                                                  *)

(* A dump is of statements, and its last file ends. *)
DumpFits ==
  /\ dump \in Seq(Statements \cup {[kind |-> "end"]}) /\ dump # <<>>
  /\ dump[Len(dump)].kind = "end"

(* The statements that the source gathers. *)
Proper(k) == dump[k].kind \in {"create", "insert", "lock"}

LinesOf(k) == Written(dump[k])
TextOf(k) == FlattenSeq(LinesOf(k))

(* What a dump may hold at a place. *)
LEMMA StatementSorts ==
  ASSUME DumpFits, Ordinary, NEW k \in 1 .. Len(dump)
  PROVE  \/ /\ dump[k].kind = "create" /\ dump[k].definition \in DOMAIN Definitions
            /\ ~dump[k].partitioned
         \/ /\ dump[k].kind = "insert" /\ dump[k].table \in Names
            /\ dump[k].rows \in Seq(Filled) \ { <<>> } /\ dump[k].rows \in RowsOver(Dumpable)
         \/ dump[k].kind \in {"lock", "comment", "end"}
<1>1. dump[k] \in Statements \cup {[kind |-> "end"]}
  BY ElementOfSeq DEF DumpFits
<1>2. k \in DOMAIN dump
  BY LenProperties DEF DumpFits
<1>3. CASE dump[k] = [kind |-> "end"]
  BY <1>3
<1>4. CASE dump[k] \in Statements
  <2>1. dump[k].kind = "create" => ~dump[k].partitioned
    BY <1>2 DEF Ordinary
  <2>2. RowsOver(Dumpable) = Seq(Filled) \ { <<>> }
    BY DEF RowsOver, Filled
  <2> QED BY <1>4, <2>1, <2>2, StatementsAssumption DEF StatementsAssumption
<1> QED BY <1>1, <1>3, <1>4

(* The lines of a comment are discarded. *)
LEMMA CommentPassed ==
  LET w == << <<"--", " ", "text", "\n">>, <<"\n">> >>
  IN /\ w \in Seq(Seq(Marks)) /\ Len(w) = 2
     /\ \A i \in 1 .. 2 : Discarded(w[i]) /\ w[i] # EndOfFile
<1> DEFINE a == "--"
           b == " "
           c == "text"
           d == "\n"
           x == <<a, b, c, d>>
           y == <<d>>
           w == <<x, y>>
<1>1. a \in Marks /\ b \in Marks /\ c \in Marks /\ d \in Marks
  BY DEF Marks
<1>2. a # "EOF" /\ d # "EOF"
  OBVIOUS
<1>3. a \in {"--", "/*"}
  OBVIOUS
<1> HIDE DEF a, b, c, d
<1>4. x \in Seq(Marks) /\ y \in Seq(Marks) /\ x[1] = a /\ y[1] = d /\ Len(y) = 1
  BY <1>1
<1>5. Discarded(x) /\ Discarded(y) /\ x # EndOfFile /\ y # EndOfFile
  <2>1. EndOfFile[1] = "EOF"
    BY DEF EndOfFile
  <2> HIDE DEF x, y
  <2> QED BY <1>2, <1>3, <1>4, <2>1 DEF Discarded
<1> HIDE DEF x, y
<1>6. w \in Seq(Seq(Marks)) /\ Len(w) = 2 /\ w[1] = x /\ w[2] = y
  BY <1>4
<1>7. \A i \in 1 .. 2 : i = 1 \/ i = 2
  OBVIOUS
<1>8. \A i \in 1 .. 2 : Discarded(w[i]) /\ w[i] # EndOfFile
  BY <1>5, <1>6, <1>7
<1> QED BY <1>6, <1>8 DEF x, y, a, b, c, d

(* The source gathers CREATE, INSERT and LOCK statements and passes over comments. *)
LEMMA LinesSorts ==
  ASSUME DumpFits, Ordinary, NEW k \in 1 .. Len(dump)
  PROVE  /\ LinesOf(k) \in Seq(Seq(Marks)) /\ LinesOf(k) # <<>>
         /\ Proper(k) => IsGathered(LinesOf(k))
         /\ dump[k].kind = "comment" =>
              \A i \in 1 .. Len(LinesOf(k)) : Discarded(LinesOf(k)[i]) /\ LinesOf(k)[i] # EndOfFile
         /\ dump[k].kind = "end" => LinesOf(k) = <<EndOfFile>>
         /\ Proper(k) \/ dump[k].kind \in {"comment", "end"}
<1>1. CASE dump[k].kind = "create"
  <2>1. dump[k].definition \in DOMAIN Definitions /\ ~dump[k].partitioned
    BY <1>1, StatementSorts
  <2>2. LinesOf(k) = << <<"CREATE", " ", "TABLE", " ", dump[k].definition>> \o <<";", "\n">> >>
    BY <1>1, <2>1, Zenon DEF Written, LinesOf
  <2>3. IsGathered(LinesOf(k))
    <3>1. IsGathered(<< <<"CREATE", " ", "TABLE", " ", dump[k].definition>> \o <<";", "\n">> >>)
      BY <2>1, CreateGathered, Zenon
    <3> QED BY <2>2, <3>1, Zenon
  <2> QED BY <1>1, <2>3 DEF IsGathered, Proper
<1>2. CASE dump[k].kind = "insert"
  <2>1. dump[k].table \in Names /\ dump[k].rows \in Seq(Filled) \ { <<>> }
    BY <1>2, StatementSorts
  <2>2. LinesOf(k) = InsertLines(dump[k].table, dump[k].rows)
    BY <1>2 DEF Written, LinesOf
  <2>3. IsGathered(LinesOf(k))
    BY <2>1, <2>2, InsertGathered
  <2> QED BY <1>2, <2>3 DEF IsGathered, Proper
<1>3. CASE dump[k].kind = "lock"
  <2>1. LinesOf(k) = << <<"LOCK", " ", "TABLES", ";", "\n">> >>
    BY <1>3, Zenon DEF Written, LinesOf
  <2>2. IsGathered(LinesOf(k))
    BY <2>1, LockGathered, Zenon
  <2> QED BY <1>3, <2>2 DEF IsGathered, Proper
<1>4. CASE dump[k].kind = "comment"
  <2>1. LinesOf(k) = << <<"--", " ", "text", "\n">>, <<"\n">> >>
    BY <1>4, Zenon DEF Written, LinesOf
  <2>2. /\ LinesOf(k) \in Seq(Seq(Marks)) /\ Len(LinesOf(k)) = 2
        /\ \A i \in 1 .. 2 : Discarded(LinesOf(k)[i]) /\ LinesOf(k)[i] # EndOfFile
    BY <2>1, CommentPassed, Zenon
  <2>3. LinesOf(k) # <<>>
    <3>1. Len(LinesOf(k)) = 2
      BY <2>2
    <3>2. Len(<<>>) = 0
      BY EmptySeq
    <3> QED BY <3>1, <3>2
  <2> QED BY <1>4, <2>2, <2>3 DEF Proper
<1>5. CASE dump[k].kind = "end"
  <2>1. LinesOf(k) = <<EndOfFile>>
    BY <1>5 DEF Written, LinesOf
  <2>2. EndOfFile \in Seq(Marks)
    BY DEF EndOfFile, Marks
  <2>3. LinesOf(k) \in Seq(Seq(Marks)) /\ LinesOf(k) # <<>>
    BY <2>1, <2>2
  <2> QED BY <1>5, <2>1, <2>3 DEF Proper
<1>6. dump[k].kind \in {"create", "insert", "lock", "comment", "end"}
  BY StatementSorts
<1> QED BY <1>1, <1>2, <1>3, <1>4, <1>5, <1>6

(* A single line is the whole text. *)
LEMMA FlattenOne == ASSUME NEW T, NEW x \in Seq(T) PROVE FlattenSeq(<<x>>) = x
<1>1. <<>> \in Seq(Seq(T)) /\ <<x>> \in Seq(Seq(T))
  BY EmptySeq
<1>2. <<x>> \o <<>> = <<x>>
  BY <1>1, ConcatEmptySeq
<1>3. FlattenSeq(<<x>> \o <<>>) = x \o FlattenSeq(<<>>)
  BY <1>1, FlattenCons
<1>4. FlattenSeq(<<>>) = <<>>
  BY DEF FlattenSeq
<1>5. x \o <<>> = x
  BY ConcatEmptySeq
<1> QED BY <1>2, <1>3, <1>4, <1>5

(* A text that does not begin with INSERT is no INSERT statement. *)
LEMMA BeginsApart ==
  ASSUME NEW text \in Seq(Marks), Len(text) >= 3
  PROVE  IsInsert(text) <=> text[1] = "INSERT" /\ text[2] = " " /\ text[3] = "INTO"
<1> DEFINE a == "INSERT"
           b == " "
           c == "INTO"
           T == Marks \cup {a, b, c}
           s == <<a, b, c>>
<1>1. IsInsert(text) <=> IsPrefix(s, text)
  BY DEF IsInsert
<1> HIDE DEF a, b, c
<1>2. s \in Seq(T) /\ Len(s) = 3 /\ s[1] = a /\ s[2] = b /\ s[3] = c
  OBVIOUS
<1>3. text \in Seq(T)
  <2>1. Marks \subseteq T
    OBVIOUS
  <2> HIDE DEF T
  <2> QED BY <2>1
<1> HIDE DEF s, T
<1>4. IsPrefix(s, text) <=> \A i \in 1 .. 3 : s[i] = text[i]
  <2>1. Len(s) <= Len(text)
    BY <1>2
  <2>0. ASSUME NEW r \in Seq(T), Len(r) <= Len(text)
        PROVE  IsPrefix(r, text) <=> \A i \in 1 .. Len(r) : r[i] = text[i]
    BY <1>3, <2>0, PrefixAt
  <2>2. IsPrefix(s, text) <=> \A i \in 1 .. Len(s) : s[i] = text[i]
    BY <1>2, <2>0, <2>1
  <2> QED BY <1>2, <2>2
<1>5. 1 .. 3 = {1, 2, 3}
  OBVIOUS
<1>6. IsPrefix(s, text) <=> text[1] = a /\ text[2] = b /\ text[3] = c
  BY <1>2, <1>4, <1>5
<1> QED BY <1>1, <1>6, Zenon DEF a, b, c

(* classify_sql takes a CREATE statement for one, and its definition is found in it. *)
LEMMA CreateText ==
  ASSUME DumpFits, Ordinary, NEW k \in 1 .. Len(dump), dump[k].kind = "create"
  PROVE  /\ Len(TextOf(k)) = 7 /\ TextOf(k)[5] = dump[k].definition
         /\ IsCreateTable(TextOf(k)) /\ ~IsInsert(TextOf(k))
<1> DEFINE a == "CREATE"
           b == " "
           c == "TABLE"
           d == dump[k].definition
           e == ";"
           f == "\n"
           x == <<a, b, c, b, d>>
           y == <<e, f>>
           line == x \o y
<1>1. d \in DOMAIN Definitions /\ ~dump[k].partitioned
  BY StatementSorts
<1>2. LinesOf(k) = <<line>>
  BY <1>1, Zenon DEF Written, LinesOf
<1>3. a \in Marks /\ b \in Marks /\ c \in Marks /\ d \in Marks /\ e \in Marks /\ f \in Marks
  BY <1>1 DEF Marks
<1> HIDE DEF a, b, c, d, e, f
<1>4. x \in Seq(Marks) /\ y \in Seq(Marks) /\ Len(x) = 5 /\ Len(y) = 2 /\ x[1] = a /\ x[5] = d
  BY <1>3
<1> HIDE DEF x, y
<1>5. line \in Seq(Marks) /\ Len(line) = 7 /\ line[1] = a /\ line[5] = d
  <2>1. /\ line \in Seq(Marks) /\ Len(line) = Len(x) + Len(y)
        /\ \A i \in 1 .. Len(x) + Len(y) : line[i] = IF i <= Len(x) THEN x[i] ELSE y[i - Len(x)]
    BY <1>4, ConcatProperties
  <2> HIDE DEF line
  <2> QED BY <1>4, <2>1
<1> HIDE DEF line
<1>6. TextOf(k) = line
  BY <1>2, <1>5, FlattenOne DEF TextOf
<1>7. a = "CREATE" /\ a # "INSERT"
  BY DEF a
<1>8. ~IsInsert(line)
  <2>1. Len(line) >= 3
    BY <1>5
  <2> QED BY <1>5, <1>7, <2>1, BeginsApart
<1>9. IsCreateTable(line)
  BY <1>5, <1>7 DEF IsCreateTable
<1> QED BY <1>5, <1>6, <1>8, <1>9 DEF d

(* A LOCK statement is of neither kind that is used. *)
LEMMA LockText ==
  ASSUME DumpFits, Ordinary, NEW k \in 1 .. Len(dump), dump[k].kind = "lock"
  PROVE  ~IsCreateTable(TextOf(k)) /\ ~IsInsert(TextOf(k))
<1> DEFINE a == "LOCK"
           b == " "
           c == "TABLES"
           d == ";"
           e == "\n"
           line == <<a, b, c, d, e>>
<1>1. a \in Marks /\ b \in Marks /\ c \in Marks /\ d \in Marks /\ e \in Marks
  BY DEF Marks
<1>2. LinesOf(k) = <<line>>
  BY Zenon DEF Written, LinesOf
<1> HIDE DEF a, b, c, d, e
<1>3. line \in Seq(Marks) /\ Len(line) = 5 /\ line[1] = a
  BY <1>1
<1> HIDE DEF line
<1>4. TextOf(k) = line
  BY <1>2, <1>3, FlattenOne DEF TextOf
<1>5. a # "CREATE" /\ a # "INSERT"
  BY DEF a
<1>6. ~IsInsert(line)
  <2>1. Len(line) >= 3
    BY <1>3
  <2> QED BY <1>3, <1>5, <2>1, BeginsApart
<1> QED BY <1>3, <1>4, <1>5, <1>6 DEF IsCreateTable

(* classify_sql takes an INSERT statement for one. *)
LEMMA InsertText ==
  ASSUME DumpFits, Ordinary, NEW k \in 1 .. Len(dump), dump[k].kind = "insert"
  PROVE  ~IsCreateTable(TextOf(k)) /\ IsInsert(TextOf(k))
<1> DEFINE table == dump[k].table
           rows == dump[k].rows
           feed == "\n"
           e == <<feed>>
           head == InsertHead(table)
           line == head \o e
           more == FlattenSeq(Lines(rows))
           text == line \o more
<1>1. table \in Names /\ rows \in Seq(Filled)
  BY StatementSorts
<1>2. LinesOf(k) = <<line>> \o Lines(rows)
  BY Zenon DEF Written, LinesOf, InsertLines, Lines
<1>3. /\ head \in Seq(Marks) /\ Len(head) = 9
      /\ head[1] = "INSERT" /\ head[2] = " " /\ head[3] = "INTO"
  BY <1>1, HeadIsText, TextsAreMarks, Zenon
<1>4. feed \in Marks
  BY DEF Marks
<1> HIDE DEF feed, head
<1>5. e \in Seq(Marks)
  BY <1>4
<1> HIDE DEF e
<1>6. /\ line \in Seq(Marks) /\ Len(line) \in Nat /\ Len(line) >= 9
      /\ line[1] = head[1] /\ line[2] = head[2] /\ line[3] = head[3]
  <2>1. Len(head) = 9 /\ head \in Seq(Marks)
    BY <1>3
  <2>2. /\ line \in Seq(Marks) /\ Len(line) = Len(head) + Len(e)
        /\ \A i \in 1 .. Len(head) + Len(e) :
             line[i] = IF i <= Len(head) THEN head[i] ELSE e[i - Len(head)]
    BY <1>5, <2>1, ConcatProperties
  <2>3. Len(e) \in Nat
    BY <1>5
  <2> HIDE DEF line
  <2> QED BY <2>1, <2>2, <2>3
<1>7. more \in Seq(Marks) /\ Lines(rows) \in Seq(Seq(Marks))
  BY <1>1, LinesAreTexts, TextsAreMarks, FlattenedIsText
<1> HIDE DEF line, more
<1>8. TextOf(k) = text
  BY <1>2, <1>6, <1>7, FlattenCons DEF TextOf, more
<1>9. /\ text \in Seq(Marks) /\ Len(text) >= 3
      /\ text[1] = head[1] /\ text[2] = head[2] /\ text[3] = head[3]
  <2>1. /\ text \in Seq(Marks) /\ Len(text) = Len(line) + Len(more) /\ Len(more) \in Nat
        /\ \A i \in 1 .. Len(line) + Len(more) :
             text[i] = IF i <= Len(line) THEN line[i] ELSE more[i - Len(line)]
    BY <1>6, <1>7, ConcatProperties
  <2> HIDE DEF text
  <2> QED BY <1>6, <2>1
<1> HIDE DEF text
<1>10. head[1] # "CREATE"
  BY <1>3, Zenon
<1>11. IsInsert(text)
  BY <1>3, <1>9, BeginsApart, Zenon
<1> QED BY <1>8, <1>9, <1>10, <1>11 DEF IsCreateTable

(* The parser reads an INSERT statement of the dump back, unless one of its rows
   has a blob in hexadecimal. *)
LEMMA StatementParsed ==
  ASSUME DumpFits, Ordinary, NEW k \in 1 .. Len(dump), dump[k].kind = "insert"
  PROVE  /\ Parsed[TextOf(k)].ok <=> Readable(dump[k].rows)
         /\ Parsed[TextOf(k)].ok =>
              Parsed[TextOf(k)].table = dump[k].table /\ Parsed[TextOf(k)].rows = dump[k].rows
<1> DEFINE table == dump[k].table
           rows == dump[k].rows
<1>1. table \in Names /\ rows \in Seq(Filled) \ { <<>> } /\ rows \in RowsOver(Dumpable)
  BY StatementSorts
<1>2. Parsed[TextOf(k)] = ParseInsert(TextOf(k))
  <2>1. dump[k] \in Statements \cup {[kind |-> "end"]}
    BY ElementOfSeq DEF DumpFits
  <2>2. dump[k] \in {s \in Statements : s.kind = "insert"}
    BY <2>1
  <2> QED BY <2>2, Zenon DEF Parsed, TextOf, LinesOf
<1>3. TextOf(k) = FlattenSeq(InsertLines(table, rows))
  BY Zenon DEF Written, LinesOf, TextOf
<1>4. Readable(rows) <=> rows \in Seq(Full)
  <2>1. Len(rows) \in Nat /\ DOMAIN rows = 1 .. Len(rows) /\ \A i \in 1 .. Len(rows) : rows[i] \in Filled
    BY <1>1, ElementOfSeq, LenProperties
  <2>2. rows \in Seq(Full) <=> \A i \in 1 .. Len(rows) : rows[i] \in Full
    BY <1>1, <2>1
  <2>3. ASSUME NEW i \in 1 .. Len(rows)
        PROVE  rows[i] \in Full <=> \A v \in Range(rows[i]) : v.type # "Hex"
    <3> DEFINE row == rows[i]
    <3>1. /\ row \in Seq(Dumpable) /\ row # <<>> /\ Len(row) \in Nat /\ DOMAIN row = 1 .. Len(row)
          /\ \A j \in 1 .. Len(row) : row[j] \in Dumpable
      BY <2>1, ElementOfSeq, LenProperties DEF Filled
    <3>2. \A v \in Dumpable : v \in Writable <=> v.type # "Hex"
      BY DEF Dumpable, Writable, InsertValue
    <3>3. row \in Full <=> \A j \in 1 .. Len(row) : row[j] \in Writable
      <4> HIDE DEF row
      <4> QED BY <3>1 DEF Full
    <3>4. Range(row) = {row[j] : j \in 1 .. Len(row)}
      BY <3>1 DEF Range
    <3> HIDE DEF row
    <3>5. row \in Full <=> \A v \in Range(row) : v.type # "Hex"
      BY <3>1, <3>2, <3>3, <3>4
    <3> QED BY <3>5 DEF row
  <2>4. Range(rows) = {rows[i] : i \in 1 .. Len(rows)}
    BY <2>1 DEF Range
  <2> HIDE DEF rows
  <2> QED BY <2>2, <2>3, <2>4 DEF Readable
<1>5. rows \in Seq(Full) =>
        ParseInsert(TextOf(k)) = [ok |-> TRUE, table |-> table, rows |-> rows]
  BY <1>1, <1>3, InsertReadBack
<1>6. rows \notin Seq(Full) => ~ParseInsert(TextOf(k)).ok
  BY <1>1, <1>3, HexRefused
<1> QED BY <1>2, <1>4, <1>5, <1>6

-----------------------------------------------------------------------------
(* What is left of a sequence.                                             *)

(* The elements that are left, in their order. *)
LEMMA AfterElements ==
  ASSUME NEW T, NEW s \in Seq(T), NEW k \in 0 .. Len(s)
  PROVE  /\ After(k, s) \in Seq(T) /\ Len(After(k, s)) = Len(s) - k
         /\ \A i \in 1 .. Len(s) - k : After(k, s)[i] = s[k + i]
<1>1. k + 1 \in 1 .. Len(s) + 1 /\ Len(s) \in Nat
  OBVIOUS
<1>2. /\ After(k, s) \in Seq(T) /\ Len(After(k, s)) = Len(s) - k
  BY AfterIsText
<1> QED BY <1>2, AfterAt

(* What is left of what is left. *)
LEMMA AfterTwice ==
  ASSUME NEW T, NEW s \in Seq(T), NEW k \in 0 .. Len(s), NEW l \in k .. Len(s)
  PROVE  After(l - k, After(k, s)) = After(l, s)
<1> DEFINE n == Len(s)
           u == After(k, s)
           v == After(l, s)
           w == After(l - k, u)
<1>1. n \in Nat /\ k \in 0 .. n /\ l \in 0 .. n /\ l - k \in 0 .. n - k
  OBVIOUS
<1>2. u \in Seq(T) /\ Len(u) = n - k /\ \A i \in 1 .. n - k : u[i] = s[k + i]
  BY <1>1, AfterElements
<1>3. v \in Seq(T) /\ Len(v) = n - l /\ \A i \in 1 .. n - l : v[i] = s[l + i]
  BY <1>1, AfterElements
<1> HIDE DEF u, v
<1>4. w \in Seq(T) /\ Len(w) = Len(u) - (l - k) /\ \A i \in 1 .. Len(u) - (l - k) : w[i] = u[l - k + i]
  <2>1. l - k \in 0 .. Len(u)
    BY <1>1, <1>2
  <2> DEFINE j == l - k
  <2> HIDE DEF j
  <2>2. j \in 0 .. Len(u)
    BY <2>1 DEF j
  <2>3. /\ After(j, u) \in Seq(T) /\ Len(After(j, u)) = Len(u) - j
        /\ \A i \in 1 .. Len(u) - j : After(j, u)[i] = u[j + i]
    BY <1>2, <2>2, AfterElements, SMTT(30)
  <2> QED BY <2>3 DEF j
<1> HIDE DEF w, n
<1>5. \A i \in 1 .. n - l : l - k + i \in 1 .. n - k /\ k + (l - k + i) = l + i
  BY <1>1
<1>6. Len(w) = n - l /\ \A i \in 1 .. n - l : w[i] = v[i]
  <2>1. Len(u) - (l - k) = n - l /\ k \in Int /\ l \in Int /\ n \in Int
    BY <1>1, <1>2
  <2>2. Len(w) = n - l
    BY <1>4, <2>1
  <2>3. ASSUME NEW i \in 1 .. n - l PROVE w[i] = v[i]
    <3>1. w[i] = u[l - k + i]
      BY <1>4, <2>1
    <3>2. u[l - k + i] = s[k + (l - k + i)]
      BY <1>2, <1>5
    <3> QED BY <1>3, <1>5, <3>1, <3>2
  <2> QED BY <2>2, <2>3
<1>7. w = v
  BY <1>3, <1>4, <1>6, SeqEqual
<1> QED BY <1>7 DEF w, u, v

(* All of it, when nothing is taken. *)
LEMMA AfterNone == ASSUME NEW T, NEW s \in Seq(T) PROVE After(0, s) = s
<1>1. Len(s) \in Nat /\ 0 \in 0 .. Len(s)
  OBVIOUS
<1>2. After(0, s) \in Seq(T) /\ Len(After(0, s)) = Len(s) /\ \A i \in 1 .. Len(s) : After(0, s)[i] = s[i]
  BY <1>1, AfterElements
<1> QED BY <1>2, SeqEqual

(* The next element comes first. *)
LEMMA AfterSteps ==
  ASSUME NEW T, NEW s \in Seq(T), NEW k \in 0 .. Len(s), k < Len(s)
  PROVE  /\ After(k, s) # <<>> /\ Head(After(k, s)) = s[k + 1]
         /\ Tail(After(k, s)) = After(k + 1, s)
         /\ After(k, s) = <<s[k + 1]>> \o After(k + 1, s)
<1> DEFINE n == Len(s)
           u == After(k, s)
<1>1. n \in Nat /\ k + 1 \in k .. n /\ 1 \in 1 .. n - k /\ (k + 1) - k = 1
  OBVIOUS
<1>2. u \in Seq(T) /\ Len(u) = n - k /\ \A i \in 1 .. n - k : u[i] = s[k + i]
  BY AfterElements
<1>3. After(1, u) = After(k + 1, s)
  BY <1>1, AfterTwice
<1> HIDE DEF u
<1>4. u # <<>> /\ u[1] = s[k + 1]
  BY <1>1, <1>2
<1>5. Head(u) = u[1] /\ Tail(u) = After(1, u)
  <2>1. Tail(u) = SubSeq(u, 2, Len(u))
    BY <1>2, <1>4, TailIsSubSeq
  <2> QED BY <1>2, <1>4, <2>1 DEF After
<1>6. u = <<u[1]>> \o After(1, u)
  BY <1>2, <1>4, Decomposed
<1> QED BY <1>3, <1>4, <1>5, <1>6 DEF u

(* The second part, when the first is taken. *)
LEMMA AfterFirst ==
  ASSUME NEW T, NEW w \in Seq(T), NEW s \in Seq(T)
  PROVE  /\ w \o s \in Seq(T) /\ Len(w \o s) = Len(w) + Len(s)
         /\ \A i \in 1 .. Len(w) : (w \o s)[i] = w[i]
         /\ \A i \in 1 .. Len(s) : (w \o s)[Len(w) + i] = s[i]
         /\ After(Len(w), w \o s) = s
<1> DEFINE t == w \o s
           v == After(Len(w), t)
           m == Len(w)
           n == Len(s)
<1>1. m \in Nat /\ n \in Nat
  OBVIOUS
<1>2. /\ t \in Seq(T) /\ Len(t) = m + n
      /\ \A i \in 1 .. m + n : t[i] = IF i <= m THEN w[i] ELSE s[i - m]
  BY ConcatProperties
<1> HIDE DEF t, m, n
<1>3. \A i \in 1 .. m : t[i] = w[i]
  BY <1>1, <1>2
<1>4. \A i \in 1 .. n : t[m + i] = s[i]
  BY <1>1, <1>2
<1>5. m \in 0 .. Len(t) /\ Len(t) - m = n
  BY <1>1, <1>2
<1>6. v \in Seq(T) /\ Len(v) = n /\ \A i \in 1 .. n : v[i] = t[m + i]
  BY <1>2, <1>5, AfterElements DEF m
<1> HIDE DEF v
<1>7. v = s
  BY <1>4, <1>6, SeqEqual DEF n
<1> QED BY <1>2, <1>3, <1>4, <1>7 DEF v, t, m, n

-----------------------------------------------------------------------------
(* The lines of the dump, and those after a statement. *)
AllLines == [i \in DOMAIN dump |-> LinesOf(i)]
Rest(k) == FlattenSeq(After(k, AllLines))

(* The lines by statement. *)
LEMMA AllLinesType ==
  ASSUME DumpFits, Ordinary
  PROVE  /\ Len(dump) \in Nat \ {0} /\ DOMAIN dump = 1 .. Len(dump)
         /\ AllLines \in Seq(Seq(Seq(Marks))) /\ Len(AllLines) = Len(dump)
         /\ \A k \in 1 .. Len(dump) : AllLines[k] = LinesOf(k)
<1>1. Len(dump) \in Nat /\ DOMAIN dump = 1 .. Len(dump) /\ Len(dump) # 0
  BY LenProperties, EmptySeq DEF DumpFits
<1>2. \A k \in 1 .. Len(dump) : LinesOf(k) \in Seq(Seq(Marks))
  BY LinesSorts
<1> QED BY <1>1, <1>2 DEF AllLines

(* The rest of a dump starts with the lines of the next statement. *)
LEMMA RestSteps ==
  ASSUME DumpFits, Ordinary, NEW k \in 0 .. Len(dump)
  PROVE  /\ Rest(k) \in Seq(Seq(Marks))
         /\ k < Len(dump) => /\ k + 1 \in 1 .. Len(dump)
                             /\ Rest(k + 1) \in Seq(Seq(Marks))
                             /\ Rest(k) = LinesOf(k + 1) \o Rest(k + 1)
                             /\ Rest(k) # <<>>
         /\ Rest(Len(dump)) = <<>>
<1> DEFINE n == Len(dump)
           T == Seq(Seq(Marks))
<1>1. /\ n \in Nat /\ AllLines \in Seq(T) /\ Len(AllLines) = n
      /\ \A i \in 1 .. n : AllLines[i] = LinesOf(i)
  BY AllLinesType
<1>2. ASSUME NEW i \in 0 .. n PROVE After(i, AllLines) \in Seq(T) /\ Rest(i) \in T
  <2>1. After(i, AllLines) \in Seq(T)
    <3> HIDE DEF T
    <3> QED BY <1>1, AfterIsText
  <2> QED BY <2>1, FlattenedIsText DEF Rest
<1>3. ASSUME k < n
      PROVE  k + 1 \in 1 .. n /\ Rest(k) = LinesOf(k + 1) \o Rest(k + 1) /\ Rest(k) # <<>>
  <2>1. k + 1 \in 1 .. n /\ k + 1 \in 0 .. n /\ k \in 0 .. Len(AllLines) /\ k < Len(AllLines)
    BY <1>1, <1>3
  <2>2. After(k, AllLines) = <<LinesOf(k + 1)>> \o After(k + 1, AllLines)
    <3>1. After(k, AllLines) = <<AllLines[k + 1]>> \o After(k + 1, AllLines)
      <4> HIDE DEF T
      <4> QED BY <1>1, <2>1, AfterSteps
    <3> QED BY <1>1, <2>1, <3>1
  <2>3. LinesOf(k + 1) \in T /\ LinesOf(k + 1) # <<>>
    BY <2>1, LinesSorts
  <2>4. After(k + 1, AllLines) \in Seq(T)
    BY <1>2, <2>1
  <2>5. Rest(k) = LinesOf(k + 1) \o Rest(k + 1)
    BY <2>2, <2>3, <2>4, FlattenCons DEF Rest
  <2>6. Rest(k + 1) \in T
    BY <1>2, <2>1
  <2>7. Rest(k) # <<>>
    <3> DEFINE a == LinesOf(k + 1)
               b == Rest(k + 1)
               c == a \o b
    <3>1. a \in T /\ a # <<>> /\ b \in T
      BY <2>3, <2>6
    <3> HIDE DEF a, b
    <3>2. Len(c) = Len(a) + Len(b) /\ Len(a) \in Nat /\ Len(b) \in Nat /\ Len(a) # 0
      BY <3>1, ConcatProperties, EmptySeq
    <3>3. c # <<>>
      <4> HIDE DEF c
      <4>1. Len(<<>>) = 0
        BY EmptySeq
      <4> QED BY <3>2, <4>1
    <3> QED BY <2>5, <3>3 DEF a, b, c
  <2> QED BY <2>1, <2>5, <2>7
<1>4. Rest(n) = <<>>
  <2>1. n \in 0 .. Len(AllLines)
    BY <1>1
  <2>2. After(n, AllLines) \in Seq(T) /\ Len(After(n, AllLines)) = 0
    <3>1. Len(After(n, AllLines)) = Len(AllLines) - n /\ After(n, AllLines) \in Seq(T)
      <4> HIDE DEF T, n
      <4> QED BY <1>1, <2>1, AfterIsText
    <3> QED BY <1>1, <3>1
  <2>3. After(n, AllLines) = <<>>
    BY <2>2, EmptySeq
  <2>4. FlattenSeq(<<>>) = <<>>
    BY DEF FlattenSeq
  <2> QED BY <2>3, <2>4 DEF Rest
<1> QED BY <1>1, <1>2, <1>3, <1>4, SMTT(30)

-----------------------------------------------------------------------------
(* The next files.                                                         *)

(* The first end of a file in s comes right before u. *)
Ends(s, u) ==
  \E n \in 1 .. Len(s) : /\ s[n] = EndOfFile /\ \A i \in 1 .. n - 1 : s[i] # EndOfFile
                         /\ u = After(n, s)

(* NextFiles goes on right after that end. *)
LEMMA EndsNext ==
  ASSUME NEW s \in Seq(Seq(Marks)), NEW u, Ends(s, u)
  PROVE  NextFiles(s) = u
<1> DEFINE ends == {i \in DOMAIN s : s[i] = EndOfFile}
           first == CHOOSE i \in ends : \A j \in ends : i <= j
<1>1. PICK n \in 1 .. Len(s) : /\ s[n] = EndOfFile /\ \A i \in 1 .. n - 1 : s[i] # EndOfFile
                               /\ u = After(n, s)
  BY DEF Ends
<1>2. Len(s) \in Nat /\ DOMAIN s = 1 .. Len(s)
  BY LenProperties
<1>3. n \in ends /\ \A j \in ends : n <= j
  <2>1. \A j \in 1 .. Len(s) : ~(n <= j) => j \in 1 .. n - 1
    BY <1>2
  <2> QED BY <1>1, <1>2, <2>1
<1>4. \A i \in ends : i \in Int
  BY <1>2
<1>5. first = n
  <2> HIDE DEF ends
  <2>1. \A i \in ends : (\A j \in ends : i <= j) => i = n
    BY <1>3, <1>4
  <2> QED BY <1>3, <2>1
<1>6. NextFiles(s) = SubSeq(s, first + 1, Len(s))
  BY DEF NextFiles
<1> QED BY <1>1, <1>5, <1>6 DEF After

(* Lines before it that end no file make no difference, *)
LEMMA EndsLater ==
  ASSUME NEW w \in Seq(Seq(Marks)), NEW s \in Seq(Seq(Marks)), NEW u, Ends(s, u),
         \A i \in 1 .. Len(w) : w[i] # EndOfFile
  PROVE  Ends(w \o s, u)
<1> DEFINE t == w \o s
<1>1. PICK n \in 1 .. Len(s) : /\ s[n] = EndOfFile /\ \A i \in 1 .. n - 1 : s[i] # EndOfFile
                               /\ u = After(n, s)
  BY DEF Ends
<1>2. Len(s) \in Nat /\ Len(w) \in Nat
  BY LenProperties
<1>3. /\ t \in Seq(Seq(Marks)) /\ Len(t) = Len(w) + Len(s)
      /\ \A i \in 1 .. Len(w) : t[i] = w[i]
      /\ \A i \in 1 .. Len(s) : t[Len(w) + i] = s[i]
      /\ After(Len(w), t) = s
  BY AfterFirst
<1> HIDE DEF t
<1>4. Len(w) + n \in 1 .. Len(t) /\ t[Len(w) + n] = EndOfFile
  BY <1>1, <1>2, <1>3
<1>5. ASSUME NEW i \in 1 .. Len(w) + n - 1 PROVE t[i] # EndOfFile
  <2>1. CASE i <= Len(w)
    <3>1. i \in 1 .. Len(w)
      BY <1>2, <2>1
    <3> QED BY <1>3, <3>1
  <2>2. CASE ~(i <= Len(w))
    <3>1. i - Len(w) \in 1 .. n - 1 /\ i - Len(w) \in 1 .. Len(s) /\ Len(w) + (i - Len(w)) = i
      BY <1>2, <2>2
    <3> QED BY <1>1, <1>3, <3>1, ZenonT(40)
  <2> QED BY <2>1, <2>2
<1>6. After(n, s) = After(Len(w) + n, t)
  <2> DEFINE m == Len(w)
             l == m + n
  <2>1. m \in 0 .. Len(t) /\ l \in m .. Len(t) /\ l - m = n
    BY <1>2, <1>3
  <2> HIDE DEF m, l
  <2>2. After(l - m, After(m, t)) = After(l, t)
    BY <1>3, <2>1, AfterTwice
  <2> QED BY <1>3, <2>1, <2>2 DEF m, l
<1>7. Ends(t, u)
  BY <1>1, <1>4, <1>5, <1>6 DEF Ends
<1> QED BY <1>7 DEF t

(* nor do those that are read already. *)
LEMMA EndsSooner ==
  ASSUME NEW s \in Seq(Seq(Marks)), NEW u, Ends(s, u), NEW r \in 0 .. Len(s),
         \A i \in 1 .. r : s[i] # EndOfFile
  PROVE  Ends(After(r, s), u)
<1> DEFINE t == After(r, s)
<1>1. PICK n \in 1 .. Len(s) : /\ s[n] = EndOfFile /\ \A i \in 1 .. n - 1 : s[i] # EndOfFile
                               /\ u = After(n, s)
  BY DEF Ends
<1>2. Len(s) \in Nat /\ r \in 0 .. n - 1 /\ n \in r .. Len(s)
  <2>1. Len(s) \in Nat
    BY LenProperties
  <2>2. n \notin 1 .. r
    BY <1>1
  <2> QED BY <2>1, <2>2
<1>3. /\ t \in Seq(Seq(Marks)) /\ Len(t) = Len(s) - r
      /\ \A i \in 1 .. Len(s) - r : t[i] = s[r + i]
  BY AfterElements
<1>4. After(n - r, t) = After(n, s)
  BY <1>2, AfterTwice
<1> HIDE DEF t
<1>5. n - r \in 1 .. Len(t) /\ t[n - r] = EndOfFile
  <2>1. n - r \in 1 .. Len(s) - r /\ r + (n - r) = n
    BY <1>2
  <2> QED BY <1>1, <1>3, <2>1
<1>6. \A i \in 1 .. (n - r) - 1 : t[i] # EndOfFile
  <2>1. \A i \in 1 .. (n - r) - 1 : i \in 1 .. Len(s) - r /\ r + i \in 1 .. n - 1
    BY <1>2
  <2> QED BY <1>1, <1>3, <2>1
<1>7. Ends(t, u)
  BY <1>1, <1>4, <1>5, <1>6 DEF Ends
<1> QED BY <1>7 DEF t

(* The end of the file that holds the statement after k. *)
EndsFile(k, m) == m \in k + 1 .. Len(dump) /\ dump[m].kind = "end" /\ Ends(Rest(k), Rest(m))

(* Every statement is in a file: the dump ends with the end of one. *)
LEMMA FileEnds ==
  ASSUME DumpFits, Ordinary, NEW k \in 0 .. Len(dump), k < Len(dump)
  PROVE  \E m : EndsFile(k, m)
<1> DEFINE n == Len(dump)
           D == 0 .. n - 1
           rank == [i \in D |-> n - i]
           S == {i \in D : \E m : EndsFile(i, m)}
<1>1. n \in Nat \ {0} /\ rank \in [D -> Nat]
  BY AllLinesType
<1>2. ASSUME NEW i \in D, \A j \in D : rank[j] < rank[i] => j \in S
      PROVE  i \in S
  <2>1. /\ i \in 0 .. n /\ i < n /\ i + 1 \in 1 .. n /\ Rest(i) \in Seq(Seq(Marks))
        /\ Rest(i + 1) \in Seq(Seq(Marks)) /\ Rest(i) = LinesOf(i + 1) \o Rest(i + 1)
    <3>1. i \in 0 .. n /\ i < n
      BY <1>1
    <3> QED BY <3>1, RestSteps
  <2>2. CASE dump[i + 1].kind = "end"
    <3>1. LinesOf(i + 1) = <<EndOfFile>>
      BY <2>1, <2>2, LinesSorts
    <3>2. LinesOf(i + 1) \in Seq(Seq(Marks))
      BY <2>1, LinesSorts
    <3> DEFINE w == LinesOf(i + 1)
               s == Rest(i + 1)
    <3>3. Len(w) = 1 /\ w[1] = EndOfFile
      BY <3>1
    <3>4. w \in Seq(Seq(Marks)) /\ s \in Seq(Seq(Marks))
      BY <2>1, <3>2
    <3> HIDE DEF w, s
    <3>5. /\ Len(w \o s) = Len(w) + Len(s) /\ \A j \in 1 .. Len(w) : (w \o s)[j] = w[j]
          /\ After(Len(w), w \o s) = s
      BY <3>4, AfterFirst
    <3>6. 1 \in 1 .. Len(w \o s) /\ (w \o s)[1] = EndOfFile /\ After(1, w \o s) = s
      <4>1. Len(s) \in Nat
        BY <3>4, LenProperties
      <4> QED BY <3>3, <3>5, <4>1
    <3>7. Ends(w \o s, s)
      BY <3>6 DEF Ends
    <3>8. EndsFile(i, i + 1)
      <4>1. i + 1 \in i + 1 .. n
        BY <2>1
      <4> QED BY <2>1, <2>2, <3>7, <4>1 DEF EndsFile, w, s
    <3> QED BY <3>8
  <2>3. CASE dump[i + 1].kind # "end"
    <3>1. i + 1 # n
      BY <2>3 DEF DumpFits
    <3>2. i + 1 \in D /\ rank[i + 1] < rank[i]
      BY <1>1, <2>1, <3>1
    <3>3. PICK m : EndsFile(i + 1, m)
      BY <1>2, <3>2
    <3>4. \A j \in 1 .. Len(LinesOf(i + 1)) : LinesOf(i + 1)[j] # EndOfFile
      BY <2>1, <2>3, LinesSorts DEF IsGathered
    <3>5. LinesOf(i + 1) \in Seq(Seq(Marks))
      BY <2>1, LinesSorts
    <3>6. Ends(Rest(i), Rest(m))
      BY <2>1, <3>3, <3>4, <3>5, EndsLater DEF EndsFile
    <3>7. m \in i + 1 .. n
      BY <1>1, <2>1, <3>3 DEF EndsFile
    <3>8. EndsFile(i, m)
      BY <3>3, <3>6, <3>7 DEF EndsFile
    <3> QED BY <3>8
  <2> QED BY <2>2, <2>3
<1>3. Rises(D, rank, S)
  <2> HIDE DEF rank, S
  <2> QED BY <1>1, <1>2 DEF Rises
<1>4. D \subseteq S
  <2> HIDE DEF rank, S, D
  <2> QED BY <1>3, RankInduction
<1>5. k \in D
  BY <1>1
<1> QED BY <1>4, <1>5

(* Before the last line of a statement the rest of its file leads to the end of the
   file. *)
LEMMA NextEnd ==
  ASSUME DumpFits, Ordinary, NEW k \in 0 .. Len(dump), k < Len(dump),
         NEW r \in 0 .. Len(LinesOf(k + 1)) - 1
  PROVE  /\ r \in 0 .. Len(Rest(k))
         /\ \E m \in k + 1 .. Len(dump) :
              dump[m].kind = "end" /\ NextFiles(After(r, Rest(k))) = Rest(m)
<1> DEFINE w == LinesOf(k + 1)
           s == Rest(k + 1)
<1>1. k + 1 \in 1 .. Len(dump) /\ Rest(k) \in Seq(Seq(Marks)) /\ s \in Seq(Seq(Marks)) /\ Rest(k) = w \o s
  BY RestSteps
<1>2. w \in Seq(Seq(Marks)) /\ Len(w) \in Nat
  BY <1>1, LinesSorts
<1>3. \A i \in 1 .. r : w[i] # EndOfFile
  <2>1. CASE dump[k + 1].kind = "end"
    <3>1. Len(w) = 1
      <4>1. w = <<EndOfFile>>
        BY <1>1, <2>1, LinesSorts
      <4> QED BY <4>1
    <3>2. r \in 0 .. Len(w) - 1
      OBVIOUS
    <3> HIDE DEF w
    <3>3. r = 0
      BY <3>1, <3>2
    <3> QED BY <3>3
  <2>2. CASE dump[k + 1].kind # "end"
    <3>1. \A j \in 1 .. Len(w) : w[j] # EndOfFile
      BY <1>1, <2>2, LinesSorts DEF IsGathered
    <3>2. \A i \in 1 .. r : i \in 1 .. Len(w)
      BY <1>2
    <3> QED BY <3>1, <3>2
  <2> QED BY <2>1, <2>2
<1>4. PICK m : EndsFile(k, m)
  BY FileEnds
<1> HIDE DEF w, s
<1>5. /\ Len(w \o s) = Len(w) + Len(s) /\ \A j \in 1 .. Len(w) : (w \o s)[j] = w[j]
  BY <1>1, <1>2, AfterFirst
<1>6. r \in 0 .. Len(Rest(k)) /\ \A i \in 1 .. r : i \in 1 .. Len(w)
  <2>1. Len(s) \in Nat /\ r \in 0 .. Len(w) - 1
    BY <1>1, LenProperties DEF w
  <2> QED BY <1>1, <1>2, <1>5, <2>1
<1>7. \A i \in 1 .. r : Rest(k)[i] # EndOfFile
  BY <1>1, <1>3, <1>5, <1>6
<1>8. Ends(After(r, Rest(k)), Rest(m))
  BY <1>1, <1>4, <1>6, <1>7, EndsSooner DEF EndsFile
<1>9. After(r, Rest(k)) \in Seq(Seq(Marks))
  BY <1>1, <1>6, AfterIsText
<1>10. NextFiles(After(r, Rest(k))) = Rest(m)
  BY <1>8, <1>9, EndsNext
<1> QED BY <1>4, <1>6, <1>10 DEF EndsFile

-----------------------------------------------------------------------------
(* What the dump stands for does not change while it is read. *)
LEMMA DumpStands ==
  ASSUME dump' = dump
  PROVE  /\ \A k : LinesOf(k)' = LinesOf(k) /\ TextOf(k)' = TextOf(k) /\ Rest(k)' = Rest(k)
         /\ \A k : Created(k)' = Created(k) /\ Creates(k)' = Creates(k)
                   /\ TablesAfter(k)' = TablesAfter(k) /\ (Proper(k)' <=> Proper(k))
         /\ \A k, i : RecordAt(k, i)' = RecordAt(k, i)
         /\ RowsToSend' = RowsToSend
         /\ \A places : RecordsOf(places)' = RecordsOf(places)
         /\ DumpFits' <=> DumpFits
         /\ Ordinary' <=> Ordinary
         /\ CreatedOnce' <=> CreatedOnce
<1>1. \A k : LinesOf(k)' = LinesOf(k)
  BY DEF LinesOf
<1>2. \A k : TextOf(k)' = TextOf(k)
  BY <1>1 DEF TextOf
<1>3. AllLines' = AllLines
  BY <1>1 DEF AllLines
<1>4. \A k : Rest(k)' = Rest(k)
  BY <1>3 DEF Rest
<1>5. \A k : Created(k)' = Created(k)
  BY DEF Created
<1>6. \A k : Creates(k)' = Creates(k)
  BY DEF Creates
<1>7. \A k : TablesAfter(k)' = TablesAfter(k)
  BY <1>5, <1>6 DEF TablesAfter
<1>8. \A k, i : RecordAt(k, i)' = RecordAt(k, i)
  BY <1>7 DEF RecordAt
<1>9. RowsToSend' = RowsToSend
  BY <1>7 DEF RowsToSend
<1>10. \A places : RecordsOf(places)' = RecordsOf(places)
  BY <1>8 DEF RecordsOf
<1>11. \A k : Proper(k)' <=> Proper(k)
  BY DEF Proper
<1>12. \A k, l : Apart(k, l)' = Apart(k, l)
  BY DEF Apart
<1>13. DumpFits' <=> DumpFits
  BY DEF DumpFits
<1>14. Ordinary' <=> Ordinary
  BY <1>5, <1>12 DEF Ordinary
<1>15. CreatedOnce' <=> CreatedOnce
  BY <1>5 DEF CreatedOnce
<1> QED BY <1>1, <1>2, <1>4, <1>5, <1>6, <1>7, <1>8, <1>9, <1>10, <1>11, <1>13, <1>14, <1>15

-----------------------------------------------------------------------------
(* The tables that statements create.                                      *)

(* The l-th statement is the last of the first q that creates t. *)
IsLast(q, t, l) ==
  l \in Creates(q) /\ Created(l) = t /\ \A m \in Creates(q) : Created(m) = t => m <= l

(* TablesAfter holds the columns of the last statement that creates a table. *)
LEMMA LastColumns ==
  ASSUME NEW q \in Nat, NEW t
  PROVE  /\ t \in DOMAIN TablesAfter(q) <=> \E l \in Creates(q) : Created(l) = t
         /\ \A l : IsLast(q, t, l) =>
              t \in DOMAIN TablesAfter(q) /\ TablesAfter(q)[t] = Definitions[dump[l].definition].columns
<1>1. DOMAIN TablesAfter(q) = {Created(i) : i \in Creates(q)}
  BY DEF TablesAfter
<1>2. ASSUME NEW l, IsLast(q, t, l)
      PROVE  t \in DOMAIN TablesAfter(q) /\ TablesAfter(q)[t] = Definitions[dump[l].definition].columns
  <2> DEFINE at == {i \in Creates(q) : Created(i) = t}
  <2>1. l \in at /\ \A m \in at : m <= l
    BY <1>2 DEF IsLast
  <2>2. \A m \in at : m \in Nat
    BY DEF Creates
  <2>3. Max(at) = l
    <3> HIDE DEF at
    <3>1. \A x \in at : (\A m \in at : x >= m) => x = l
      BY <2>1, <2>2
    <3>2. \A m \in at : l >= m
      BY <2>1, <2>2
    <3>3. Max(at) = CHOOSE x \in at : \A m \in at : x >= m
      BY DEF Max
    <3> QED BY <2>1, <3>1, <3>2, <3>3
  <2>4. t \in DOMAIN TablesAfter(q)
    BY <1>1, <2>1
  <2>5. TablesAfter(q)[t] = Definitions[dump[Max(at)].definition].columns
    BY <1>1, <2>4 DEF TablesAfter
  <2> QED BY <2>3, <2>4, <2>5
<1> QED BY <1>1, <1>2

(* A table that is created has a last statement that creates it. *)
LEMMA LastExists ==
  ASSUME NEW q \in Nat, NEW i \in Creates(q)
  PROVE  \E l : IsLast(q, Created(i), l)
<1> DEFINE at == {j \in Creates(q) : Created(j) = Created(i)}
<1>1. at \subseteq 0 .. q /\ at # {}
  BY DEF Creates
<1>2. PICK l \in at : \A m \in at : l >= m
  <2> HIDE DEF at
  <2> QED BY <1>1, GreatestElement
<1>3. \A m \in at : m \in Nat /\ l \in Nat
  BY DEF Creates
<1>4. IsLast(q, Created(i), l)
  BY <1>2, <1>3 DEF IsLast
<1> QED BY <1>4

-----------------------------------------------------------------------------
(* How far the export is.                                                  *)

(* The dumps and failures under which an export can be counted: the hypotheses of
   SentIsDumped. *)
Counted == Ordinary /\ (failures = 0 \/ CreatedOnce)

(* The hash of a key is taken modulo the number of channels, so every key has one. *)
Routed == \A key : ChannelOf(key) \in Channels

(* The first r lines of the k-th statement are read. *)
Gathered(k, r) ==
  /\ dump[k].kind = "comment" => sql_line = <<>>
  /\ Proper(k) => sql_line \o FlattenSeq(After(r, LinesOf(k))) = TextOf(k)

(* The first k statements are read, and r lines of the next one. *)
ReadAt(k, r) ==
  /\ k \in 0 .. Len(dump) /\ r \in Nat
  /\ lines = After(r, Rest(k))
  /\ sql_line \in Seq(Marks)
  /\ k < Len(dump) => r < Len(LinesOf(k + 1)) /\ Gathered(k + 1, r)
  /\ k = Len(dump) => r = 0
  /\ status \in {"opening", "done"} => r = 0 /\ sql_line = <<>>
  /\ status \notin {"opening", "done"} => k < Len(dump)
  /\ status = "done" => k = Len(dump)

(* Those of a batch start after the b-th and go up to the e-th; comments apart,
   they are at the places of the batch.  A read that fails passes over those up
   to the k-th, and the next is the end of the file. *)
InBatch(b, e, place) ==
  /\ place \in Seq(Nat)
  /\ \A i \in 1 .. Len(place) : place[i] \in b + 1 .. e /\ Proper(place[i])
  /\ \A i, j \in 1 .. Len(place) : i < j => place[i] < place[j]
  /\ \A l \in b + 1 .. e : Proper(l) => \E i \in 1 .. Len(place) : place[i] = l
  /\ Len(place) <= BatchSize

BatchAt(k, b, e, place) ==
  /\ b \in Nat /\ e \in Nat /\ b <= e /\ e <= k
  /\ e = k \/ (failures > 0 /\ k < Len(dump) /\ dump[k + 1].kind = "end")
  /\ InBatch(b, e, place)
  /\ status \in {"reading", "batch"} =>
       Len(sql_buffer) = Len(place) /\ \A i \in 1 .. Len(place) : sql_buffer[i] = TextOf(place[i])
  /\ status \in {"opening", "done"} => b = k

(* The tables of the first q statements are recorded. *)
CacheAt(q) ==
  /\ \A t \in DOMAIN table_cache : \E l : IsLast(q, t, l)
                                      /\ table_cache[t] = Definitions[dump[l].definition].columns
  /\ failures = 0 => \A l \in Creates(q) : Created(l) \in DOMAIN table_cache

(* Tasks send the rows of the INSERT statements of the batch. *)
TasksAt(place) ==
  /\ \A task \in tasks : /\ task.at \in 1 .. Len(place)
                         /\ dump[place[task.at]].kind = "insert"
                         /\ task.sql = TextOf(place[task.at])
  /\ \A task, other \in tasks : task.at = other.at => task = other

(* The rows of the k-th statement that its task has sent. *)
Begun(task, k) == IF task.parsed THEN Len(dump[k].rows) - Len(task.left) ELSE 0

(* A task that is begun has the rest of them to send, in their order. *)
TaskSends(task, k) ==
  task.parsed =>
    /\ <<k, 1>> \in RowsToSend
    /\ Begun(task, k) \in 0 .. Len(dump[k].rows) - 1
    /\ Len(task.left) = Len(dump[k].rows) - Begun(task, k)
    /\ \A j \in 1 .. Len(task.left) : task.left[j] = RecordAt(k, Begun(task, k) + j)
    /\ task.left \in Seq(Range(task.left))

(* What is sent are the rows `done`, and the tasks hold all others up to the q-th
   statement unless something went wrong. *)
SentAt(place, q, done) ==
  /\ done \subseteq RowsToSend /\ \A p \in done : p[1] <= q
  /\ sent = RecordsOf(done)
  /\ \A task \in tasks :
       /\ TaskSends(task, place[task.at])
       /\ \A p \in done : p[1] = place[task.at] => p[2] <= Begun(task, p[1])
  /\ failures = 0 => open = Channels
  /\ failures = 0 /\ Routed /\ status \notin {"panicking", "panicked"} =>
       \A p \in RowsToSend : p[1] <= q =>
         p \in done \/ \E task \in tasks : place[task.at] = p[1] /\ p[2] > Begun(task, p[1])

(* The statements whose tables are recorded and whose rows are sent, or held by tasks:
   those before the batch, and those of the batch once it is parsed. *)
Handled(b, e) == IF status \in {"sending", "panicking"} THEN e ELSE b

(* The export stands at a line of the dump, with a batch of its statements and some of
   its rows sent. *)
ExportAt(k, r, b, e, place, done) ==
  /\ ReadAt(k, r) /\ BatchAt(k, b, e, place)
  /\ CacheAt(Handled(b, e)) /\ TasksAt(place) /\ SentAt(place, Handled(b, e), done)

(* The inductive invariant of the export: there is such a place. *)
ExportInv ==
  /\ TypeInv /\ DumpFits
  /\ Counted => \E k, r, b, e, place, done : ExportAt(k, r, b, e, place, done)

-----------------------------------------------------------------------------
(* The rows of a statement are finitely many. *)
LEMMA RowsToSendAt ==
  ASSUME DumpFits, Ordinary
  PROVE  /\ \A p \in RowsToSend :
              /\ p = <<p[1], p[2]>> /\ p[1] \in 1 .. Len(dump) /\ dump[p[1]].kind = "insert"
              /\ Len(dump[p[1]].rows) \in Nat /\ p[2] \in 1 .. Len(dump[p[1]].rows)
         /\ \A k \in 1 .. Len(dump) : dump[k].kind = "insert" =>
              \A i : <<k, i>> \in RowsToSend
                <=> /\ Readable(dump[k].rows) /\ dump[k].table \in DOMAIN TablesAfter(k)
                    /\ i \in 1 .. Len(dump[k].rows)
<1>1. DOMAIN dump = 1 .. Len(dump)
  BY AllLinesType
<1>2. \A k \in 1 .. Len(dump) : dump[k].kind = "insert" =>
        Len(dump[k].rows) \in Nat \ {0} /\ DOMAIN dump[k].rows = 1 .. Len(dump[k].rows)
  <2> SUFFICES ASSUME NEW k \in 1 .. Len(dump), dump[k].kind = "insert"
               PROVE  Len(dump[k].rows) \in Nat \ {0} /\ DOMAIN dump[k].rows = 1 .. Len(dump[k].rows)
    OBVIOUS
  <2>1. dump[k].rows \in Seq(Filled) \ { <<>> }
    BY StatementSorts
  <2> QED BY <2>1, LenProperties, EmptySeq
<1> DEFINE K == {k \in DOMAIN dump : /\ dump[k].kind = "insert"
                                     /\ Readable(dump[k].rows)
                                     /\ dump[k].table \in DOMAIN TablesAfter(k)}
<1>3. RowsToSend = UNION {{k} \X DOMAIN dump[k].rows : k \in K}
  BY DEF RowsToSend
<1>4. \A p : p \in RowsToSend <=> \E k \in K : p \in {k} \X DOMAIN dump[k].rows
  BY <1>3
<1>5. \A p \in RowsToSend : p = <<p[1], p[2]>> /\ p[1] \in K /\ p[2] \in DOMAIN dump[p[1]].rows
  BY <1>4
<1>6. \A k, i : <<k, i>> \in RowsToSend <=> k \in K /\ i \in DOMAIN dump[k].rows
  BY <1>4
<1> QED BY <1>1, <1>2, <1>5, <1>6

-----------------------------------------------------------------------------
(* Reading.                                                                *)

(* The next line is the next of the (k + 1)-th statement. *)
LEMMA LineAt ==
  ASSUME DumpFits, Ordinary, NEW k, NEW r, ReadAt(k, r), k < Len(dump)
  PROVE  LET w == LinesOf(k + 1)
         IN /\ k + 1 \in 1 .. Len(dump) /\ w \in Seq(Seq(Marks)) /\ Len(w) \in Nat
            /\ r \in 0 .. Len(w) - 1
            /\ lines # <<>> /\ Head(lines) = w[r + 1]
            /\ Tail(lines) = After(r + 1, Rest(k))
            /\ r + 1 = Len(w) => Tail(lines) = Rest(k + 1)
            /\ Head(lines) = EndOfFile <=> dump[k + 1].kind = "end"
<1> DEFINE w == LinesOf(k + 1)
           s == Rest(k + 1)
<1>1. k \in 0 .. Len(dump) /\ r \in Nat /\ lines = After(r, Rest(k)) /\ r < Len(w)
  BY DEF ReadAt
<1>2. k + 1 \in 1 .. Len(dump) /\ Rest(k) = w \o s /\ s \in Seq(Seq(Marks)) /\ Rest(k) \in Seq(Seq(Marks))
  BY <1>1, RestSteps
<1>3. w \in Seq(Seq(Marks)) /\ Len(w) \in Nat
  BY <1>2, LinesSorts
<1>4. \A i \in 1 .. Len(w) : w[i] = EndOfFile <=> dump[k + 1].kind = "end"
  <2>1. CASE dump[k + 1].kind = "end"
    <3>1. w = <<EndOfFile>>
      BY <1>2, <2>1, LinesSorts
    <3>2. Len(w) = 1 /\ w[1] = EndOfFile
      BY <3>1
    <3>3. \A i \in 1 .. 1 : i = 1
      OBVIOUS
    <3> QED BY <2>1, <3>2, <3>3
  <2>2. CASE dump[k + 1].kind # "end"
    <3>1. \A i \in 1 .. Len(w) : w[i] # EndOfFile
      BY <1>2, <2>2, LinesSorts DEF IsGathered
    <3> QED BY <2>2, <3>1
  <2> QED BY <2>1, <2>2
<1>5. r \in 0 .. Len(w) - 1 /\ r + 1 \in 1 .. Len(w)
  BY <1>1, <1>3
<1> HIDE DEF w, s
<1>6. /\ Len(w \o s) = Len(w) + Len(s) /\ \A i \in 1 .. Len(w) : (w \o s)[i] = w[i]
      /\ After(Len(w), w \o s) = s
  BY <1>2, <1>3, AfterFirst
<1>7. r \in 0 .. Len(Rest(k)) /\ r < Len(Rest(k))
  <2>1. Len(s) \in Nat
    BY <1>2, LenProperties
  <2> QED BY <1>2, <1>3, <1>5, <1>6, <2>1
<1>8. lines # <<>> /\ Head(lines) = Rest(k)[r + 1] /\ Tail(lines) = After(r + 1, Rest(k))
  BY <1>1, <1>2, <1>7, AfterSteps
<1>9. Rest(k)[r + 1] = w[r + 1]
  BY <1>2, <1>5, <1>6
<1>10. r + 1 = Len(w) => Tail(lines) = s
  BY <1>2, <1>6, <1>8
<1> QED BY <1>2, <1>3, <1>4, <1>5, <1>8, <1>9, <1>10 DEF w, s

(* Between two statements nothing is gathered. *)
LEMMA FreshAt ==
  ASSUME DumpFits, Ordinary, dump' = dump, NEW k \in 0 .. Len(dump),
         lines' = Rest(k), sql_line' \in Seq(Marks),
         k < Len(dump) => sql_line' = <<>> \/ dump[k + 1].kind = "end",
         status' \in {"opening", "done"} => sql_line' = <<>>,
         status' \notin {"opening", "done"} => k < Len(dump),
         status' = "done" => k = Len(dump)
  PROVE  ReadAt(k, 0)'
<1>1. Rest(k)' = Rest(k) /\ LinesOf(k + 1)' = LinesOf(k + 1) /\ TextOf(k + 1)' = TextOf(k + 1)
      /\ (Proper(k + 1)' <=> Proper(k + 1))
  BY DumpStands, Zenon
<1>2. After(0, Rest(k)) = Rest(k)
  BY RestSteps, AfterNone
<1>3. ASSUME k < Len(dump) PROVE 0 < Len(LinesOf(k + 1)) /\ Gathered(k + 1, 0)'
  <2>1. k + 1 \in 1 .. Len(dump)
    BY <1>3, RestSteps
  <2> DEFINE w == LinesOf(k + 1)
  <2>2. w \in Seq(Seq(Marks)) /\ w # <<>>
    BY <2>1, LinesSorts
  <2> HIDE DEF w
  <2>3. 0 < Len(w)
    BY <2>2, EmptySeq, LenProperties
  <2>4. After(0, w) = w /\ FlattenSeq(w) \in Seq(Marks)
    BY <2>2, AfterNone, FlattenedIsText
  <2>5. <<>> \o FlattenSeq(w) = FlattenSeq(w)
    BY <2>4, ConcatEmptySeq
  <2>6. TextOf(k + 1) = FlattenSeq(w)
    BY DEF TextOf, w
  <2>7. CASE sql_line' = <<>>
    <3>1. sql_line' \o FlattenSeq(After(0, w)) = TextOf(k + 1)
      BY <2>4, <2>5, <2>6, <2>7
    <3>2. (sql_line \o FlattenSeq(After(0, LinesOf(k + 1))) = TextOf(k + 1))'
      BY <1>1, <3>1 DEF w
    <3> QED BY <2>3, <2>7, <3>2 DEF Gathered, w
  <2>8. CASE dump[k + 1].kind = "end"
    <3>1. dump'[k + 1].kind \notin {"comment", "create", "insert", "lock"}
      BY <2>8
    <3> QED BY <2>3, <3>1 DEF Gathered, Proper, w
  <2> QED BY <1>3, <2>7, <2>8
<1>4. (After(0, Rest(k)))' = After(0, Rest(k))
  BY <1>1
<1>5. lines' = (After(0, Rest(k)))'
  BY <1>2, <1>4
<1>6. (k < Len(dump) => 0 < Len(LinesOf(k + 1)) /\ Gathered(k + 1, 0))'
  BY <1>1, <1>3
<1> QED BY <1>5, <1>6 DEF ReadAt

(* A line more of the statement is read. *)
LEMMA LineGathered ==
  ASSUME DumpFits, Ordinary, dump' = dump, NEW k, NEW r, ReadAt(k, r), k < Len(dump),
         r + 1 < Len(LinesOf(k + 1)), lines' = Tail(lines), dump[k + 1].kind # "end",
         status' \notin {"opening", "done"},
         sql_line' = IF Proper(k + 1) THEN sql_line \o Head(lines) ELSE sql_line
  PROVE  ReadAt(k, r + 1)'
<1> DEFINE w == LinesOf(k + 1)
           line == w[r + 1]
           v == After(r, w)
           u == After(r + 1, w)
<1>1. /\ k + 1 \in 1 .. Len(dump) /\ w \in Seq(Seq(Marks)) /\ Len(w) \in Nat
      /\ r \in 0 .. Len(w) - 1
      /\ Head(lines) = line /\ Tail(lines) = After(r + 1, Rest(k))
  BY LineAt
<1>2. k \in 0 .. Len(dump) /\ r \in Nat /\ sql_line \in Seq(Marks) /\ Gathered(k + 1, r)
  BY DEF ReadAt
<1>3. Rest(k)' = Rest(k) /\ LinesOf(k + 1)' = LinesOf(k + 1) /\ TextOf(k + 1)' = TextOf(k + 1)
      /\ (Proper(k + 1)' <=> Proper(k + 1))
  BY DumpStands, Zenon
<1>4. line \in Seq(Marks)
  <2>1. r + 1 \in 1 .. Len(w)
    BY <1>1
  <2> HIDE DEF w
  <2> QED BY <1>1, <2>1, ElementOfSeq
<1>5. v = <<line>> \o u /\ u \in Seq(Seq(Marks))
  <2>1. r \in 0 .. Len(w) /\ r < Len(w) /\ r + 1 \in 0 .. Len(w)
    BY <1>1
  <2> HIDE DEF w
  <2> QED BY <1>1, <2>1, AfterSteps, AfterIsText
<1>6. FlattenSeq(v) = line \o FlattenSeq(u) /\ FlattenSeq(u) \in Seq(Marks)
  <2> HIDE DEF line, u, v
  <2> QED BY <1>4, <1>5, FlattenCons, FlattenedIsText
<1>7. sql_line' \in Seq(Marks)
  <2> DEFINE x == sql_line \o line
  <2>1. x \in Seq(Marks)
    <3> HIDE DEF line
    <3> QED BY <1>2, <1>4, ConcatProperties
  <2>2. sql_line' \in {x, sql_line}
    BY <1>1
  <2> HIDE DEF x
  <2> QED BY <1>2, <2>1, <2>2
<1>8. Gathered(k + 1, r + 1)'
  <2>1. CASE Proper(k + 1)
    <3>1. sql_line' = sql_line \o line
      BY <1>1, <2>1
    <3>2. sql_line \o FlattenSeq(v) = TextOf(k + 1)
      BY <1>2, <2>1 DEF Gathered
    <3>3. (sql_line \o line) \o FlattenSeq(u) = sql_line \o (line \o FlattenSeq(u))
      <4> DEFINE f == FlattenSeq(u)
      <4>1. f \in Seq(Marks)
        BY <1>6
      <4> DEFINE x == sql_line
      <4>2. x \in Seq(Marks)
        BY <1>2
      <4> HIDE DEF f, line, x
      <4>3. (x \o line) \o f = x \o (line \o f)
        BY ONLY <1>4, <4>1, <4>2, ConcatAssociative
      <4> QED BY <4>3 DEF f, x
    <3> HIDE DEF line, u, v
    <3>4. sql_line' \o FlattenSeq(u) = TextOf(k + 1)
      BY <1>6, <3>1, <3>2, <3>3
    <3>5. (sql_line \o FlattenSeq(After(r + 1, LinesOf(k + 1))) = TextOf(k + 1))'
      BY <1>3, <3>4 DEF u
    <3>6. dump'[k + 1].kind # "comment"
      BY <2>1 DEF Proper
    <3> QED BY <3>5, <3>6 DEF Gathered
  <2>2. CASE ~Proper(k + 1)
    <3>1. dump[k + 1].kind = "comment"
      BY <1>1, <2>2, LinesSorts
    <3>2. sql_line' = <<>>
      BY <1>2, <2>2, <3>1 DEF Gathered
    <3>3. ~Proper(k + 1)'
      BY <1>3, <2>2
    <3> QED BY <3>2, <3>3 DEF Gathered
  <2> QED BY <2>1, <2>2
<1>9. (After(r + 1, Rest(k)))' = After(r + 1, Rest(k))
  BY <1>3
<1>10. (k < Len(dump) => r + 1 < Len(LinesOf(k + 1)) /\ Gathered(k + 1, r + 1))'
  BY <1>3, <1>8
<1>11. r + 1 \in Nat
  BY <1>2
<1>12. lines' = (After(r + 1, Rest(k)))'
  BY <1>1, <1>9
<1> QED BY <1>2, <1>7, <1>10, <1>11, <1>12 DEF ReadAt

(* What ReadLine makes of a line of the (k + 1)-th statement. *)
LEMMA LineMoves ==
  ASSUME DumpFits, Ordinary, NEW k, NEW r, ReadAt(k, r), ReadLine
  PROVE  /\ k < Len(dump) /\ k + 1 \in 1 .. Len(dump) /\ dump[k + 1].kind # "end"
         /\ \/ ReadAt(k, r + 1)' /\ UNCHANGED <<sql_buffer, status>>
            \/ ReadAt(k + 1, 0)' /\ ~Proper(k + 1) /\ UNCHANGED <<sql_buffer, status>>
            \/ /\ ReadAt(k + 1, 0)' /\ Proper(k + 1)
               /\ sql_buffer' = Append(sql_buffer, TextOf(k + 1))
               /\ status' = IF BatchIsFull(sql_buffer') THEN "batch" ELSE status
<1> DEFINE w == LinesOf(k + 1)
           line == w[r + 1]
<1>1. /\ status = "reading" /\ Head(lines) # EndOfFile /\ lines' = Tail(lines) /\ dump' = dump
      /\ status' \notin {"opening", "done"}
  BY DEF ReadLine
<1>2. /\ k < Len(dump) /\ k \in 0 .. Len(dump) /\ Gathered(k + 1, r) /\ sql_line \in Seq(Marks)
  BY <1>1 DEF ReadAt
<1>3. /\ k + 1 \in 1 .. Len(dump) /\ w \in Seq(Seq(Marks)) /\ Len(w) \in Nat
      /\ r \in 0 .. Len(w) - 1 /\ r + 1 \in 1 .. Len(w)
      /\ Head(lines) = line /\ dump[k + 1].kind # "end"
      /\ r + 1 = Len(w) => Tail(lines) = Rest(k + 1)
  <2>1. /\ k + 1 \in 1 .. Len(dump) /\ w \in Seq(Seq(Marks)) /\ Len(w) \in Nat
        /\ r \in 0 .. Len(w) - 1
        /\ Head(lines) = line /\ (Head(lines) = EndOfFile <=> dump[k + 1].kind = "end")
        /\ r + 1 = Len(w) => Tail(lines) = Rest(k + 1)
    BY <1>2, LineAt
  <2>2. r + 1 \in 1 .. Len(w)
    BY <2>1
  <2> QED BY <1>1, <2>1, <2>2
<1>4. k + 1 \in 0 .. Len(dump) /\ k + 1 < Len(dump)
  <2>1. k + 1 # Len(dump)
    BY <1>3 DEF DumpFits
  <2>2. Len(dump) \in Nat
    BY AllLinesType
  <2> QED BY <1>3, <2>1, <2>2
<1>5. <<>> \in Seq(Marks)
  BY EmptySeq
<1>6. CASE Proper(k + 1)
  <2>1. IsGathered(w)
    BY <1>3, <1>6, LinesSorts
  <2>2. ~Discarded(line) /\ (Terminated(sql_line \o line) <=> r + 1 = Len(w))
    BY <1>2, <1>3, <2>1 DEF IsGathered
  <2>3. CASE r + 1 = Len(w)
    <3>1. /\ sql_line' = <<>> /\ sql_buffer' = Append(sql_buffer, sql_line \o line)
          /\ status' = IF BatchIsFull(sql_buffer') THEN "batch" ELSE status
      BY <1>3, <2>2, <2>3 DEF ReadLine
    <3>2. sql_line \o line = TextOf(k + 1)
      <4> DEFINE v == After(r, w)
      <4>1. sql_line \o FlattenSeq(v) = TextOf(k + 1)
        BY <1>2, <1>6 DEF Gathered
      <4>2. v = <<line>>
        <5> HIDE DEF w
        <5>1. r \in 0 .. Len(w) /\ r < Len(w) /\ Len(w) \in 0 .. Len(w)
          BY <1>3
        <5>2. v = <<line>> \o After(Len(w), w)
          BY <1>3, <2>3, <5>1, AfterSteps
        <5> DEFINE z == After(Len(w), w)
        <5>3. z \in Seq(Seq(Marks)) /\ Len(z) = Len(w) - Len(w)
          BY <1>3, <5>1, AfterIsText
        <5>4. z = <<>>
          <6> HIDE DEF z
          <6>1. Len(z) = 0
            BY <1>3, <5>3
          <6> QED BY <5>3, <6>1, EmptySeq
        <5>5. line \in Seq(Marks)
          BY <1>3, ElementOfSeq
        <5>6. <<line>> \o <<>> = <<line>>
          <6> HIDE DEF line
          <6>1. <<line>> \in Seq(Seq(Marks))
            BY <5>5
          <6> QED BY <6>1, ConcatEmptySeq
        <5> QED BY <5>2, <5>4, <5>6
      <4>3. line \in Seq(Marks)
        <5> HIDE DEF w
        <5> QED BY <1>3, ElementOfSeq
      <4> HIDE DEF v, line
      <4> QED BY <4>1, <4>2, <4>3, FlattenOne
    <3>3. ReadAt(k + 1, 0)'
      BY <1>1, <1>3, <1>4, <1>5, <2>3, <3>1, FreshAt
    <3> QED BY <1>2, <1>3, <1>6, <3>1, <3>2, <3>3
  <2>4. CASE r + 1 # Len(w)
    <3>1. sql_line' = sql_line \o line /\ UNCHANGED <<sql_buffer, status>>
      BY <1>3, <2>2, <2>4 DEF ReadLine
    <3>2. r + 1 < Len(w)
      BY <1>3, <2>4
    <3>3. ReadAt(k, r + 1)'
      BY <1>1, <1>2, <1>3, <1>6, <3>1, <3>2, LineGathered
    <3> QED BY <1>2, <1>3, <3>1, <3>3
  <2> QED BY <2>3, <2>4
<1>7. CASE ~Proper(k + 1)
  <2>1. dump[k + 1].kind = "comment"
    BY <1>3, <1>7, LinesSorts
  <2>2. Discarded(line)
    BY <1>3, <2>1, LinesSorts
  <2>3. UNCHANGED <<sql_line, sql_buffer, status>>
    BY <1>3, <2>2 DEF ReadLine
  <2>4. sql_line = <<>>
    BY <1>2, <2>1 DEF Gathered
  <2>5. CASE r + 1 = Len(w)
    <3>1. ReadAt(k + 1, 0)'
      BY <1>1, <1>3, <1>4, <1>5, <2>3, <2>4, <2>5, FreshAt
    <3> QED BY <1>2, <1>3, <1>7, <2>3, <3>1
  <2>6. CASE r + 1 # Len(w)
    <3>1. r + 1 < Len(w)
      BY <1>3, <2>6
    <3>2. ReadAt(k, r + 1)'
      BY <1>1, <1>2, <1>3, <1>7, <2>3, <3>1, LineGathered, ZenonT(40)
    <3> QED BY <1>2, <1>3, <2>3, <3>2
  <2> QED BY <2>5, <2>6
<1> QED BY <1>6, <1>7

-----------------------------------------------------------------------------
(* What a step leaves alone.                                               *)

(* The state before a step, when the export is counted before and after it. *)
Before(k, r, b, e, place, done) ==
  /\ TypeInv /\ DumpFits /\ Ordinary /\ dump' = dump
  /\ failures \in Nat /\ failures' \in Nat /\ failures' >= failures
  /\ failures' = 0 \/ CreatedOnce
  /\ ExportAt(k, r, b, e, place, done)

(* An export that is counted after a step was counted before: failures only add up. *)
LEMMA CountedBefore ==
  ASSUME ExportInv, [Next]_vars, Counted'
  PROVE  \E k, r, b, e, place, done : Before(k, r, b, e, place, done)
<1>1. dump' = dump
  BY ZenonT(40)
     DEF Next, Source, Batch, OpenFile, OpenFails, AllRead, ReadLine, EndFile, ReadFails,
         ParseCreates, StartInsert, SendRow, Abandon, EndBatch, Receive, Disconnect, vars
<1>2. (Ordinary' <=> Ordinary) /\ (CreatedOnce' <=> CreatedOnce)
  BY <1>1, DumpStands, SMTT(30)
<1>3. UNCHANGED failures \/ failures' = failures + 1
  BY DEF Next, Source, Batch, OpenFile, OpenFails, AllRead, ReadLine, EndFile, ReadFails,
         ParseCreates, StartInsert, SendRow, Abandon, EndBatch, Receive, Disconnect, vars,
         reading
<1>4. failures \in Nat
  BY SourceAssumption DEF SourceAssumption, ExportInv, TypeInv
<1>5. failures' \in Nat /\ failures' >= failures /\ (failures' = 0 => failures = 0)
  BY <1>3, <1>4
<1>6. Ordinary /\ (failures' = 0 \/ CreatedOnce)
  BY <1>2 DEF Counted
<1>7. Counted
  BY <1>5, <1>6 DEF Counted
<1>8. PICK k, r, b, e, place, done : ExportAt(k, r, b, e, place, done)
  BY <1>7 DEF ExportInv
<1> QED BY <1>1, <1>4, <1>5, <1>6, <1>8, SMTT(30) DEF Before, ExportInv

(* A step that reads no line leaves the place in the dump. *)
LEMMA ReadKept ==
  ASSUME NEW k, NEW r, ReadAt(k, r), dump' = dump, UNCHANGED <<lines, sql_line>>,
         status' \in {"opening", "done"} => r = 0 /\ sql_line = <<>>,
         status' \notin {"opening", "done"} => k < Len(dump),
         status' = "done" => k = Len(dump)
  PROVE  ReadAt(k, r)'
<1>1. Rest(k)' = Rest(k) /\ LinesOf(k + 1)' = LinesOf(k + 1) /\ TextOf(k + 1)' = TextOf(k + 1)
      /\ (Proper(k + 1)' <=> Proper(k + 1))
  BY DumpStands, Zenon
<1>2. (After(r, Rest(k)))' = After(r, Rest(k))
      /\ (After(r, LinesOf(k + 1)))' = After(r, LinesOf(k + 1))
  BY <1>1
<1>3. Gathered(k + 1, r) => Gathered(k + 1, r)'
  BY <1>1, <1>2 DEF Gathered
<1> QED BY <1>1, <1>2, <1>3 DEF ReadAt

(* The batch is one of the dump, which does not change. *)
LEMMA BatchKept ==
  ASSUME NEW b, NEW e, NEW place, InBatch(b, e, place), dump' = dump
  PROVE  InBatch(b, e, place)'
<1>1. \A k : Proper(k)' <=> Proper(k)
  BY DumpStands
<1> QED BY <1>1 DEF InBatch

(* Where no statement between q and c creates a table, or a failure may hide one that
   is created only once, the cache of the first q statements is one of the first c. *)
LEMMA CacheMoves ==
  ASSUME DumpFits, dump' = dump, table_cache' = table_cache, failures' = 0 => failures = 0,
         NEW q \in 0 .. Len(dump), NEW c \in q .. Len(dump), CacheAt(q),
         Creates(q) = Creates(c) \/ (CreatedOnce /\ failures' # 0)
  PROVE  CacheAt(c)'
<1>0. DOMAIN dump = 1 .. Len(dump) /\ Len(dump) \in Nat
  BY LenProperties DEF DumpFits
<1>1. Creates(c)' = Creates(c) /\ \A k : Created(k)' = Created(k)
  BY DumpStands
<1>2. \A t, l : IsLast(c, t, l)' <=> IsLast(c, t, l)
  BY <1>1 DEF IsLast
<1>3. ASSUME NEW t, NEW l, IsLast(q, t, l) PROVE IsLast(c, t, l)
  <2>1. CASE Creates(q) = Creates(c)
    BY <1>3, <2>1 DEF IsLast
  <2>2. CASE CreatedOnce
    <3>1. \A m \in Creates(c) : m \in DOMAIN dump /\ dump[m].kind = "create"
      BY <1>0 DEF Creates
    <3>2. Creates(q) \subseteq Creates(c)
      BY <1>0 DEF Creates
    <3>3. \A m \in Creates(c) : Created(m) = t => m = l
      BY <1>3, <2>2, <3>1, <3>2 DEF CreatedOnce, IsLast
    <3>4. l \in Nat
      BY <1>3, <3>2 DEF IsLast, Creates
    <3> QED BY <1>3, <3>2, <3>3, <3>4 DEF IsLast
  <2> QED BY <2>1, <2>2
<1>4. failures' = 0 => \A l \in Creates(c) : Created(l) \in DOMAIN table_cache
  BY DEF CacheAt
<1>5. \A t \in DOMAIN table_cache : \E l :
        IsLast(c, t, l) /\ table_cache[t] = Definitions[dump[l].definition].columns
  BY <1>3 DEF CacheAt
<1> QED BY <1>1, <1>2, <1>4, <1>5 DEF CacheAt

(* Without tasks, what is sent up to the q-th statement is sent up to the c-th when no
   row to be sent lies between. *)
LEMMA SentMoves ==
  ASSUME dump' = dump, UNCHANGED <<sent, open, tasks>>, tasks = {}, failures' = 0 => failures = 0,
         NEW place, NEW after, NEW q, NEW c, NEW done, SentAt(place, q, done),
         \A p \in RowsToSend : p[1] <= q => p[1] <= c,
         failures' = 0 => \A p \in RowsToSend : p[1] <= c => p[1] <= q,
         status \in {"panicking", "panicked"} => status' \in {"panicking", "panicked"}
  PROVE  SentAt(after, c, done)'
<1>1. RowsToSend' = RowsToSend /\ RecordsOf(done)' = RecordsOf(done)
  BY DumpStands
<1>2. done \subseteq RowsToSend /\ \A p \in done : p[1] <= c
  BY DEF SentAt
<1>3. sent' = RecordsOf(done)' /\ (failures' = 0 => open' = Channels)
  BY <1>1 DEF SentAt
<1>4. failures' = 0 /\ Routed /\ status' \notin {"panicking", "panicked"} =>
        \A p \in RowsToSend : p[1] <= c => p \in done
  BY DEF SentAt
<1>5. Routed' <=> Routed
  BY DEF Routed
<1> QED BY <1>1, <1>2, <1>3, <1>4, <1>5 DEF SentAt

-----------------------------------------------------------------------------
(* The steps that read.                                                    *)

(* What the proofs of the steps use of the state before. *)
LEMMA BeforeFacts ==
  ASSUME NEW k, NEW r, NEW b, NEW e, NEW place, NEW done, Before(k, r, b, e, place, done)
  PROVE  /\ dump' = dump /\ Len(dump) \in Nat /\ k \in 0 .. Len(dump) /\ b \in 0 .. k /\ e \in b .. k
         /\ DumpFits /\ Ordinary
         /\ Handled(b, e) \in b .. e
         /\ status \notin {"sending", "panicking"} => tasks = {} /\ Handled(b, e) = b
         /\ status \in {"sending", "panicking"} => Handled(b, e) = e
         /\ status \notin {"reading", "batch"} => sql_buffer = <<>>
         /\ failures' = 0 => failures = 0
         /\ place \in Seq(Nat) /\ Len(place) \in Nat
         /\ ReadAt(k, r) /\ BatchAt(k, b, e, place) /\ InBatch(b, e, place)
         /\ CacheAt(Handled(b, e)) /\ TasksAt(place) /\ SentAt(place, Handled(b, e), done)
<1>1. /\ ReadAt(k, r) /\ BatchAt(k, b, e, place) /\ InBatch(b, e, place)
      /\ CacheAt(Handled(b, e)) /\ TasksAt(place) /\ SentAt(place, Handled(b, e), done)
  BY DEF Before, ExportAt, BatchAt
<1>2. Len(dump) \in Nat
  BY LenProperties DEF Before, DumpFits
<1>3. k \in 0 .. Len(dump) /\ b \in 0 .. k /\ e \in b .. k
  BY <1>1, <1>2 DEF ReadAt, BatchAt
<1>4. place \in Seq(Nat) /\ Len(place) \in Nat
  BY <1>1, LenProperties DEF InBatch
<1>5. /\ status \notin {"sending", "panicking"} => tasks = {} /\ Handled(b, e) = b
      /\ status \in {"sending", "panicking"} => Handled(b, e) = e
      /\ status \notin {"reading", "batch"} => sql_buffer = <<>>
  BY DEF Before, TypeInv, LimitsInv, BatchBounded, TasksBounded, Handled
<1>6. Handled(b, e) \in b .. e
  <2>1. Handled(b, e) \in {b, e}
    BY DEF Handled
  <2> QED BY <1>3, <2>1
<1> QED BY <1>1, <1>2, <1>3, <1>4, <1>5, <1>6 DEF Before

(* Between two batches no place is taken. *)
LEMMA FreshBatch ==
  ASSUME NEW k \in Nat, sql_buffer' = <<>>
  PROVE  BatchAt(k, k, k, <<>>)'
<1>1. <<>> \in Seq(Nat) /\ Len(<<>>) = 0 /\ 1 .. 0 = {} /\ k + 1 .. k = {}
  BY EmptySeq
<1>2. 0 <= BatchSize
  BY Sizes
<1>3. InBatch(k, k, <<>>)'
  BY <1>1, <1>2 DEF InBatch
<1>4. Len(sql_buffer') = 0
  BY <1>1
<1> QED BY <1>1, <1>3, <1>4 DEF BatchAt

(* A file that is opened starts a batch of its own. *)
LEMMA OpenFileCounts ==
  ASSUME NEW k, NEW r, NEW b, NEW e, NEW place, NEW done, Before(k, r, b, e, place, done), OpenFile
  PROVE  ExportAt(k, r, k, k, <<>>, done)'
<1>1. /\ status = "opening" /\ status' = "reading" /\ lines # <<>>
      /\ UNCHANGED <<lines, failures, sql_line, sql_buffer, table_cache, tasks, open, sent>>
  BY DEF OpenFile, reading, receiving
<1>2. b = k /\ e = k /\ Handled(b, e) = k /\ tasks = {} /\ sql_buffer = <<>> /\ k \in Nat
  BY <1>1, BeforeFacts DEF BatchAt
<1>3. k # Len(dump)
  <2>1. k = Len(dump) => r = 0
    BY BeforeFacts DEF ReadAt
  <2>2. k = Len(dump) => lines = After(0, Rest(k))
    BY <2>1, BeforeFacts DEF ReadAt
  <2>3. Rest(Len(dump)) = <<>>
    BY BeforeFacts, RestSteps
  <2>4. After(0, <<>>) = <<>>
    BY EmptySeq, AfterNone
  <2> QED BY <1>1, <2>2, <2>3, <2>4
<1>4. ReadAt(k, r)'
  <2>1. k < Len(dump)
    BY <1>3, BeforeFacts
  <2> QED BY <1>1, <2>1, BeforeFacts, ReadKept
<1>5. BatchAt(k, k, k, <<>>)'
  BY <1>1, <1>2, FreshBatch
<1>6. Handled(k, k)' = k
  BY DEF Handled
<1>7. CacheAt(k)'
  <2>1. k \in 0 .. Len(dump) /\ k \in k .. Len(dump) /\ CacheAt(k) /\ DumpFits /\ dump' = dump
    BY <1>2, BeforeFacts
  <2> QED BY <1>1, <2>1, CacheMoves
<1>8. TasksAt(<<>>)'
  BY <1>1, <1>2 DEF TasksAt
<1>9. SentAt(<<>>, k, done)'
  <2>1. SentAt(place, k, done) /\ dump' = dump
    BY <1>2, BeforeFacts
  <2> QED BY <1>1, <1>2, <2>1, SentMoves
<1> QED BY <1>4, <1>5, <1>6, <1>7, <1>8, <1>9 DEF ExportAt

(* Nothing is left after the last file. *)
LEMMA AllReadCounts ==
  ASSUME NEW k, NEW r, NEW b, NEW e, NEW place, NEW done, Before(k, r, b, e, place, done), AllRead
  PROVE  ExportAt(k, r, k, k, <<>>, done)'
<1>1. /\ status = "opening" /\ status' = "done" /\ lines = <<>>
      /\ UNCHANGED <<lines, failures, sql_line, sql_buffer, table_cache, tasks, open, sent>>
  BY DEF AllRead, reading, receiving
<1>2. b = k /\ e = k /\ Handled(b, e) = k /\ tasks = {} /\ sql_buffer = <<>> /\ k \in Nat
  BY <1>1, BeforeFacts DEF BatchAt
<1>3. k = Len(dump)
  <2>1. k < Len(dump) => lines # <<>>
    BY BeforeFacts, LineAt
  <2> QED BY <1>1, <2>1, BeforeFacts
<1>4. ReadAt(k, r)'
  <2>1. r = 0 /\ sql_line = <<>>
    BY <1>1, BeforeFacts DEF ReadAt
  <2> QED BY <1>1, <1>3, <2>1, BeforeFacts, ReadKept
<1>5. BatchAt(k, k, k, <<>>)'
  BY <1>1, <1>2, FreshBatch
<1>6. Handled(k, k)' = k
  BY DEF Handled
<1>7. CacheAt(k)'
  <2>1. k \in 0 .. Len(dump) /\ k \in k .. Len(dump) /\ CacheAt(k) /\ DumpFits /\ dump' = dump
    BY <1>2, BeforeFacts
  <2> QED BY <1>1, <2>1, CacheMoves
<1>8. TasksAt(<<>>)'
  BY <1>1, <1>2 DEF TasksAt
<1>9. SentAt(<<>>, k, done)'
  <2>1. SentAt(place, k, done) /\ dump' = dump
    BY <1>2, BeforeFacts
  <2> QED BY <1>1, <1>2, <2>1, SentMoves
<1> QED BY <1>4, <1>5, <1>6, <1>7, <1>8, <1>9 DEF ExportAt

(* A file that does not open: the statements up to its end, or all, are passed
   over; what is created in them does not replace what was created before. *)
LEMMA OpenFailsCounts ==
  ASSUME NEW k, NEW r, NEW b, NEW e, NEW place, NEW done, Before(k, r, b, e, place, done), OpenFails
  PROVE  \E m : ExportAt(m, 0, m, m, <<>>, done)'
<1>1. /\ status = "opening" /\ status' = "opening" /\ lines # <<>> /\ failures' = failures + 1
      /\ lines' = IF Zipped THEN <<>> ELSE NextFiles(lines)
      /\ UNCHANGED <<sql_line, sql_buffer, table_cache, tasks, open, sent>>
  BY DEF OpenFails, receiving
<1>2. b = k /\ e = k /\ Handled(b, e) = k /\ tasks = {} /\ sql_buffer = <<>> /\ k \in 0 .. Len(dump)
      /\ Len(dump) \in Nat /\ DumpFits /\ Ordinary /\ dump' = dump
  BY <1>1, BeforeFacts DEF BatchAt
<1>3. failures' # 0 /\ CreatedOnce
  BY <1>1 DEF Before
<1>4. sql_line = <<>> /\ lines = After(r, Rest(k)) /\ r \in Nat
  BY <1>1, BeforeFacts DEF ReadAt
<1>5. k < Len(dump)
  <2>1. k = Len(dump) => r = 0
    BY BeforeFacts DEF ReadAt
  <2>2. Rest(Len(dump)) = <<>>
    BY <1>2, RestSteps
  <2>3. After(0, <<>>) = <<>>
    BY EmptySeq, AfterNone
  <2> QED BY <1>1, <1>2, <1>4, <2>1, <2>2, <2>3
<1>6. \E m \in k .. Len(dump) : lines' = Rest(m)
  <2>1. CASE Zipped
    <3>1. Rest(Len(dump)) = <<>> /\ Len(dump) \in k .. Len(dump)
      BY <1>2, RestSteps
    <3> QED BY <1>1, <2>1, <3>1
  <2>2. CASE ~Zipped
    <3>1. r \in 0 .. Len(LinesOf(k + 1)) - 1
      BY <1>5, BeforeFacts, LineAt
    <3>2. PICK m \in k + 1 .. Len(dump) : NextFiles(After(r, Rest(k))) = Rest(m)
      BY <1>2, <1>5, <3>1, NextEnd
    <3>3. m \in k .. Len(dump)
      BY <1>2
    <3> QED BY <1>1, <1>4, <2>2, <3>2, <3>3
  <2> QED BY <2>1, <2>2
<1>7. PICK m \in k .. Len(dump) : lines' = Rest(m)
  BY <1>6
<1>8. m \in 0 .. Len(dump) /\ m \in Nat
  BY <1>2
<1>9. ReadAt(m, 0)'
  <2>1. <<>> \in Seq(Marks)
    BY EmptySeq
  <2> QED BY <1>1, <1>2, <1>4, <1>7, <1>8, <2>1, FreshAt
<1>10. BatchAt(m, m, m, <<>>)'
  BY <1>1, <1>2, <1>8, FreshBatch
<1>11. Handled(m, m)' = m
  BY DEF Handled
<1>12. CacheAt(m)'
  <2>1. CacheAt(k)
    BY <1>2, BeforeFacts
  <2> QED BY <1>1, <1>2, <1>3, <1>7, <2>1, CacheMoves
<1>13. TasksAt(<<>>)'
  BY <1>1, <1>2 DEF TasksAt
<1>14. SentAt(<<>>, m, done)'
  <2>1. SentAt(place, k, done)
    BY <1>2, BeforeFacts
  <2>2. \A p \in RowsToSend : p[1] <= k => p[1] <= m
    <3>1. \A p \in RowsToSend : p[1] \in Nat
      BY <1>2, RowsToSendAt
    <3> QED BY <1>2, <3>1
  <2> QED BY <1>1, <1>2, <1>3, <2>1, <2>2, SentMoves
<1>15. ExportAt(m, 0, m, m, <<>>, done)'
  BY <1>9, <1>10, <1>11, <1>12, <1>13, <1>14 DEF ExportAt
<1> QED BY <1>15

(* A batch takes in one statement more, *)
LEMMA BatchGrows ==
  ASSUME NEW k \in Nat, NEW b \in 0 .. k, NEW place, InBatch(b, k, place), Proper(k + 1),
         Len(place) < BatchSize
  PROVE  InBatch(b, k + 1, Append(place, k + 1))
<1> DEFINE all == Append(place, k + 1)
           n == Len(place)
<1>1. /\ place \in Seq(Nat) /\ n \in Nat
      /\ \A i \in 1 .. n : place[i] \in b + 1 .. k /\ Proper(place[i])
      /\ \A i, j \in 1 .. n : i < j => place[i] < place[j]
      /\ \A l \in b + 1 .. k : Proper(l) => \E i \in 1 .. n : place[i] = l
  BY LenProperties DEF InBatch
<1>2. /\ all \in Seq(Nat) /\ Len(all) = n + 1 /\ all[n + 1] = k + 1
      /\ \A i \in 1 .. n : all[i] = place[i]
  <2>1. k + 1 \in Nat
    OBVIOUS
  <2> QED BY <1>1, <2>1, AppendProperties
<1> HIDE DEF all, n
<1>3. ASSUME NEW i \in 1 .. n + 1 PROVE i \in 1 .. n \/ i = n + 1
  BY <1>1
<1>4. \A i \in 1 .. n + 1 : all[i] \in b + 1 .. k + 1 /\ Proper(all[i])
  <2>1. k + 1 \in b + 1 .. k + 1 /\ b + 1 .. k \subseteq b + 1 .. k + 1
    OBVIOUS
  <2> QED BY <1>1, <1>2, <1>3, <2>1
<1>5. \A i, j \in 1 .. n + 1 : i < j => all[i] < all[j]
  <2> SUFFICES ASSUME NEW i \in 1 .. n + 1, NEW j \in 1 .. n + 1, i < j PROVE all[i] < all[j]
    OBVIOUS
  <2>1. i \in 1 .. n
    BY <1>1
  <2>2. CASE j \in 1 .. n
    BY <1>1, <1>2, <2>1, <2>2
  <2>3. CASE j = n + 1
    <3>1. all[i] \in b + 1 .. k
      BY <1>1, <1>2, <2>1
    <3>2. all[j] = k + 1
      BY <1>2, <2>3
    <3> QED BY <3>1, <3>2
  <2> QED BY <1>3, <2>2, <2>3
<1>6. ASSUME NEW l \in b + 1 .. k + 1, Proper(l) PROVE \E i \in 1 .. n + 1 : all[i] = l
  <2>1. CASE l = k + 1
    <3>1. n + 1 \in 1 .. n + 1
      BY <1>1
    <3> QED BY <1>2, <2>1, <3>1
  <2>2. CASE l # k + 1
    <3>1. l \in b + 1 .. k
      BY <2>2
    <3>2. PICK i \in 1 .. n : place[i] = l
      BY <1>1, <1>6, <3>1
    <3>3. i \in 1 .. n + 1
      BY <1>1
    <3> QED BY <1>2, <3>2, <3>3
  <2> QED BY <2>1, <2>2
<1>7. n + 1 <= BatchSize
  <2>1. n < BatchSize
    BY DEF n
  <2> QED BY <1>1, <2>1, Sizes
<1> QED BY <1>2, <1>4, <1>5, <1>6, <1>7 DEF InBatch, all

(* or passes over a comment or the end of a file. *)
LEMMA BatchPassesOver ==
  ASSUME NEW k \in Nat, NEW b \in 0 .. k, NEW place, InBatch(b, k, place), ~Proper(k + 1)
  PROVE  InBatch(b, k + 1, place)
<1>1. \A l \in b + 1 .. k + 1 : Proper(l) => l \in b + 1 .. k
  <2>1. \A l \in b + 1 .. k + 1 : l = k + 1 \/ l \in b + 1 .. k
    OBVIOUS
  <2> QED BY <2>1
<1>2. b + 1 .. k \subseteq b + 1 .. k + 1
  OBVIOUS
<1> QED BY <1>1, <1>2 DEF InBatch

(* A line is read: within a statement, or as its last, which makes the batch grow. *)
LEMMA ReadLineCounts ==
  ASSUME NEW k, NEW r, NEW b, NEW e, NEW place, NEW done, Before(k, r, b, e, place, done), ReadLine
  PROVE  \E k2, r2, e2, place2 : ExportAt(k2, r2, b, e2, place2, done)'
<1>1. /\ status = "reading" /\ status' \in {"reading", "batch"}
      /\ UNCHANGED <<failures, table_cache, tasks, open, sent>>
  BY DEF ReadLine, receiving
<1>2. /\ Handled(b, e) = b /\ tasks = {} /\ k \in 0 .. Len(dump) /\ k \in Nat /\ b \in 0 .. k
      /\ Len(dump) \in Nat /\ DumpFits /\ Ordinary /\ dump' = dump /\ InBatch(b, e, place)
      /\ place \in Seq(Nat) /\ Len(place) \in Nat /\ ReadAt(k, r)
      /\ e = k \/ dump[k + 1].kind = "end"
      /\ Len(sql_buffer) = Len(place) /\ \A i \in 1 .. Len(place) : sql_buffer[i] = TextOf(place[i])
  BY <1>1, BeforeFacts DEF BatchAt
<1>3. /\ k < Len(dump) /\ k + 1 \in 1 .. Len(dump) /\ dump[k + 1].kind # "end"
      /\ \/ ReadAt(k, r + 1)' /\ UNCHANGED <<sql_buffer, status>>
         \/ ReadAt(k + 1, 0)' /\ ~Proper(k + 1) /\ UNCHANGED <<sql_buffer, status>>
         \/ /\ ReadAt(k + 1, 0)' /\ Proper(k + 1)
            /\ sql_buffer' = Append(sql_buffer, TextOf(k + 1))
            /\ status' = IF BatchIsFull(sql_buffer') THEN "batch" ELSE status
  BY <1>2, LineMoves
<1>4. InBatch(b, k, place) /\ \A i : TextOf(i)' = TextOf(i)
  BY <1>2, <1>3, DumpStands
<1>5. \A c : Handled(b, c)' = b
  BY <1>1 DEF Handled
<1>6. CacheAt(b)'
  <2>1. b \in 0 .. Len(dump) /\ b \in b .. Len(dump) /\ CacheAt(b)
    BY <1>2, BeforeFacts
  <2> QED BY <1>1, <1>2, <2>1, CacheMoves
<1>7. \A after : TasksAt(after)'
  BY <1>1, <1>2 DEF TasksAt
<1>8. ASSUME NEW after PROVE SentAt(after, b, done)'
  <2>1. SentAt(place, b, done)
    BY <1>2, BeforeFacts
  <2> QED BY <1>1, <1>2, <2>1, SentMoves
<1>9. ASSUME NEW k2, NEW r2, NEW place2, ReadAt(k2, r2)', BatchAt(k2, b, k2, place2)'
      PROVE  ExportAt(k2, r2, b, k2, place2, done)'
  BY <1>5, <1>6, <1>7, <1>8, <1>9 DEF ExportAt
<1>10. CASE ReadAt(k, r + 1)' /\ UNCHANGED <<sql_buffer, status>>
  <2>1. InBatch(b, k, place)'
    BY <1>2, <1>4, BatchKept
  <2>2. BatchAt(k, b, k, place)'
    BY <1>1, <1>2, <1>4, <1>10, <2>1 DEF BatchAt
  <2>3. ExportAt(k, r + 1, b, k, place, done)'
    BY <1>9, <1>10, <2>2
  <2> QED BY <2>3
<1>11. CASE ReadAt(k + 1, 0)' /\ ~Proper(k + 1) /\ UNCHANGED <<sql_buffer, status>>
  <2>1. InBatch(b, k + 1, place)
    BY <1>2, <1>4, <1>11, BatchPassesOver
  <2>2. InBatch(b, k + 1, place)'
    BY <1>2, <2>1, BatchKept
  <2>3. b <= k + 1 /\ k + 1 \in Nat /\ b \in Nat
    BY <1>2
  <2>4. BatchAt(k + 1, b, k + 1, place)'
    BY <1>1, <1>2, <1>4, <1>11, <2>2, <2>3 DEF BatchAt
  <2>5. ExportAt(k + 1, 0, b, k + 1, place, done)'
    BY <1>9, <1>11, <2>4
  <2> QED BY <2>5
<1>12. CASE /\ ReadAt(k + 1, 0)' /\ Proper(k + 1)
            /\ sql_buffer' = Append(sql_buffer, TextOf(k + 1))
            /\ status' = IF BatchIsFull(sql_buffer') THEN "batch" ELSE status
  <2> DEFINE all == Append(place, k + 1)
             text == TextOf(k + 1)
  <2>1. Len(place) < BatchSize /\ sql_buffer \in Seq(Range(sql_buffer))
    BY <1>1, <1>2 DEF Before, TypeInv, LimitsInv, BatchBounded
  <2>2. InBatch(b, k + 1, all)
    BY <1>2, <1>4, <1>12, <2>1, BatchGrows
  <2>3. InBatch(b, k + 1, all)'
    <3> HIDE DEF all
    <3> QED BY <1>2, <2>2, BatchKept
  <2>4. /\ Len(all) = Len(place) + 1 /\ all[Len(place) + 1] = k + 1
        /\ \A i \in 1 .. Len(place) : all[i] = place[i]
    <3>1. k + 1 \in Nat
      BY <1>2
    <3> QED BY <1>2, <3>1, AppendProperties
  <2>5. /\ Len(sql_buffer') = Len(place) + 1 /\ sql_buffer'[Len(place) + 1] = text
        /\ \A i \in 1 .. Len(place) : sql_buffer'[i] = sql_buffer[i]
    <3> HIDE DEF text
    <3> DEFINE T == Range(sql_buffer) \cup {text}
    <3>1. text \in T /\ Range(sql_buffer) \subseteq T
      OBVIOUS
    <3> HIDE DEF T
    <3>2. sql_buffer \in Seq(T)
      BY <2>1, <3>1
    <3>3. sql_buffer' = Append(sql_buffer, text)
      BY <1>12 DEF text
    <3> QED BY <1>2, <3>1, <3>2, <3>3, AppendProperties
  <2> HIDE DEF all
  <2>6. \A i \in 1 .. Len(all) : sql_buffer'[i] = TextOf(all[i])
    <3> SUFFICES ASSUME NEW i \in 1 .. Len(all) PROVE sql_buffer'[i] = TextOf(all[i])
      OBVIOUS
    <3>1. i \in 1 .. Len(place) \/ i = Len(place) + 1
      BY <1>2, <2>4
    <3> HIDE DEF text
    <3>2. CASE i \in 1 .. Len(place)
      BY <1>2, <2>4, <2>5, <3>2
    <3>3. CASE i = Len(place) + 1
      BY <2>4, <2>5, <3>3 DEF text
    <3> QED BY <3>1, <3>2, <3>3
  <2>7. (Len(sql_buffer) = Len(all) /\ \A i \in 1 .. Len(all) : sql_buffer[i] = TextOf(all[i]))'
    BY <1>4, <2>4, <2>5, <2>6
  <2>8. b <= k + 1 /\ k + 1 \in Nat /\ b \in Nat
    BY <1>2
  <2>9. BatchAt(k + 1, b, k + 1, all)'
    BY <1>1, <2>3, <2>7, <2>8 DEF BatchAt
  <2>10. ExportAt(k + 1, 0, b, k + 1, all, done)'
    BY <1>9, <1>12, <2>9
  <2> QED BY <2>10
<1> QED BY <1>3, <1>10, <1>11, <1>12

(* Statements that are passed over, comments or what a failure loses, add nothing to
   what is to be sent. *)
LEMMA HandledGrows ==
  ASSUME DumpFits, Ordinary, NEW q \in 0 .. Len(dump), NEW c \in q .. Len(dump),
         (\A l \in q + 1 .. c : ~Proper(l)) \/ (CreatedOnce /\ failures' # 0)
  PROVE  /\ Creates(q) = Creates(c) \/ (CreatedOnce /\ failures' # 0)
         /\ \A p \in RowsToSend : p[1] <= q => p[1] <= c
         /\ failures' = 0 => \A p \in RowsToSend : p[1] <= c => p[1] <= q
<1>1. \A p \in RowsToSend : p[1] \in 1 .. Len(dump) /\ dump[p[1]].kind = "insert"
  BY RowsToSendAt
<1>2. Len(dump) \in Nat
  BY AllLinesType
<1>3. \A p \in RowsToSend : p[1] <= q => p[1] <= c
  BY <1>1, <1>2
<1>4. ASSUME \A l \in q + 1 .. c : ~Proper(l)
      PROVE  /\ Creates(q) = Creates(c)
             /\ \A p \in RowsToSend : p[1] <= c => p[1] <= q
  <2>1. \A l \in 1 .. c : l \in 1 .. q \/ l \in q + 1 .. c
    BY <1>2
  <2>2. 1 .. q \subseteq 1 .. c
    BY <1>2
  <2>3. Creates(q) = Creates(c)
    BY <1>4, <2>1, <2>2 DEF Creates, Proper
  <2>4. \A p \in RowsToSend : p[1] <= c => p[1] \in 1 .. q
    <3>1. \A p \in RowsToSend : p[1] <= c => p[1] \in 1 .. c
      BY <1>1, <1>2
    <3> QED BY <1>1, <1>4, <2>1, <3>1 DEF Proper
  <2>5. \A l \in 1 .. q : l <= q
    BY <1>2
  <2> QED BY <2>3, <2>4, <2>5
<1> QED BY <1>3, <1>4

(* At the end of a file its last batch is parsed, or the next file is due. *)
LEMMA EndFileCounts ==
  ASSUME NEW k, NEW r, NEW b, NEW e, NEW place, NEW done, Before(k, r, b, e, place, done), EndFile
  PROVE  ExportAt(k, r, b, e, place, done)' \/ ExportAt(k + 1, 0, k + 1, k + 1, <<>>, done)'
<1>1. /\ status = "reading" /\ Head(lines) = EndOfFile /\ sql_line' = <<>>
      /\ UNCHANGED <<failures, table_cache, tasks, open, sent>>
  BY DEF EndFile, receiving
<1>2. /\ Handled(b, e) = b /\ tasks = {} /\ k \in 0 .. Len(dump) /\ k \in Nat /\ b \in 0 .. k
      /\ e \in b .. k /\ b \in 0 .. Len(dump)
      /\ Len(dump) \in Nat /\ DumpFits /\ Ordinary /\ dump' = dump /\ InBatch(b, e, place)
      /\ place \in Seq(Nat) /\ Len(place) \in Nat /\ ReadAt(k, r) /\ BatchAt(k, b, e, place)
      /\ e = k \/ (failures' # 0 /\ CreatedOnce)
      /\ Len(sql_buffer) = Len(place) /\ \A i \in 1 .. Len(place) : sql_buffer[i] = TextOf(place[i])
  <2>1. failures' = failures /\ failures \in Nat /\ (failures' = 0 \/ CreatedOnce)
    BY <1>1 DEF Before
  <2> QED BY <1>1, <2>1, BeforeFacts DEF BatchAt
<1>3. k < Len(dump) /\ k + 1 \in 1 .. Len(dump) /\ dump[k + 1].kind = "end"
      /\ k + 1 \in 0 .. Len(dump) /\ Tail(lines) = Rest(k + 1)
  <2>1. k < Len(dump)
    BY <1>1, <1>2 DEF ReadAt
  <2>2. /\ k + 1 \in 1 .. Len(dump) /\ dump[k + 1].kind = "end"
        /\ Tail(lines) = After(r + 1, Rest(k)) /\ (r + 1 = Len(LinesOf(k + 1)) => Tail(lines) = Rest(k + 1))
        /\ r \in 0 .. Len(LinesOf(k + 1)) - 1
    BY <1>1, <1>2, <2>1, LineAt
  <2>3. LinesOf(k + 1) = <<EndOfFile>>
    BY <1>2, <2>2, LinesSorts
  <2>4. Len(LinesOf(k + 1)) = 1
    BY <2>3
  <2>5. r + 1 = Len(LinesOf(k + 1))
    <3> DEFINE n == Len(LinesOf(k + 1))
    <3>1. n = 1 /\ r \in 0 .. n - 1
      BY <2>2, <2>4
    <3> HIDE DEF n
    <3>2. r + 1 = n
      BY <3>1
    <3> QED BY <3>2 DEF n
  <2> QED BY <2>1, <2>2, <2>5
<1>4. <<>> \in Seq(Marks)
  BY EmptySeq
<1>5. CASE LeftToParse(sql_buffer)
  <2>1. status' = "batch" /\ UNCHANGED <<lines, sql_buffer>>
    BY <1>5 DEF EndFile
  <2>2. ReadAt(k, r)'
    <3>1. Rest(k)' = Rest(k) /\ LinesOf(k + 1)' = LinesOf(k + 1)
      BY <1>2, DumpStands, Zenon
    <3>2. (After(r, Rest(k)))' = After(r, Rest(k))
      BY <3>1
    <3>3. Gathered(k + 1, r)'
      <4>1. dump'[k + 1].kind \notin {"comment", "create", "insert", "lock"}
        BY <1>2, <1>3
      <4> QED BY <4>1 DEF Gathered, Proper
    <3> QED BY <1>1, <1>2, <1>3, <1>4, <2>1, <3>1, <3>2, <3>3 DEF ReadAt
  <2>3. InBatch(b, e, place)'
    BY <1>2, BatchKept
  <2>4. BatchAt(k, b, e, place)'
    <3>1. \A i : TextOf(i)' = TextOf(i)
      BY <1>2, DumpStands
    <3> QED BY <1>1, <1>2, <2>1, <2>3, <3>1 DEF BatchAt
  <2>5. Handled(b, e)' = b
    BY <2>1 DEF Handled
  <2>6. CacheAt(b)'
    <3>1. b \in b .. Len(dump) /\ CacheAt(b)
      BY <1>2, BeforeFacts
    <3> QED BY <1>1, <1>2, <3>1, CacheMoves
  <2>7. TasksAt(place)'
    BY <1>1, <1>2 DEF TasksAt
  <2>8. SentAt(place, b, done)'
    <3>1. SentAt(place, b, done)
      BY <1>2, BeforeFacts
    <3> QED BY <1>1, <1>2, <3>1, SentMoves
  <2> QED BY <2>2, <2>4, <2>5, <2>6, <2>7, <2>8 DEF ExportAt
<1>6. CASE ~LeftToParse(sql_buffer)
  <2>1. status' = "opening" /\ lines' = Rest(k + 1) /\ sql_buffer' = <<>> /\ sql_buffer = <<>>
    BY <1>3, <1>6 DEF EndFile, LeftToParse
  <2>2. ReadAt(k + 1, 0)'
    BY <1>1, <1>2, <1>3, <1>4, <2>1, FreshAt
  <2>3. BatchAt(k + 1, k + 1, k + 1, <<>>)'
    <3>1. k + 1 \in Nat
      BY <1>2
    <3> QED BY <2>1, <3>1, FreshBatch
  <2>4. (\A l \in b + 1 .. k + 1 : ~Proper(l)) \/ (CreatedOnce /\ failures' # 0)
    <3> SUFFICES ASSUME e = k PROVE \A l \in b + 1 .. k + 1 : ~Proper(l)
      BY <1>2
    <3>1. Len(place) = 0
      BY <1>2, <2>1, EmptySeq
    <3>2. \A l \in b + 1 .. k : ~Proper(l)
      <4>1. 1 .. Len(place) = {}
        BY <3>1
      <4> QED BY <1>2, <4>1 DEF InBatch
    <3>3. ~Proper(k + 1)
      BY <1>3 DEF Proper
    <3>4. \A l \in b + 1 .. k + 1 : l \in b + 1 .. k \/ l = k + 1
      BY <1>2
    <3> QED BY <3>2, <3>3, <3>4
  <2>5. k + 1 \in b .. Len(dump)
    BY <1>2, <1>3
  <2>6. /\ Creates(b) = Creates(k + 1) \/ (CreatedOnce /\ failures' # 0)
        /\ \A p \in RowsToSend : p[1] <= b => p[1] <= k + 1
        /\ failures' = 0 => \A p \in RowsToSend : p[1] <= k + 1 => p[1] <= b
    BY <1>2, <2>4, <2>5, HandledGrows
  <2>7. Handled(k + 1, k + 1)' = k + 1
    BY DEF Handled
  <2>8. CacheAt(k + 1)'
    <3>1. CacheAt(b)
      BY <1>2, BeforeFacts
    <3> QED BY <1>1, <1>2, <2>5, <2>6, <3>1, CacheMoves
  <2>9. TasksAt(<<>>)'
    BY <1>1, <1>2 DEF TasksAt
  <2>10. SentAt(<<>>, k + 1, done)'
    <3>1. SentAt(place, b, done)
      BY <1>2, BeforeFacts
    <3> DEFINE c == k + 1
    <3>2. \A p \in RowsToSend : p[1] <= b => p[1] <= c
      BY <2>6
    <3>3. failures' = 0 => \A p \in RowsToSend : p[1] <= c => p[1] <= b
      BY <2>6
    <3> HIDE DEF c
    <3>4. SentAt(<<>>, c, done)'
      BY <1>1, <1>2, <3>1, <3>2, <3>3, SentMoves
    <3> QED BY <3>4 DEF c
  <2> QED BY <2>2, <2>3, <2>7, <2>8, <2>9, <2>10 DEF ExportAt
<1> QED BY <1>5, <1>6

(* A read that fails: the rest of the file is passed over, its end is read. *)
LEMMA ReadFailsCounts ==
  ASSUME NEW k, NEW r, NEW b, NEW e, NEW place, NEW done, Before(k, r, b, e, place, done), ReadFails
  PROVE  \E m : ExportAt(m, 0, b, e, place, done)'
<1>1. /\ status = "reading" /\ status' = "reading" /\ failures' = failures + 1
      /\ lines' = <<EndOfFile>> \o NextFiles(lines)
      /\ UNCHANGED <<sql_line, sql_buffer, table_cache, tasks, open, sent>>
  BY DEF ReadFails, receiving
<1>2. /\ Handled(b, e) = b /\ tasks = {} /\ k \in 0 .. Len(dump) /\ k \in Nat /\ b \in 0 .. k
      /\ e \in b .. k /\ b \in 0 .. Len(dump)
      /\ Len(dump) \in Nat /\ DumpFits /\ Ordinary /\ dump' = dump /\ InBatch(b, e, place)
      /\ ReadAt(k, r)
      /\ Len(sql_buffer) = Len(place) /\ \A i \in 1 .. Len(place) : sql_buffer[i] = TextOf(place[i])
  BY <1>1, BeforeFacts DEF BatchAt
<1>3. k < Len(dump) /\ lines = After(r, Rest(k)) /\ sql_line \in Seq(Marks)
  BY <1>1, <1>2 DEF ReadAt
<1>4. r \in 0 .. Len(LinesOf(k + 1)) - 1
  BY <1>2, <1>3, LineAt
<1>5. PICK n \in k + 1 .. Len(dump) : dump[n].kind = "end" /\ NextFiles(After(r, Rest(k))) = Rest(n)
  BY <1>2, <1>3, <1>4, NextEnd
<1> DEFINE m == n - 1
<1>6. m \in 0 .. Len(dump) /\ m < Len(dump) /\ m + 1 = n /\ n \in 1 .. Len(dump) /\ m \in Nat /\ k <= m
  BY <1>2
<1> HIDE DEF m
<1>7. lines' = Rest(m)
  <2>1. Rest(m) = LinesOf(m + 1) \o Rest(m + 1)
    BY <1>2, <1>6, RestSteps
  <2>2. LinesOf(n) = <<EndOfFile>>
    BY <1>2, <1>5, <1>6, LinesSorts
  <2> QED BY <1>1, <1>3, <1>5, <1>6, <2>1, <2>2
<1>8. ReadAt(m, 0)'
  <2>1. dump[m + 1].kind = "end"
    BY <1>5, <1>6
  <2> QED BY <1>1, <1>2, <1>3, <1>6, <1>7, <2>1, FreshAt
<1>9. BatchAt(m, b, e, place)'
  <2>1. InBatch(b, e, place)'
    BY <1>2, BatchKept
  <2>2. \A i : TextOf(i)' = TextOf(i)
    BY <1>2, DumpStands
  <2>3. (failures > 0 /\ m < Len(dump) /\ dump[m + 1].kind = "end")'
    <3>1. failures \in Nat
      BY DEF Before
    <3>2. failures' > 0
      BY <1>1, <3>1
    <3> QED BY <1>2, <1>5, <1>6, <3>2
  <2>4. b \in Nat /\ e \in Nat /\ b <= e /\ e <= m
    BY <1>2, <1>6
  <2> QED BY <1>1, <1>2, <2>1, <2>2, <2>3, <2>4 DEF BatchAt
<1>10. Handled(b, e)' = b
  BY <1>1 DEF Handled
<1>11. failures' = 0 => failures = 0
  BY BeforeFacts
<1>12. CacheAt(b)'
  <2>1. b \in b .. Len(dump) /\ CacheAt(b)
    BY <1>2, BeforeFacts
  <2> QED BY <1>1, <1>2, <1>11, <2>1, CacheMoves
<1>13. TasksAt(place)'
  BY <1>1, <1>2 DEF TasksAt
<1>14. SentAt(place, b, done)'
  <2>1. SentAt(place, b, done)
    BY <1>2, BeforeFacts
  <2> QED BY <1>1, <1>2, <1>11, <2>1, SentMoves
<1>15. ExportAt(m, 0, b, e, place, done)'
  BY <1>8, <1>9, <1>10, <1>12, <1>13, <1>14 DEF ExportAt
<1> QED BY <1>15

(* A batch ends with its last task: what it was to send is sent. *)
LEMMA EndBatchCounts ==
  ASSUME NEW k, NEW r, NEW b, NEW e, NEW place, NEW done, Before(k, r, b, e, place, done), EndBatch
  PROVE  ExportAt(k, r, k, k, <<>>, done)'
<1>1. /\ status \in {"sending", "panicking"} /\ tasks = {}
      /\ status' = IF status = "sending" THEN "reading" ELSE "panicked"
      /\ UNCHANGED <<lines, failures, sql_line, sql_buffer, table_cache, tasks, open, sent>>
  BY DEF EndBatch, reading, receiving
<1>2. /\ Handled(b, e) = e /\ sql_buffer = <<>> /\ k \in Nat /\ k \in 0 .. Len(dump)
      /\ e \in 0 .. Len(dump) /\ k \in e .. Len(dump) /\ Len(dump) \in Nat
      /\ DumpFits /\ Ordinary /\ dump' = dump /\ ReadAt(k, r)
      /\ e = k \/ (failures' # 0 /\ CreatedOnce)
  <2>1. failures' = failures /\ failures \in Nat /\ (failures' = 0 \/ CreatedOnce)
    BY <1>1 DEF Before
  <2>2. /\ Handled(b, e) = e /\ sql_buffer = <<>> /\ b \in 0 .. k /\ k \in 0 .. Len(dump) /\ e \in b .. k
        /\ Len(dump) \in Nat /\ DumpFits /\ Ordinary /\ dump' = dump /\ ReadAt(k, r)
        /\ BatchAt(k, b, e, place)
    BY <1>1, BeforeFacts
  <2>3. k \in Nat /\ e \in 0 .. Len(dump) /\ k \in e .. Len(dump)
    BY <2>2
  <2> QED BY <2>1, <2>2, <2>3 DEF BatchAt
<1>3. ReadAt(k, r)'
  <2>1. k < Len(dump)
    BY <1>1, <1>2 DEF ReadAt
  <2> QED BY <1>1, <1>2, <2>1, ReadKept
<1>4. BatchAt(k, k, k, <<>>)'
  BY <1>1, <1>2, FreshBatch
<1>5. Handled(k, k)' = k
  BY DEF Handled
<1>6. (\A l \in e + 1 .. k : ~Proper(l)) \/ (CreatedOnce /\ failures' # 0)
  <2>1. e = k => e + 1 .. k = {}
    BY <1>2
  <2> QED BY <1>2, <2>1
<1>7. /\ Creates(e) = Creates(k) \/ (CreatedOnce /\ failures' # 0)
      /\ \A p \in RowsToSend : p[1] <= e => p[1] <= k
      /\ failures' = 0 => \A p \in RowsToSend : p[1] <= k => p[1] <= e
  BY <1>2, <1>6, HandledGrows
<1>8. CacheAt(k)'
  <2>1. CacheAt(e)
    BY <1>2, BeforeFacts
  <2> QED BY <1>1, <1>2, <1>7, <2>1, CacheMoves
<1>9. TasksAt(<<>>)'
  BY <1>1 DEF TasksAt
<1>10. SentAt(<<>>, k, done)'
  <2>1. SentAt(place, e, done)
    BY <1>2, BeforeFacts
  <2> QED BY <1>1, <1>2, <1>7, <2>1, SentMoves
<1> QED BY <1>3, <1>4, <1>5, <1>8, <1>9, <1>10 DEF ExportAt

(* What a task has begun does not change unless the task does. *)
LEMMA TaskStands ==
  ASSUME dump' = dump
  PROVE  \A task, k : /\ Begun(task, k)' = Begun(task, k)
                      /\ TaskSends(task, k)' <=> TaskSends(task, k)
<1>1. \A task, k : Begun(task, k)' = Begun(task, k)
  BY DEF Begun
<1>2. RowsToSend' = RowsToSend /\ \A k, i : RecordAt(k, i)' = RecordAt(k, i)
  BY DumpStands
<1>3. \A task, k : TaskSends(task, k)' <=> TaskSends(task, k)
  BY <1>1, <1>2 DEF TaskSends
<1> QED BY <1>1, <1>3

(* Receivers come into it only where one is lost, which is a failure. *)
LEMMA ReceiversCount ==
  ASSUME NEW k, NEW r, NEW b, NEW e, NEW place, NEW done, Before(k, r, b, e, place, done),
         UNCHANGED <<lines, sql_line, sql_buffer, table_cache, tasks, sent, status>>,
         failures' = 0 => open' = open
  PROVE  ExportAt(k, r, b, e, place, done)'
<1>1. /\ Handled(b, e) \in b .. e /\ k \in 0 .. Len(dump) /\ b \in 0 .. k /\ e \in b .. k
      /\ Len(dump) \in Nat /\ DumpFits /\ dump' = dump
      /\ ReadAt(k, r) /\ BatchAt(k, b, e, place) /\ CacheAt(Handled(b, e)) /\ TasksAt(place)
      /\ SentAt(place, Handled(b, e), done)
      /\ failures' = 0 => failures = 0
  BY BeforeFacts
<1> DEFINE q == Handled(b, e)
<1>2. q' = q /\ q \in 0 .. Len(dump) /\ q \in q .. Len(dump)
  <2>1. q' = q
    BY DEF Handled
  <2>2. q \in b .. e
    BY <1>1
  <2> HIDE DEF q
  <2> QED BY <1>1, <2>1, <2>2
<1>3. ReadAt(k, r)'
  <2>1. /\ status' \in {"opening", "done"} => r = 0 /\ sql_line = <<>>
        /\ status' \notin {"opening", "done"} => k < Len(dump)
        /\ status' = "done" => k = Len(dump)
    BY <1>1 DEF ReadAt
  <2> QED BY <1>1, <2>1, ReadKept
<1>4. BatchAt(k, b, e, place)'
  <2>1. InBatch(b, e, place)'
    BY <1>1, BatchKept DEF BatchAt
  <2>2. \A i : TextOf(i)' = TextOf(i)
    BY <1>1, DumpStands
  <2>3. failures > 0 => failures' > 0
    BY DEF Before
  <2> QED BY <1>1, <2>1, <2>2, <2>3 DEF BatchAt
<1>5. CacheAt(q)'
  <2> HIDE DEF q
  <2>1. CacheAt(q)
    BY <1>1 DEF q
  <2> QED BY <1>1, <1>2, <2>1, CacheMoves
<1>6. TasksAt(place)'
  <2>1. \A i : TextOf(i)' = TextOf(i)
    BY <1>1, DumpStands
  <2> QED BY <1>1, <2>1 DEF TasksAt
<1>7. SentAt(place, q, done)'
  <2>1. RowsToSend' = RowsToSend /\ RecordsOf(done)' = RecordsOf(done)
    BY <1>1, DumpStands
  <2>2. \A task, i : /\ Begun(task, i)' = Begun(task, i)
                     /\ TaskSends(task, i)' <=> TaskSends(task, i)
    BY <1>1, TaskStands
  <2>3. Routed' <=> Routed
    BY DEF Routed
  <2>4. SentAt(place, q, done)
    BY <1>1
  <2> HIDE DEF q
  <2> QED BY <1>1, <1>2, <2>1, <2>2, <2>3, <2>4 DEF SentAt
<1>8. (CacheAt(q) /\ SentAt(place, q, done))'
  <2> HIDE DEF q
  <2> QED BY <1>2, <1>5, <1>7
<1> QED BY <1>3, <1>4, <1>6, <1>8 DEF ExportAt

-----------------------------------------------------------------------------
(* The steps that send.                                                    *)

(* While rows are sent nothing is read, and no table is recorded. *)
LEMMA SendingCounts ==
  ASSUME NEW k, NEW r, NEW b, NEW e, NEW place, NEW done, NEW more, Before(k, r, b, e, place, done),
         UNCHANGED <<lines, failures, sql_line, sql_buffer, table_cache, open>>,
         status \in {"sending", "panicking"}, status' \in {"sending", "panicking"},
         TasksAt(place)', SentAt(place, e, more)'
  PROVE  ExportAt(k, r, b, e, place, more)'
<1>1. /\ k \in 0 .. Len(dump) /\ b \in 0 .. k /\ e \in b .. k
      /\ Len(dump) \in Nat /\ DumpFits /\ dump' = dump
      /\ ReadAt(k, r) /\ BatchAt(k, b, e, place) /\ CacheAt(e)
      /\ failures' = 0 => failures = 0
  <2>1. Handled(b, e) = e
    BY DEF Handled
  <2> QED BY <2>1, BeforeFacts
<1>2. Handled(b, e)' = e
  BY DEF Handled
<1>3. ReadAt(k, r)'
  <2>1. k < Len(dump)
    BY <1>1 DEF ReadAt
  <2> QED BY <1>1, <2>1, ReadKept
<1>4. BatchAt(k, b, e, place)'
  <2>1. InBatch(b, e, place)'
    BY <1>1, BatchKept DEF BatchAt
  <2> QED BY <1>1, <2>1 DEF BatchAt
<1>5. CacheAt(e)'
  <2>1. e \in 0 .. Len(dump) /\ e \in e .. Len(dump)
    BY <1>1
  <2> QED BY <1>1, <2>1, CacheMoves
<1> QED BY <1>2, <1>3, <1>4, <1>5 DEF ExportAt

(* After a panic what is not started may be dropped. *)
LEMMA AbandonCounts ==
  ASSUME NEW k, NEW r, NEW b, NEW e, NEW place, NEW done, Before(k, r, b, e, place, done),
         NEW task \in tasks, Abandon(task)
  PROVE  ExportAt(k, r, b, e, place, done)'
<1>1. /\ status = "panicking" /\ tasks' \subseteq tasks
      /\ UNCHANGED <<lines, failures, sql_line, sql_buffer, table_cache, open, sent, status>>
  BY DEF Abandon, Others, reading, receiving
<1>2. dump' = dump /\ TasksAt(place) /\ SentAt(place, e, done)
  <2>1. Handled(b, e) = e
    BY <1>1 DEF Handled
  <2> QED BY <2>1, BeforeFacts
<1>3. TasksAt(place)'
  <2>1. \A i : TextOf(i)' = TextOf(i)
    BY <1>2, DumpStands
  <2> QED BY <1>1, <1>2, <2>1 DEF TasksAt
<1>4. SentAt(place, e, done)'
  <2>1. RowsToSend' = RowsToSend /\ RecordsOf(done)' = RecordsOf(done)
    BY <1>2, DumpStands
  <2>2. \A t, i : /\ Begun(t, i)' = Begun(t, i)
                  /\ TaskSends(t, i)' <=> TaskSends(t, i)
    BY <1>2, TaskStands
  <2> QED BY <1>1, <1>2, <2>1, <2>2 DEF SentAt
<1> QED BY <1>1, <1>3, <1>4, SendingCounts

-----------------------------------------------------------------------------
(* What a CREATE statement's batch records.                                *)

(* The tables of the CREATE statements of a batch: `definitions` holds those
   at the places where there are some. *)
AreCreated(place, definitions) ==
  /\ DOMAIN definitions = {i \in 1 .. Len(place) : dump[place[i]].kind = "create"}
  /\ \A i \in DOMAIN definitions : definitions[i] = dump[place[i]].definition

(* A batch's last definition of a table is the last so far. *)
LEMMA LastInBatch ==
  ASSUME NEW b \in Nat, NEW e \in Nat, NEW place, InBatch(b, e, place),
         NEW definitions, AreCreated(place, definitions), NEW t \in CreatedBy(definitions)
  PROVE  \E l : IsLast(e, t, l) /\ LastOf(t, definitions) = dump[l].definition
<1> DEFINE n == Len(place)
           at == {i \in DOMAIN definitions : Definitions[definitions[i]].table = t}
<1>1. /\ n \in Nat
      /\ \A i \in 1 .. n : place[i] \in b + 1 .. e
      /\ \A i, j \in 1 .. n : i < j => place[i] < place[j]
      /\ \A l \in b + 1 .. e : Proper(l) => \E i \in 1 .. n : place[i] = l
  BY LenProperties DEF InBatch
<1>2. /\ \A i \in DOMAIN definitions : /\ i \in 1 .. n /\ dump[place[i]].kind = "create"
                                       /\ definitions[i] = dump[place[i]].definition
      /\ \A i \in 1 .. n : dump[place[i]].kind = "create" => i \in DOMAIN definitions
  BY DEF AreCreated
<1>3. at # {} /\ at \subseteq 0 .. n
  <2>1. at # {}
    BY DEF CreatedBy, Range
  <2>2. 1 .. n \subseteq 0 .. n
    BY <1>1
  <2> QED BY <1>2, <2>1, <2>2
<1>4. PICK m \in at : \A i \in at : m >= i
  <2> HIDE DEF at, n
  <2> QED BY <1>1, <1>3, GreatestElement
<1>5. Max(at) = m
  <2>1. \A i \in at : i \in Nat
    BY <1>1, <1>3
  <2> HIDE DEF at
  <2>2. \A x \in at : (\A i \in at : x >= i) => x = m
    BY <1>4, <2>1
  <2>3. Max(at) = CHOOSE x \in at : \A i \in at : x >= i
    BY DEF Max
  <2> QED BY <1>4, <2>2, <2>3
<1>6. LastOf(t, definitions) = dump[place[m]].definition
  <2>1. LastOf(t, definitions) = definitions[Max(at)]
    BY DEF LastOf
  <2>2. definitions[m] = dump[place[m]].definition
    BY <1>2, <1>4
  <2> QED BY <1>5, <2>1, <2>2
<1>7. IsLast(e, t, place[m])
  <2>1. /\ m \in 1 .. n /\ place[m] \in b + 1 .. e /\ dump[place[m]].kind = "create"
        /\ Created(place[m]) = t
    BY <1>1, <1>2, <1>4 DEF Created
  <2>2. place[m] \in Creates(e)
    BY <2>1 DEF Creates
  <2>3. ASSUME NEW l \in Creates(e), Created(l) = t PROVE l <= place[m]
    <3>1. l \in 1 .. e /\ dump[l].kind = "create"
      BY <2>3 DEF Creates
    <3>2. CASE l <= b
      BY <2>1, <3>1, <3>2
    <3>3. CASE ~(l <= b)
      <4>1. l \in b + 1 .. e /\ Proper(l)
        BY <3>1, <3>3 DEF Proper
      <4>2. PICK i \in 1 .. n : place[i] = l
        BY <1>1, <4>1
      <4>3. i \in at
        BY <1>2, <2>3, <3>1, <4>2 DEF Created
      <4>4. m >= i
        BY <1>4, <4>3
      <4>5. CASE i = m
        BY <3>1, <4>2, <4>5
      <4>6. CASE i < m
        <5>1. place[i] < place[m]
          BY <1>1, <2>1, <4>6
        <5> QED BY <2>1, <3>1, <4>2, <5>1
      <4> QED BY <1>1, <2>1, <4>4, <4>5, <4>6
    <3> QED BY <3>2, <3>3
  <2> QED BY <2>1, <2>2, <2>3 DEF IsLast
<1> QED BY <1>6, <1>7

(* parse_create_table records the tables of the whole batch. *)
LEMMA BatchRecorded ==
  ASSUME DumpFits, dump' = dump, failures' = 0 => failures = 0,
         NEW b \in Nat, NEW e \in Nat, b <= e, NEW place, InBatch(b, e, place), CacheAt(b),
         NEW definitions, AreCreated(place, definitions),
         table_cache' = WithTables(table_cache, definitions)
  PROVE  CacheAt(e)'
<1>1. Creates(e)' = Creates(e) /\ \A k : Created(k)' = Created(k)
  BY DumpStands
<1>2. \A t, l : IsLast(e, t, l)' <=> IsLast(e, t, l)
  BY <1>1 DEF IsLast
<1>3. \A l \in Creates(e) : l \in Creates(b) \/ Created(l) \in CreatedBy(definitions)
  <2> SUFFICES ASSUME NEW l \in Creates(e), l \notin Creates(b)
               PROVE  Created(l) \in CreatedBy(definitions)
    OBVIOUS
  <2>1. l \in 1 .. e /\ dump[l].kind = "create" /\ ~(l \in 1 .. b)
    BY DEF Creates
  <2>2. l \in b + 1 .. e /\ Proper(l)
    BY <2>1 DEF Proper
  <2>3. PICK i \in 1 .. Len(place) : place[i] = l
    BY <2>2 DEF InBatch
  <2>4. i \in DOMAIN definitions /\ definitions[i] = dump[l].definition
    BY <2>1, <2>3 DEF AreCreated
  <2> QED BY <2>4 DEF CreatedBy, Range, Created
<1>4. DOMAIN table_cache' = CreatedBy(definitions) \cup DOMAIN table_cache
  BY DEF WithTables
<1>5. ASSUME NEW t \in DOMAIN table_cache'
      PROVE  \E l : IsLast(e, t, l) /\ table_cache'[t] = Definitions[dump[l].definition].columns
  <2>1. CASE t \in CreatedBy(definitions)
    <3>1. PICK l : IsLast(e, t, l) /\ LastOf(t, definitions) = dump[l].definition
      BY <2>1, LastInBatch
    <3>2. table_cache'[t] = Definitions[LastOf(t, definitions)].columns
      BY <2>1 DEF WithTables
    <3> QED BY <3>1, <3>2
  <2>2. CASE t \notin CreatedBy(definitions)
    <3>1. t \in DOMAIN table_cache /\ table_cache'[t] = table_cache[t]
      BY <1>4, <1>5, <2>2 DEF WithTables
    <3>2. PICK l : IsLast(b, t, l) /\ table_cache[t] = Definitions[dump[l].definition].columns
      BY <3>1 DEF CacheAt
    <3>3. Creates(b) \subseteq Creates(e)
      BY DEF Creates
    <3>4. IsLast(e, t, l)
      BY <1>3, <2>2, <3>2, <3>3 DEF IsLast
    <3> QED BY <3>1, <3>2, <3>4
  <2> QED BY <2>1, <2>2
<1>6. failures' = 0 => \A l \in Creates(e) : Created(l) \in DOMAIN table_cache'
  BY <1>3, <1>4 DEF CacheAt
<1> QED BY <1>1, <1>2, <1>5, <1>6 DEF CacheAt

(* The text of a statement tells its kind. *)
LEMMA TextSorts ==
  ASSUME DumpFits, Ordinary, NEW k \in 1 .. Len(dump), Proper(k)
  PROVE  /\ IsCreateTable(TextOf(k)) <=> dump[k].kind = "create"
         /\ IsInsert(TextOf(k)) <=> dump[k].kind = "insert"
         /\ dump[k].kind = "create" => CreateOutcomes(TextOf(k)) = {dump[k].definition}
<1>1. CASE dump[k].kind = "create"
  <2>1. /\ Len(TextOf(k)) = 7 /\ TextOf(k)[5] = dump[k].definition
        /\ IsCreateTable(TextOf(k)) /\ ~IsInsert(TextOf(k))
    BY <1>1, CreateText
  <2> QED BY <1>1, <2>1 DEF CreateOutcomes
<1>2. CASE dump[k].kind = "insert"
  BY <1>2, InsertText
<1>3. CASE dump[k].kind = "lock"
  BY <1>3, LockText
<1> QED BY <1>1, <1>2, <1>3 DEF Proper

(* parallel_parse records the tables of a batch, and begins with the tasks of
   its INSERT statements. *)
LEMMA ParseCreatesCounts ==
  ASSUME NEW k, NEW r, NEW b, NEW e, NEW place, NEW done, Before(k, r, b, e, place, done), ParseCreates
  PROVE  ExportAt(k, r, b, e, place, done)'
<1> DEFINE n == Len(place)
           creates == {i \in DOMAIN sql_buffer : IsCreateTable(sql_buffer[i])}
           inserts == {i \in DOMAIN sql_buffer : IsInsert(sql_buffer[i])}
<1>1. /\ status = "batch" /\ sql_buffer' = <<>>
      /\ UNCHANGED <<lines, failures, sql_line, open, sent>>
  BY DEF ParseCreates, receiving
<1>2. PICK parsed \in [creates -> DOMAIN Definitions \cup {"error"}] :
        /\ \A i \in creates : parsed[i] \in CreateOutcomes(sql_buffer[i])
        /\ IF \E i \in creates : parsed[i] = "error"
           THEN /\ status' = "panicked"
                /\ UNCHANGED <<table_cache, tasks>>
           ELSE /\ status' = "sending"
                /\ table_cache' = WithTables(table_cache, parsed)
                /\ tasks' = {[at |-> i, sql |-> sql_buffer[i],
                              parsed |-> FALSE, left |-> <<>>] : i \in inserts}
  BY DEF ParseCreates
<1>3. /\ Handled(b, e) = b /\ tasks = {} /\ k \in 0 .. Len(dump) /\ k \in Nat /\ b \in 0 .. k
      /\ e \in b .. k /\ b \in 0 .. Len(dump) /\ b \in Nat /\ e \in Nat
      /\ Len(dump) \in Nat /\ DumpFits /\ Ordinary /\ dump' = dump /\ InBatch(b, e, place)
      /\ n \in Nat /\ ReadAt(k, r) /\ BatchAt(k, b, e, place) /\ CacheAt(b)
      /\ SentAt(place, b, done)
      /\ Len(sql_buffer) = n /\ \A i \in 1 .. n : sql_buffer[i] = TextOf(place[i])
      /\ failures' = 0 => failures = 0
  <2>1. /\ Handled(b, e) = b /\ tasks = {} /\ k \in 0 .. Len(dump) /\ b \in 0 .. k
        /\ e \in b .. k
        /\ Len(dump) \in Nat /\ DumpFits /\ Ordinary /\ dump' = dump /\ InBatch(b, e, place)
        /\ n \in Nat /\ ReadAt(k, r) /\ BatchAt(k, b, e, place) /\ CacheAt(Handled(b, e))
        /\ SentAt(place, Handled(b, e), done)
        /\ failures' = 0 => failures = 0
    BY <1>1, BeforeFacts
  <2>2. k \in Nat /\ b \in 0 .. Len(dump) /\ b \in Nat /\ e \in Nat
    BY <2>1
  <2> QED BY <1>1, <2>1, <2>2 DEF BatchAt
<1>4. ReadAt(k, r)'
  <2>1. status' \in {"panicked", "sending"}
    BY <1>2
  <2>2. k < Len(dump)
    BY <1>1, <1>3 DEF ReadAt
  <2> QED BY <1>1, <1>3, <2>1, <2>2, ReadKept
<1>5. BatchAt(k, b, e, place)'
  <2>1. status' \in {"panicked", "sending"}
    BY <1>2
  <2>2. InBatch(b, e, place)'
    BY <1>3, BatchKept
  <2> QED BY <1>1, <1>3, <2>1, <2>2 DEF BatchAt
<1>6. CASE status' = "panicked"
  <2>1. UNCHANGED <<table_cache, tasks>>
    BY <1>2, <1>6
  <2>2. Handled(b, e)' = b
    BY <1>6 DEF Handled
  <2>3. CacheAt(b)'
    <3>1. b \in b .. Len(dump)
      BY <1>3
    <3> QED BY <1>3, <2>1, <3>1, CacheMoves
  <2>4. TasksAt(place)'
    BY <1>3, <2>1 DEF TasksAt
  <2>5. SentAt(place, b, done)'
    BY <1>1, <1>3, <1>6, <2>1, SentMoves
  <2> QED BY <1>4, <1>5, <2>2, <2>3, <2>4, <2>5 DEF ExportAt
<1>7. CASE status' # "panicked"
  <2>1. /\ status' = "sending"
        /\ table_cache' = WithTables(table_cache, parsed)
        /\ tasks' = {[at |-> i, sql |-> sql_buffer[i],
                      parsed |-> FALSE, left |-> <<>>] : i \in inserts}
    BY <1>2, <1>7
  <2>2. \A i \in 1 .. n : place[i] \in b + 1 .. e /\ place[i] \in 1 .. Len(dump) /\ Proper(place[i])
    <3>1. b + 1 .. e \subseteq 1 .. Len(dump)
      BY <1>3
    <3> QED BY <1>3, <3>1 DEF InBatch
  <2>3. DOMAIN sql_buffer = 1 .. n
    <3>1. sql_buffer \in Seq(Range(sql_buffer))
      BY DEF Before, TypeInv, LimitsInv, BatchBounded
    <3> QED BY <1>3, <3>1, LenProperties
  <2>4. /\ creates = {i \in 1 .. n : dump[place[i]].kind = "create"}
        /\ inserts = {i \in 1 .. n : dump[place[i]].kind = "insert"}
    <3>1. \A i \in 1 .. n : /\ IsCreateTable(sql_buffer[i]) <=> dump[place[i]].kind = "create"
                            /\ IsInsert(sql_buffer[i]) <=> dump[place[i]].kind = "insert"
      BY <1>3, <2>2, TextSorts
    <3> HIDE DEF n
    <3> QED BY <2>3, <3>1
  <2>5. AreCreated(place, parsed)
    <3>1. \A i \in creates : CreateOutcomes(sql_buffer[i]) = {dump[place[i]].definition}
      BY <1>3, <2>2, <2>4, TextSorts
    <3>2. DOMAIN parsed = creates /\ \A i \in creates : parsed[i] = dump[place[i]].definition
      <4> HIDE DEF creates
      <4> QED BY <1>2, <3>1
    <3> HIDE DEF creates
    <3> QED BY <2>4, <3>2 DEF AreCreated
  <2>6. CacheAt(e)'
    <3>1. b <= e
      BY <1>3
    <3> QED BY <1>3, <2>1, <2>5, <3>1, BatchRecorded
  <2>7. Handled(b, e)' = e
    BY <2>1 DEF Handled
  <2> HIDE DEF inserts, n
  <2>8. \A task \in tasks' : /\ task.at \in inserts /\ task.sql = sql_buffer[task.at]
                             /\ task.parsed = FALSE
                             /\ task = [at |-> task.at, sql |-> sql_buffer[task.at],
                                        parsed |-> FALSE, left |-> <<>>]
    BY <2>1
  <2>9. TasksAt(place)'
    <3>1. \A task \in tasks' : /\ task.at \in 1 .. n /\ dump[place[task.at]].kind = "insert"
                               /\ task.sql = TextOf(place[task.at])
      BY <1>3, <2>4, <2>8
    <3>2. \A task, other \in tasks' : task.at = other.at => task = other
      BY <2>8
    <3>3. \A i : TextOf(i)' = TextOf(i)
      BY <1>3, DumpStands
    <3> QED BY <1>3, <3>1, <3>2, <3>3 DEF TasksAt, n
  <2>10. SentAt(place, e, done)'
    <3>1. RowsToSend' = RowsToSend /\ RecordsOf(done)' = RecordsOf(done)
      BY <1>3, DumpStands
    <3>2. \A task, i : /\ Begun(task, i)' = Begun(task, i)
                       /\ TaskSends(task, i)' <=> TaskSends(task, i)
      BY <1>3, TaskStands
    <3>3. \A p \in RowsToSend : /\ p[1] \in 1 .. Len(dump) /\ dump[p[1]].kind = "insert"
                                /\ Len(dump[p[1]].rows) \in Nat /\ p[2] \in 1 .. Len(dump[p[1]].rows)
      BY <1>3, RowsToSendAt
    <3>4. done \subseteq RowsToSend /\ \A p \in done : p[1] <= b
      BY <1>3 DEF SentAt
    <3>5. \A p \in done : p[1] <= e
      BY <1>3, <3>3, <3>4
    <3>6. ASSUME NEW task \in tasks'
          PROVE  /\ TaskSends(task, place[task.at])
                 /\ \A p \in done : p[1] # place[task.at]
      <4>1. ~task.parsed /\ task.at \in 1 .. n
        BY <2>4, <2>8
      <4>2. place[task.at] \in b + 1 .. e
        BY <2>2, <4>1 DEF n
      <4>3. \A p \in done : p[1] # place[task.at]
        BY <1>3, <3>3, <3>4, <4>2
      <4> QED BY <4>1, <4>3 DEF TaskSends
    <3>7. ASSUME failures' = 0, Routed, NEW p \in RowsToSend, p[1] <= e
          PROVE  p \in done \/ \E task \in tasks' : place[task.at] = p[1] /\ p[2] > Begun(task, p[1])
      <4>1. CASE p[1] <= b
        <5>1. p \in done
          BY <1>1, <1>3, <3>7, <4>1 DEF SentAt
        <5> QED BY <5>1
      <4>2. CASE ~(p[1] <= b)
        <5>1. p[1] \in b + 1 .. e /\ Proper(p[1])
          BY <1>3, <3>3, <3>7, <4>2 DEF Proper
        <5>2. PICK i \in 1 .. n : place[i] = p[1]
          BY <1>3, <5>1 DEF InBatch, n
        <5>3. i \in inserts
          BY <2>4, <3>3, <5>2
        <5> DEFINE task == [at |-> i, sql |-> sql_buffer[i], parsed |-> FALSE, left |-> <<>>]
        <5>4. task \in tasks' /\ task.at = i /\ task.parsed = FALSE
          BY <2>1, <5>3
        <5> HIDE DEF task
        <5>5. Begun(task, p[1]) = 0
          BY <5>4 DEF Begun
        <5>6. p[2] > 0
          BY <3>3
        <5> QED BY <5>2, <5>4, <5>5, <5>6
      <4> QED BY <4>1, <4>2
    <3>8. sent' = RecordsOf(done)' /\ (failures' = 0 => open' = Channels)
      BY <1>1, <1>3, <3>1 DEF SentAt
    <3>9. Routed' <=> Routed
      BY DEF Routed
    <3> QED BY <3>1, <3>2, <3>4, <3>5, <3>6, <3>7, <3>8, <3>9 DEF SentAt
  <2> QED BY <1>4, <1>5, <2>6, <2>7, <2>9, <2>10 DEF ExportAt
<1> QED BY <1>6, <1>7

(* The numbers up to n are n. *)
LEMMA CountTo == ASSUME NEW n \in Nat PROVE IsFiniteSet(1 .. n) /\ Cardinality(1 .. n) = n
<1>1. IsFiniteSet(1 .. n) /\ Cardinality(1 .. n) = IF 1 > n THEN 0 ELSE n - 1 + 1
  BY FS_Interval
<1> QED BY <1>1

(* No batch holds an INSERT statement and a later CREATE statement of its table. *)
LEMMA CreatedBefore ==
  ASSUME DumpFits, Ordinary, NEW b \in Nat, NEW e \in 0 .. Len(dump), NEW place, InBatch(b, e, place),
         NEW i \in 1 .. Len(place), dump[place[i]].kind = "insert",
         NEW l, IsLast(e, dump[place[i]].table, l)
  PROVE  l <= place[i]
<1> DEFINE n == Len(place)
           k == place[i]
           A == {j \in k + 1 .. l : dump[j].kind \in {"create", "insert", "lock"}}
           B == A \cup {k}
           f == [j \in 1 .. n |-> place[j]]
           R == {place[j] : j \in 1 .. n}
<1>1. /\ n \in Nat /\ n <= BatchSize
      /\ \A j \in 1 .. n : place[j] \in b + 1 .. e
      /\ \A j \in b + 1 .. e : Proper(j) => \E m \in 1 .. n : place[m] = j
  BY LenProperties DEF InBatch
<1>2. k \in b + 1 .. e /\ l \in 1 .. e /\ dump[l].kind = "create" /\ Created(l) = dump[k].table
  BY <1>1 DEF IsLast, Creates
<1>3. Len(dump) \in Nat /\ DOMAIN dump = 1 .. Len(dump)
  BY AllLinesType
<1> SUFFICES ASSUME ~(l <= k) PROVE FALSE
  OBVIOUS
<1>4. k < l /\ k \in DOMAIN dump /\ l \in DOMAIN dump
  BY <1>2, <1>3
<1>5. Cardinality(A) >= Capacity
  <2>1. Apart(k, l) >= Capacity
    BY <1>2, <1>4 DEF Ordinary
  <2> QED BY <2>1 DEF Apart
<1>6. IsFiniteSet(A) /\ Cardinality(A) \in Nat /\ Cardinality(A) # 0
  <2>1. IsFiniteSet(k + 1 .. l)
    <3>1. k + 1 \in Int /\ l \in Int
      BY <1>2
    <3> DEFINE first == k + 1
    <3>2. first \in Int
      BY <3>1
    <3> HIDE DEF first
    <3>3. IsFiniteSet(first .. l)
      BY <3>1, <3>2, FS_Interval
    <3> QED BY <3>3 DEF first
  <2>2. A \in SUBSET (k + 1 .. l)
    OBVIOUS
  <2>3. l \in A
    BY <1>2, <1>4
  <2> HIDE DEF A, k
  <2>4. IsFiniteSet(A)
    BY <2>1, <2>2, FS_Subset
  <2> QED BY <2>3, <2>4, FS_CardinalityType, FS_EmptySet
<1>7. Cardinality(A) >= BatchSize
  <2> DEFINE a == Cardinality(A)
  <2>1. a >= Capacity /\ a \in Nat /\ a # 0
    BY <1>5, <1>6
  <2> HIDE DEF a
  <2>2. a >= BatchSize
    BY <2>1, SourceAssumption DEF BatchSize, SourceAssumption
  <2> QED BY <2>2 DEF a
<1>8. IsFiniteSet(B) /\ Cardinality(B) = Cardinality(A) + 1
  <2>1. k \notin A
    BY <1>2
  <2> HIDE DEF A, k
  <2> QED BY <1>6, <2>1, FS_AddElement
<1>9. B \in SUBSET R
  <2>1. \A j \in A : j \in b + 1 .. e /\ Proper(j)
    BY <1>2 DEF Proper
  <2>2. A \subseteq R
    <3> HIDE DEF A
    <3> QED BY <1>1, <2>1
  <2>3. k \in R
    OBVIOUS
  <2> HIDE DEF A, k, R
  <2> QED BY <2>2, <2>3
<1>10. IsFiniteSet(R) /\ Cardinality(R) <= n
  <2>1. f \in Surjection(1 .. n, R)
    <3> HIDE DEF n
    <3> QED BY DEF Surjection
  <2>2. IsFiniteSet(1 .. n) /\ Cardinality(1 .. n) = n
    BY <1>1, CountTo
  <2> HIDE DEF f, R, n
  <2> QED BY <2>1, <2>2, FS_Surjection
<1>11. Cardinality(B) <= Cardinality(R) /\ Cardinality(R) \in Nat
  <2> HIDE DEF B, R
  <2> QED BY <1>9, <1>10, FS_Subset, FS_CardinalityType
<1> HIDE DEF A, B, R, n
<1> QED BY <1>1, <1>6, <1>7, <1>8, <1>10, <1>11, Sizes

(* The columns under which a batch sends a row are those at its place. *)
LEMMA ColumnsAt ==
  ASSUME DumpFits, Ordinary, NEW b \in Nat, NEW e \in 0 .. Len(dump), NEW place, InBatch(b, e, place),
         NEW i \in 1 .. Len(place), dump[place[i]].kind = "insert", CacheAt(e)
  PROVE  LET k == place[i]
             t == dump[k].table
         IN /\ t \in DOMAIN table_cache => /\ t \in DOMAIN TablesAfter(k)
                                           /\ table_cache[t] = TablesAfter(k)[t]
            /\ failures = 0 /\ t \in DOMAIN TablesAfter(k) => t \in DOMAIN table_cache
<1> DEFINE k == place[i]
           t == dump[k].table
<1>1. k \in b + 1 .. e /\ k \in Nat /\ e \in Nat /\ k <= e
  <2>1. k \in b + 1 .. e
    BY DEF InBatch
  <2> HIDE DEF k
  <2> QED BY <2>1
<1>2. Creates(k) \subseteq Creates(e)
  <2> HIDE DEF k
  <2> QED BY <1>1 DEF Creates
<1>3. ASSUME t \in DOMAIN table_cache
      PROVE  t \in DOMAIN TablesAfter(k) /\ table_cache[t] = TablesAfter(k)[t]
  <2>1. PICK l : IsLast(e, t, l) /\ table_cache[t] = Definitions[dump[l].definition].columns
    BY <1>3 DEF CacheAt
  <2>2. l <= k
    BY <2>1, CreatedBefore
  <2>3. l \in 1 .. e /\ dump[l].kind = "create"
    BY <2>1 DEF IsLast, Creates
  <2> HIDE DEF k
  <2>4. IsLast(k, t, l)
    BY <1>1, <1>2, <2>1, <2>2, <2>3 DEF IsLast, Creates
  <2>5. t \in DOMAIN TablesAfter(k) /\ TablesAfter(k)[t] = Definitions[dump[l].definition].columns
    BY <1>1, <2>4, LastColumns
  <2> QED BY <2>1, <2>5
<1>4. ASSUME failures = 0, t \in DOMAIN TablesAfter(k) PROVE t \in DOMAIN table_cache
  <2> HIDE DEF k
  <2>1. PICK l \in Creates(k) : Created(l) = t
    BY <1>1, <1>4, LastColumns
  <2> QED BY <1>2, <1>4, <2>1 DEF CacheAt
<1> QED BY <1>3, <1>4

(* The place of a task's statement in the dump. *)
LEMMA TaskAt ==
  ASSUME NEW k, NEW r, NEW b, NEW e, NEW place, NEW done, Before(k, r, b, e, place, done),
         status \in {"sending", "panicking"}, NEW task \in tasks
  PROVE  /\ task.at \in 1 .. Len(place)
         /\ place[task.at] \in 1 .. Len(dump) /\ place[task.at] <= e
         /\ dump[place[task.at]].kind = "insert"
         /\ task.sql = TextOf(place[task.at])
         /\ dump[place[task.at]].rows \in Seq(Filled) /\ Len(dump[place[task.at]].rows) \in Nat \ {0}
         /\ DOMAIN task = TaskFields
         /\ TaskSends(task, place[task.at])
         /\ CacheAt(e) /\ TasksAt(place) /\ SentAt(place, e, done) /\ e \in 0 .. Len(dump) /\ b \in Nat
         /\ InBatch(b, e, place) /\ DumpFits /\ Ordinary /\ dump' = dump
<1>1. /\ CacheAt(e) /\ TasksAt(place) /\ SentAt(place, e, done)
      /\ k \in 0 .. Len(dump) /\ b \in 0 .. k /\ e \in b .. k /\ Len(dump) \in Nat
      /\ InBatch(b, e, place) /\ DumpFits /\ Ordinary /\ dump' = dump
  <2>1. Handled(b, e) = e
    BY DEF Handled
  <2> QED BY <2>1, BeforeFacts
<1>2. /\ task.at \in 1 .. Len(place) /\ dump[place[task.at]].kind = "insert"
      /\ task.sql = TextOf(place[task.at])
  BY <1>1 DEF TasksAt
<1>3. place[task.at] \in b + 1 .. e
  BY <1>1, <1>2 DEF InBatch
<1>4. place[task.at] \in 1 .. Len(dump) /\ place[task.at] <= e /\ e \in 0 .. Len(dump) /\ b \in Nat
  BY <1>1, <1>3
<1>5. dump[place[task.at]].rows \in Seq(Filled) \ { <<>> }
  BY <1>1, <1>2, <1>4, StatementSorts
<1>6. Len(dump[place[task.at]].rows) \in Nat \ {0}
  BY <1>5, LenProperties, EmptySeq
<1>7. DOMAIN task = TaskFields
  BY DEF Before, TypeInv, LimitsInv, TasksBounded
<1>8. TaskSends(task, place[task.at])
  BY <1>1 DEF SentAt
<1> QED BY <1>1, <1>2, <1>4, <1>5, <1>6, <1>7, <1>8

(* What StartInsert makes of the task of the k-th statement. *)
Starts(task, k) ==
  \/ status' = "panicking" /\ tasks' = Others(task)
  \/ /\ status' = status /\ tasks' = Others(task)
     /\ failures = 0 => \A i : <<k, i>> \notin RowsToSend
  \/ /\ status' = status
     /\ \E new : /\ tasks' = Others(task) \cup {new}
                 /\ new.at = task.at /\ new.sql = task.sql
                 /\ new.parsed = TRUE /\ Begun(new, k) = 0 /\ TaskSends(new, k)

(* StartInsert panics, drops the rows of a table that is not known, or makes the records
   of all rows. *)
LEMMA InsertStarts ==
  ASSUME NEW k, NEW r, NEW b, NEW e, NEW place, NEW done, Before(k, r, b, e, place, done),
         NEW task \in tasks, StartInsert(task)
  PROVE  Starts(task, place[task.at])
<1> DEFINE at == place[task.at]
           rows == dump[at].rows
           table == dump[at].table
           insert == Parsed[task.sql]
           records == Records(table_cache, insert.table, insert.rows)
<1>1. /\ status \in {"sending", "panicking"}
      /\ \/ ~insert.ok /\ status' = "panicking" /\ tasks' = Others(task)
         \/ /\ insert.ok /\ status' = status
            /\ tasks' = Others(task) \cup
                 (IF records = <<>> THEN {}
                  ELSE {[task EXCEPT !.parsed = TRUE, !.left = records]})
  BY DEF StartInsert
<1>2. /\ task.at \in 1 .. Len(place) /\ at \in 1 .. Len(dump) /\ at <= e
      /\ dump[at].kind = "insert" /\ task.sql = TextOf(at)
      /\ rows \in Seq(Filled) /\ Len(rows) \in Nat \ {0} /\ DOMAIN task = TaskFields
      /\ CacheAt(e) /\ e \in 0 .. Len(dump) /\ b \in Nat
      /\ InBatch(b, e, place) /\ DumpFits /\ Ordinary
  BY <1>1, TaskAt
<1>3. CASE ~insert.ok
  BY <1>1, <1>3 DEF Starts
<1>4. CASE insert.ok
  <2>1. Readable(rows) /\ insert.table = table /\ insert.rows = rows
    BY <1>2, <1>4, StatementParsed
  <2>2. /\ status' = status
        /\ tasks' = Others(task) \cup
             (IF records = <<>> THEN {}
              ELSE {[task EXCEPT !.parsed = TRUE, !.left = records]})
    BY <1>1, <1>4
  <2>3. /\ table \in DOMAIN table_cache =>
             table \in DOMAIN TablesAfter(at) /\ table_cache[table] = TablesAfter(at)[table]
        /\ failures = 0 /\ table \in DOMAIN TablesAfter(at) => table \in DOMAIN table_cache
    BY <1>2, ColumnsAt
  <2>4. \A i : <<at, i>> \in RowsToSend <=> /\ table \in DOMAIN TablesAfter(at)
                                            /\ i \in 1 .. Len(rows)
    BY <1>2, <2>1, RowsToSendAt
  <2>5. DOMAIN rows = 1 .. Len(rows)
    BY <1>2, LenProperties
  <2>6. CASE table \notin DOMAIN table_cache
    <3>1. records = <<>>
      BY <2>1, <2>6 DEF Records
    <3>2. tasks' = Others(task)
      BY <2>2, <3>1
    <3> QED BY <2>2, <2>3, <2>4, <2>6, <3>2 DEF Starts
  <2>7. CASE table \in DOMAIN table_cache
    <3> DEFINE n == Len(rows)
               new == [task EXCEPT !.parsed = TRUE, !.left = records]
    <3>1. records = [i \in 1 .. n |-> Record(table, table_cache[table], rows[i])]
      BY <2>1, <2>5, <2>7 DEF Records
    <3>2. \A i \in 1 .. n : Record(table, table_cache[table], rows[i]) = RecordAt(at, i)
      BY <2>3, <2>7, SMTT(30) DEF RecordAt
    <3>3. DOMAIN records = 1 .. n /\ \A i \in 1 .. n : records[i] = RecordAt(at, i)
      BY <3>1, <3>2
    <3> HIDE DEF records, n
    <3>4. n \in Nat \ {0}
      BY <1>2 DEF n
    <3>5. records \in Seq(Range(records)) /\ Len(records) = n /\ records # <<>>
      <4>1. records = [i \in 1 .. n |-> records[i]]
        BY <3>1
      <4>2. \A i \in 1 .. n : records[i] \in Range(records)
        BY <3>3 DEF Range
      <4>3. records \in [1 .. n -> Range(records)]
        BY <4>1, <4>2
      <4>4. records \in Seq(Range(records)) /\ Len(records) = n
        BY <3>4, <4>3
      <4> QED BY <3>4, <4>4, EmptySeq
    <3>6. tasks' = Others(task) \cup {new}
      BY <2>2, <3>5
    <3>7. new.at = task.at /\ new.sql = task.sql /\ new.parsed = TRUE /\ new.left = records
      BY <1>2 DEF TaskFields
    <3> HIDE DEF new
    <3>8. Begun(new, at) = 0
      BY <3>4, <3>5, <3>7 DEF Begun, n
    <3>9. TaskSends(new, at)
      <4>1. <<at, 1>> \in RowsToSend
        <5>1. 1 \in 1 .. Len(rows)
          BY <3>4 DEF n
        <5> QED BY <2>3, <2>4, <2>7, <5>1
      <4>2. Begun(new, at) \in 0 .. Len(dump[at].rows) - 1
        BY <3>4, <3>8 DEF n
      <4>3. Len(new.left) = Len(dump[at].rows) - Begun(new, at)
        BY <3>4, <3>5, <3>7, <3>8 DEF n
      <4>4. \A j \in 1 .. Len(new.left) : new.left[j] = RecordAt(at, Begun(new, at) + j)
        <5>1. \A j \in 1 .. n : 0 + j = j
          BY <3>4
        <5> QED BY <3>3, <3>5, <3>7, <3>8, <5>1
      <4>5. new.left \in Seq(Range(new.left))
        BY <3>5, <3>7
      <4> QED BY <4>1, <4>2, <4>3, <4>4, <4>5 DEF TaskSends
    <3> QED BY <2>2, <3>6, <3>7, <3>8, <3>9 DEF Starts
  <2> QED BY <2>6, <2>7
<1> QED BY <1>3, <1>4

(* The tasks of a batch have statements of their own. *)
LEMMA TasksApart ==
  ASSUME NEW b, NEW e, NEW place, InBatch(b, e, place), TasksAt(place),
         NEW task \in tasks, NEW other \in tasks, place[task.at] = place[other.at]
  PROVE  task = other
<1>1. task.at \in 1 .. Len(place) /\ other.at \in 1 .. Len(place)
  BY DEF TasksAt
<1>2. place \in Seq(Nat) /\ \A i, j \in 1 .. Len(place) : i < j => place[i] < place[j]
  BY DEF InBatch
<1>3. Len(place) \in Nat
  BY <1>2, LenProperties
<1>4. place[task.at] \in Nat /\ place[other.at] \in Nat
  BY <1>1, <1>2, ElementOfSeq
<1> DEFINE i == task.at
           j == other.at
<1>5. i = j
  <2>1. i \in 1 .. Len(place) /\ j \in 1 .. Len(place) /\ place[i] = place[j] /\ place[i] \in Nat
    BY <1>1, <1>4
  <2> HIDE DEF i, j
  <2>2. ~(i < j) /\ ~(j < i)
    BY <1>2, <1>4, <2>1
  <2> QED BY <1>3, <2>1, <2>2
<1> QED BY <1>5 DEF TasksAt

(* A step of one task, which ends it or leaves another in its stead. *)
LEMMA TaskMoves ==
  ASSUME NEW k, NEW r, NEW b, NEW e, NEW place, NEW done, Before(k, r, b, e, place, done),
         UNCHANGED <<lines, failures, sql_line, sql_buffer, table_cache, open>>,
         status \in {"sending", "panicking"}, status' \in {"sending", "panicking"},
         status = "panicking" => status' = "panicking",
         NEW task \in tasks, NEW more, NEW stead, tasks' = Others(task) \cup stead,
         \A new, other \in stead : new = other,
         \A new \in stead : /\ new.at = task.at /\ new.sql = task.sql
                            /\ TaskSends(new, place[task.at])
                            /\ \A p \in more : p[1] = place[task.at] => p[2] <= Begun(new, p[1]),
         sent' = RecordsOf(more), done \subseteq more, more \subseteq RowsToSend,
         \A p \in more : p \in done \/ p[1] = place[task.at],
         failures = 0 /\ Routed /\ status' = "sending" =>
           \A p \in RowsToSend : p[1] = place[task.at] /\ p[2] > Begun(task, p[1]) =>
             p \in more \/ \E new \in stead : p[2] > Begun(new, p[1])
  PROVE  ExportAt(k, r, b, e, place, more)'
<1>1. /\ task.at \in 1 .. Len(place) /\ dump[place[task.at]].kind = "insert"
      /\ place[task.at] <= e /\ task.sql = TextOf(place[task.at])
      /\ TasksAt(place) /\ SentAt(place, e, done) /\ InBatch(b, e, place) /\ dump' = dump
  BY TaskAt
<1>2. Others(task) \subseteq tasks /\ \A other \in Others(task) : other # task
  BY DEF Others
<1>3. \A other \in Others(task) : other.at # task.at /\ place[other.at] # place[task.at]
  BY <1>1, <1>2, TasksApart DEF TasksAt
<1>4. TasksAt(place)'
  <2>1. \A i : TextOf(i)' = TextOf(i)
    BY <1>1, DumpStands
  <2>2. \A t \in tasks' : /\ t.at \in 1 .. Len(place)
                          /\ dump[place[t.at]].kind = "insert"
                          /\ t.sql = TextOf(place[t.at])
    BY <1>1, <1>2 DEF TasksAt
  <2>3. \A t, other \in tasks' : t.at = other.at => t = other
    BY <1>1, <1>2, <1>3 DEF TasksAt
  <2> QED BY <1>1, <2>1, <2>2, <2>3 DEF TasksAt
<1>5. SentAt(place, e, more)'
  <2>1. RowsToSend' = RowsToSend /\ RecordsOf(more)' = RecordsOf(more)
    BY <1>1, DumpStands
  <2>2. \A t, i : /\ Begun(t, i)' = Begun(t, i)
                  /\ TaskSends(t, i)' <=> TaskSends(t, i)
    BY <1>1, TaskStands
  <2>3. \A p \in more : p[1] <= e
    BY <1>1 DEF SentAt
  <2>4. ASSUME NEW t \in tasks'
        PROVE  /\ TaskSends(t, place[t.at])
               /\ \A p \in more : p[1] = place[t.at] => p[2] <= Begun(t, p[1])
    <3>1. CASE t \in stead
      BY <3>1
    <3>2. CASE t \in Others(task)
      BY <1>1, <1>2, <1>3, <3>2 DEF SentAt
    <3> QED BY <3>1, <3>2
  <2>5. failures = 0 => open = Channels
    BY <1>1 DEF SentAt
  <2>6. ASSUME failures = 0, Routed, status' = "sending", NEW p \in RowsToSend, p[1] <= e
        PROVE  p \in more \/ \E t \in tasks' : place[t.at] = p[1] /\ p[2] > Begun(t, p[1])
    <3>1. status \notin {"panicking", "panicked"}
      BY <2>6
    <3>2. CASE p \in done
      BY <3>2
    <3>3. CASE p \notin done
      <4>1. PICK t \in tasks : place[t.at] = p[1] /\ p[2] > Begun(t, p[1])
        BY <1>1, <2>6, <3>1, <3>3 DEF SentAt
      <4>2. CASE t = task
        BY <2>6, <4>1, <4>2
      <4>3. CASE t # task
        BY <4>1, <4>3 DEF Others
      <4> QED BY <4>2, <4>3
    <3> QED BY <3>2, <3>3
  <2>7. Routed' <=> Routed
    BY DEF Routed
  <2>8. failures' = 0 /\ Routed' /\ status' \notin {"panicking", "panicked"} =>
          \A p \in RowsToSend : p[1] <= e =>
            p \in more \/ \E t \in tasks' : place[t.at] = p[1] /\ p[2] > Begun(t, p[1])
    BY <2>6, <2>7
  <2> QED BY <2>1, <2>2, <2>3, <2>4, <2>5, <2>8 DEF SentAt
<1> QED BY <1>4, <1>5, SendingCounts

(* A statement that is started has all its rows to send, or none. *)
LEMMA StartInsertCounts ==
  ASSUME NEW k, NEW r, NEW b, NEW e, NEW place, NEW done, Before(k, r, b, e, place, done),
         NEW task \in tasks, StartInsert(task)
  PROVE  ExportAt(k, r, b, e, place, done)'
<1> DEFINE at == place[task.at]
<1>1. /\ status \in {"sending", "panicking"} /\ ~task.parsed
      /\ UNCHANGED <<lines, failures, sql_line, sql_buffer, table_cache, open, sent>>
  BY DEF StartInsert, reading, receiving
<1>2. SentAt(place, e, done) /\ DumpFits /\ Ordinary
  BY <1>1, TaskAt
<1>3. Begun(task, at) = 0
  BY <1>1 DEF Begun
<1>4. /\ done \subseteq RowsToSend /\ sent' = RecordsOf(done)
      /\ \A p \in done : p[1] = at => p[2] <= 0
  BY <1>1, <1>2, <1>3 DEF SentAt
<1>5. \A p \in RowsToSend : p = <<p[1], p[2]>>
  BY <1>2, RowsToSendAt
<1> DEFINE Steps(stead) ==
       /\ tasks' = Others(task) \cup stead
       /\ \A new, other \in stead : new = other
       /\ \A new \in stead : /\ new.at = task.at /\ new.sql = task.sql
                            /\ TaskSends(new, place[task.at])
                            /\ \A p \in done : p[1] = place[task.at] => p[2] <= Begun(new, p[1])
       /\ failures = 0 /\ Routed /\ status' = "sending" =>
            \A p \in RowsToSend : p[1] = place[task.at] /\ p[2] > Begun(task, p[1]) =>
              p \in done \/ \E new \in stead : p[2] > Begun(new, p[1])
<1>6. ASSUME status' \in {"panicking", status}, NEW stead, Steps(stead)
      PROVE  ExportAt(k, r, b, e, place, done)'
  <2>1. status' \in {"sending", "panicking"} /\ (status = "panicking" => status' = "panicking")
    BY <1>1, <1>6
  <2>2. done \subseteq done /\ \A p \in done : p \in done \/ p[1] = place[task.at]
    OBVIOUS
  <2> QED BY <1>1, <1>4, <1>6, <2>1, <2>2, TaskMoves
<1>7. CASE status' = "panicking" /\ tasks' = Others(task)
  <2>1. Steps({})
    BY <1>7
  <2> HIDE DEF Steps
  <2> QED BY <1>6, <1>7, <2>1
<1>8. CASE /\ status' = status /\ tasks' = Others(task)
           /\ failures = 0 => \A i : <<at, i>> \notin RowsToSend
  <2>1. failures = 0 => \A p \in RowsToSend : p[1] # at
    BY <1>5, <1>8
  <2>2. Steps({})
    BY <1>8, <2>1
  <2> HIDE DEF Steps
  <2> QED BY <1>6, <1>8, <2>2
<1>9. ASSUME status' = status,
             NEW new, tasks' = Others(task) \cup {new}, new.at = task.at, new.sql = task.sql,
             new.parsed = TRUE, Begun(new, at) = 0, TaskSends(new, at)
      PROVE  ExportAt(k, r, b, e, place, done)'
  <2>1. \A p \in done : p[1] = at => p[2] <= Begun(new, p[1])
    BY <1>4, <1>9
  <2>2. \A p \in RowsToSend : p[1] = at /\ p[2] > Begun(task, p[1]) => p[2] > Begun(new, p[1])
    BY <1>3, <1>9
  <2>3. Steps({new})
    BY <1>9, <2>1, <2>2
  <2> HIDE DEF Steps
  <2> QED BY <1>6, <1>9, <2>3
<1>10. Starts(task, at)
  BY InsertStarts
<1> HIDE DEF Steps
<1> QED BY <1>7, <1>8, <1>9, <1>10 DEF Starts

-----------------------------------------------------------------------------
(* The rows that are sent.                                                 *)

(* The rows of a dump are finitely many. *)
LEMMA RowsAreFinite ==
  ASSUME DumpFits, Ordinary
  PROVE  IsFiniteSet(RowsToSend)
<1> DEFINE n == Len(dump)
           f == [i \in 1 .. n |-> {p \in RowsToSend : p[1] = i}]
           parts == {f[i] : i \in 1 .. n}
<1>1. n \in Nat
  BY AllLinesType
<1>2. \A p \in RowsToSend :
        /\ p = <<p[1], p[2]>> /\ p[1] \in 1 .. n /\ Len(dump[p[1]].rows) \in Nat
        /\ p[2] \in 1 .. Len(dump[p[1]].rows)
  BY RowsToSendAt
<1>3. RowsToSend = UNION parts
  BY <1>2
<1>4. IsFiniteSet(parts)
  <2>1. f \in Surjection(1 .. n, parts)
    <3> HIDE DEF n
    <3> QED BY DEF Surjection
  <2>2. IsFiniteSet(1 .. n)
    BY <1>1, CountTo
  <2> HIDE DEF f, n, parts
  <2> QED BY <2>1, <2>2, FS_Surjection
<1>5. ASSUME NEW i \in 1 .. n PROVE IsFiniteSet(f[i])
  <2> DEFINE m == Len(dump[i].rows)
             all == {i} \X (1 .. m)
  <2>1. CASE f[i] = {}
    BY <2>1, FS_EmptySet
  <2>2. CASE f[i] # {}
    <3>1. f[i] = {p \in RowsToSend : p[1] = i}
      BY <1>5
    <3>2. m \in Nat
      BY <1>2, <2>2, <3>1
    <3>3. f[i] \in SUBSET all
      <4>1. \A p \in f[i] : p = <<i, p[2]>> /\ p[2] \in 1 .. m
        BY <1>2, <3>1
      <4> HIDE DEF m, f
      <4> QED BY <4>1
    <3>4. IsFiniteSet({i}) /\ IsFiniteSet(1 .. m)
      BY <3>2, FS_Singleton, CountTo
    <3>5. IsFiniteSet(all)
      <4> HIDE DEF m
      <4> QED BY <3>4, FS_Product
    <3> HIDE DEF all, f
    <3> QED BY <3>3, <3>5, FS_Subset
  <2> QED BY <2>1, <2>2
<1>6. \A part \in parts : IsFiniteSet(part)
  BY <1>5
<1> HIDE DEF parts
<1> QED BY <1>3, <1>4, <1>6, FS_UNION

(* The records of rows are a bag, of one more with every row. *)
LEMMA OneMoreRecord ==
  ASSUME NEW places, IsFiniteSet(places), NEW p, p \notin places
  PROVE  RecordsOf(places \cup {p}) = RecordsOf(places) (+) SetToBag({RecordAt(p[1], p[2])})
<1> DEFINE record == RecordAt(p[1], p[2])
           At(s, e) == {q \in s : RecordAt(q[1], q[2]) = e}
           bag == RecordsOf(places)
           one == SetToBag({record})
           more == places \cup {p}
           count(b, e) == IF e \in DOMAIN b THEN b[e] ELSE 0
<1>1. one = [e \in {record} |-> 1]
  BY DEF SetToBag
<1>2. bag (+) one = [e \in DOMAIN bag \cup {record} |-> count(bag, e) + count(one, e)]
  BY <1>1 DEF (+)
<1>3. \A s : RecordsOf(s) = [e \in {RecordAt(q[1], q[2]) : q \in s} |-> Cardinality(At(s, e))]
  BY DEF RecordsOf
<1>4. /\ DOMAIN bag = {RecordAt(q[1], q[2]) : q \in places}
      /\ DOMAIN RecordsOf(more) = DOMAIN bag \cup {record}
  BY <1>3
<1>5. \A e : count(bag, e) = Cardinality(At(places, e)) /\ count(bag, e) \in Nat
             /\ IsFiniteSet(At(places, e))
  <2> SUFFICES ASSUME NEW e
               PROVE  count(bag, e) = Cardinality(At(places, e)) /\ count(bag, e) \in Nat
                      /\ IsFiniteSet(At(places, e))
    OBVIOUS
  <2>1. IsFiniteSet(At(places, e))
    <3>1. At(places, e) \in SUBSET places
      OBVIOUS
    <3> HIDE DEF At
    <3> QED BY <3>1, FS_Subset
  <2>2. Cardinality(At(places, e)) \in Nat
    BY <2>1, FS_CardinalityType
  <2>3. CASE e \in DOMAIN bag
    <3>1. bag[e] = Cardinality(At(places, e))
      BY <1>3, <1>4, <2>3
    <3> QED BY <2>1, <2>2, <2>3, <3>1
  <2>4. CASE e \notin DOMAIN bag
    <3>1. At(places, e) = {}
      BY <1>4, <2>4
    <3> HIDE DEF At, bag
    <3> QED BY <2>1, <2>2, <2>4, <3>1, FS_EmptySet
  <2> QED BY <2>3, <2>4
<1>6. \A e \in DOMAIN bag \cup {record} :
        RecordsOf(more)[e] = count(bag, e) + count(one, e)
  <2> SUFFICES ASSUME NEW e \in DOMAIN bag \cup {record}
               PROVE  RecordsOf(more)[e] = count(bag, e) + count(one, e)
    OBVIOUS
  <2>1. RecordsOf(more)[e] = Cardinality(At(more, e))
    BY <1>3, <1>4
  <2>2. CASE e = record
    <3>1. At(more, e) = At(places, e) \cup {p} /\ p \notin At(places, e)
      BY <2>2
    <3>2. count(one, e) = 1
      BY <1>1, <2>2
    <3> HIDE DEF At, count, more, one, bag
    <3>3. Cardinality(At(more, e)) = Cardinality(At(places, e)) + 1
      BY <1>5, <3>1, FS_AddElement
    <3> QED BY <1>5, <2>1, <3>2, <3>3
  <2>3. CASE e # record
    <3>1. At(more, e) = At(places, e)
      BY <2>3
    <3>2. count(one, e) = 0
      BY <1>1, <2>3
    <3> HIDE DEF At, count, more, one, bag
    <3> QED BY <1>5, <2>1, <3>1, <3>2
  <2> QED BY <2>2, <2>3
<1>7. RecordsOf(more) = [e \in DOMAIN bag \cup {record} |-> RecordsOf(more)[e]]
  BY <1>3, <1>4
<1> HIDE DEF count, bag, one, more
<1>8. RecordsOf(more) = [e \in DOMAIN bag \cup {record} |-> count(bag, e) + count(one, e)]
  BY <1>6, <1>7
<1> QED BY <1>2, <1>8 DEF bag, one, more

(* Fewer rows have fewer records. *)
LEMMA FewerRecords ==
  ASSUME NEW places, IsFiniteSet(places), NEW some \in SUBSET places
  PROVE  RecordsOf(some) \sqsubseteq RecordsOf(places)
<1> DEFINE At(s, e) == {q \in s : RecordAt(q[1], q[2]) = e}
<1>1. \A s : RecordsOf(s) = [e \in {RecordAt(q[1], q[2]) : q \in s} |-> Cardinality(At(s, e))]
  BY DEF RecordsOf
<1>2. DOMAIN RecordsOf(some) \subseteq DOMAIN RecordsOf(places)
  BY <1>1
<1>3. ASSUME NEW e \in DOMAIN RecordsOf(some)
      PROVE  RecordsOf(some)[e] <= RecordsOf(places)[e]
  <2>1. /\ RecordsOf(some)[e] = Cardinality(At(some, e))
        /\ RecordsOf(places)[e] = Cardinality(At(places, e))
    BY <1>1, <1>2
  <2>2. At(some, e) \in SUBSET At(places, e) /\ At(places, e) \in SUBSET places
    OBVIOUS
  <2> HIDE DEF At
  <2>3. IsFiniteSet(At(places, e))
    BY <2>2, FS_Subset
  <2>4. Cardinality(At(some, e)) <= Cardinality(At(places, e))
    BY <2>2, <2>3, FS_Subset
  <2> QED BY <2>1, <2>4
<1> QED BY <1>2, <1>3 DEF \sqsubseteq

(* No rows have no records. *)
LEMMA NoRecords == RecordsOf({}) = EmptyBag
BY DEF RecordsOf, EmptyBag, SetToBag

(* A row that is sent, or dropped, leaves a task with those after it. *)
LEMMA RowIsNext ==
  ASSUME NEW at, NEW task, DOMAIN task = TaskFields, task.parsed, TaskSends(task, at),
         Len(dump[at].rows) \in Nat
  PROVE  LET n == Len(dump[at].rows)
             i == Begun(task, at)
             further == [task EXCEPT !.left = Tail(@)]
         IN /\ i \in 0 .. n - 1 /\ Len(task.left) = n - i /\ <<at, 1>> \in RowsToSend
            /\ Head(task.left) = RecordAt(at, i + 1)
            /\ Len(task.left) # 1 =>
                 /\ further.at = task.at /\ further.sql = task.sql
                 /\ Begun(further, at) = i + 1 /\ TaskSends(further, at)
<1> DEFINE n == Len(dump[at].rows)
           i == Begun(task, at)
           left == task.left
           further == [task EXCEPT !.left = Tail(@)]
<1>1. /\ n \in Nat /\ i \in 0 .. n - 1 /\ Len(left) = n - i /\ <<at, 1>> \in RowsToSend
      /\ \A j \in 1 .. Len(left) : left[j] = RecordAt(at, i + j)
      /\ left \in Seq(Range(left))
  BY DEF TaskSends
<1>2. left # <<>>
  <2> HIDE DEF left, i, n
  <2> QED BY <1>1, EmptySeq
<1>3. Head(left) = RecordAt(at, i + 1)
  <2>1. Head(left) = left[1] /\ 1 \in 1 .. Len(left)
    <3> HIDE DEF left, i, n
    <3> QED BY <1>1
  <2> QED BY <1>1, <2>1
<1>4. /\ Tail(left) \in Seq(Range(left)) /\ Len(Tail(left)) = n - i - 1
      /\ \A j \in 1 .. n - i - 1 : Tail(left)[j] = left[j + 1]
  <2> HIDE DEF left, i, n
  <2> QED BY <1>1, <1>2, HeadTailProperties
<1>5. /\ further.at = task.at /\ further.sql = task.sql /\ further.parsed
      /\ further.left = Tail(left)
  BY DEF TaskFields
<1>6. ASSUME Len(left) # 1 PROVE Begun(further, at) = i + 1 /\ TaskSends(further, at)
  <2> DEFINE rest == Tail(left)
  <2>1. further.left = rest /\ Len(rest) = n - i - 1 /\ n - i - 1 # 0
    BY <1>1, <1>4, <1>5, <1>6
  <2>2. Begun(further, at) = n - Len(rest)
    BY <1>5, <2>1 DEF Begun
  <2>3. Begun(further, at) = i + 1 /\ i + 1 \in 0 .. n - 1
    <3> HIDE DEF left, i, n, further, rest
    <3> QED BY <1>1, <2>1, <2>2
  <2>4. \A j \in 1 .. Len(rest) : rest[j] = RecordAt(at, i + 1 + j)
    <3> SUFFICES ASSUME NEW j \in 1 .. Len(rest) PROVE rest[j] = RecordAt(at, i + 1 + j)
      OBVIOUS
    <3>1. j \in 1 .. n - i - 1 /\ j + 1 \in 1 .. Len(left) /\ i + (j + 1) = i + 1 + j
      <4> HIDE DEF left, i, n, rest
      <4> QED BY <1>1, <2>1
    <3>2. rest[j] = left[j + 1]
      BY <1>4, <3>1
    <3>3. left[j + 1] = RecordAt(at, i + (j + 1))
      BY <1>1, <3>1
    <3> QED BY <3>1, <3>2, <3>3
  <2>5. rest \in Seq(Range(rest))
    <3>1. rest \in [1 .. Len(rest) -> Range(left)] /\ Len(rest) \in Nat
      <4> HIDE DEF left, i, n, further
      <4> QED BY <1>1, <1>4, <2>1, LenProperties
    <3> HIDE DEF rest
    <3>2. rest = [j \in 1 .. Len(rest) |-> rest[j]] /\ DOMAIN rest = 1 .. Len(rest)
      BY <3>1
    <3>3. rest \in [1 .. Len(rest) -> Range(rest)]
      BY <3>2 DEF Range
    <3> QED BY <3>1, <3>3
  <2>6. Len(rest) = n - Begun(further, at)
    <3> HIDE DEF left, i, n, further, rest
    <3> QED BY <1>1, <2>1, <2>3
  <2> QED BY <1>1, <2>1, <2>3, <2>4, <2>5, <2>6 DEF TaskSends
<1> QED BY <1>1, <1>3, <1>5, <1>6

(* A row is sent once, in its turn; it is dropped only where its receiver is lost. *)
LEMMA SendRowCounts ==
  ASSUME NEW k, NEW r, NEW b, NEW e, NEW place, NEW done, Before(k, r, b, e, place, done),
         NEW task \in tasks, SendRow(task)
  PROVE  \E more : ExportAt(k, r, b, e, place, more)'
<1> DEFINE at == place[task.at]
           n == Len(dump[at].rows)
           i == Begun(task, at)
           further == [task EXCEPT !.left = Tail(@)]
           stead == IF Len(task.left) = 1 THEN {} ELSE {further}
           record == RecordAt(at, i + 1)
           channel == ChannelOf(record.key)
           row == <<at, i + 1>>
<1>1. /\ status \in {"sending", "panicking"} /\ task.parsed /\ status' = status
      /\ UNCHANGED <<lines, failures, sql_line, sql_buffer, table_cache, open>>
      /\ tasks' = Others(task) \cup stead
  BY DEF SendRow, reading
<1>2. /\ at \in 1 .. Len(dump) /\ dump[at].kind = "insert" /\ n \in Nat
      /\ DOMAIN task = TaskFields /\ TaskSends(task, at)
      /\ SentAt(place, e, done) /\ DumpFits /\ Ordinary
  BY <1>1, TaskAt
<1>3. /\ i \in 0 .. n - 1 /\ Len(task.left) = n - i /\ <<at, 1>> \in RowsToSend
      /\ Head(task.left) = record
      /\ Len(task.left) # 1 => /\ further.at = task.at /\ further.sql = task.sql
                               /\ Begun(further, at) = i + 1 /\ TaskSends(further, at)
  BY <1>1, <1>2, RowIsNext
<1>4. \/ sent' = sent (+) SetToBag({record})
      \/ channel \notin open /\ sent' = sent
  <2> HIDE DEF record
  <2> QED BY <1>3 DEF SendRow
<1>5. /\ \A j : <<at, j>> \in RowsToSend <=> j \in 1 .. n
      /\ \A p \in RowsToSend : p = <<p[1], p[2]>> /\ p[2] \in 1 .. Len(dump[p[1]].rows)
  BY <1>2, <1>3, RowsToSendAt
<1>6. /\ done \subseteq RowsToSend /\ sent = RecordsOf(done)
      /\ \A p \in done : p[1] = at => p[2] <= i
      /\ failures = 0 => open = Channels
  BY <1>2 DEF SentAt
<1> HIDE DEF record
<1>7. row \in RowsToSend /\ row \notin done /\ row[1] = at /\ row[2] = i + 1
  <2>1. i + 1 \in 1 .. n /\ ~(i + 1 <= i)
    <3> HIDE DEF i, n
    <3> QED BY <1>2, <1>3
  <2>2. row \in RowsToSend
    BY <1>5, <2>1
  <2>3. row[1] = at /\ row[2] = i + 1
    OBVIOUS
  <2> HIDE DEF row
  <2> QED BY <1>6, <2>1, <2>2, <2>3
<1>8. \A new \in stead : /\ Len(task.left) # 1 /\ new.at = task.at /\ new.sql = task.sql
                         /\ TaskSends(new, at) /\ Begun(new, at) = i + 1
  BY <1>3
<1>9. \A p \in RowsToSend : p[1] = at /\ p[2] > i =>
        p = row \/ \E new \in stead : p[2] > Begun(new, p[1])
  <2> SUFFICES ASSUME NEW p \in RowsToSend, p[1] = at, p[2] > i, p # row
               PROVE  \E new \in stead : p[2] > Begun(new, p[1])
    OBVIOUS
  <2>1. p = <<at, p[2]>> /\ p[2] \in 1 .. n
    BY <1>5
  <2>2. p[2] # i + 1
    BY <2>1
  <2> DEFINE j == p[2]
  <2>3. j > i + 1 /\ Len(task.left) # 1
    <3>1. j \in 1 .. n /\ j > i /\ j # i + 1
      BY <2>1, <2>2
    <3> HIDE DEF j, i, n
    <3> QED BY <1>2, <1>3, <3>1, SMTT(30)
  <2>4. further \in stead /\ Begun(further, at) = i + 1
    BY <1>3, <2>3
  <2> HIDE DEF stead, further
  <2> QED BY <2>3, <2>4
<1>10. ASSUME NEW more, done \subseteq more, more \subseteq RowsToSend,
              \A p \in more : p \in done \/ p = row, sent' = RecordsOf(more),
              failures = 0 /\ Routed => row \in more
       PROVE  ExportAt(k, r, b, e, place, more)'
  <2>1. \A p \in more : p \in done \/ p[1] = at
    BY <1>7, <1>10
  <2>2. \A p \in more : p[1] = at => p[2] <= i + 1
    <3> SUFFICES ASSUME NEW p \in more, p[1] = at PROVE p[2] <= i + 1
      OBVIOUS
    <3>1. CASE p = row
      <4> HIDE DEF row, i, n
      <4> QED BY <1>2, <1>3, <1>7, <3>1 DEF row
    <3>2. CASE p \in done
      <4>1. p[2] <= i /\ p[2] \in 1 .. n
        BY <1>5, <1>6, <1>10, <3>2
      <4> DEFINE j == p[2]
      <4>2. j <= i /\ j \in 1 .. n
        BY <4>1
      <4> HIDE DEF i, n, j
      <4>3. j <= i + 1
        BY <1>2, <1>3, <4>2
      <4> QED BY <4>3 DEF j
    <3> QED BY <1>10, <3>1, <3>2
  <2>3. \A new \in stead : /\ new.at = task.at /\ new.sql = task.sql
                           /\ TaskSends(new, place[task.at])
                           /\ \A p \in more : p[1] = place[task.at] => p[2] <= Begun(new, p[1])
    <3> HIDE DEF stead
    <3> QED BY <1>8, <2>2
  <2>4. \A new, other \in stead : new = other
    OBVIOUS
  <2>5. failures = 0 /\ Routed /\ status' = "sending" =>
          \A p \in RowsToSend : p[1] = place[task.at] /\ p[2] > Begun(task, p[1]) =>
            p \in more \/ \E new \in stead : p[2] > Begun(new, p[1])
    <3> HIDE DEF stead, row
    <3> QED BY <1>9, <1>10
  <2>6. status' \in {"sending", "panicking"} /\ (status = "panicking" => status' = "panicking")
    BY <1>1
  <2>7. \A p \in more : p \in done \/ p[1] = place[task.at]
    BY <2>1
  <2> HIDE DEF stead, at, row
  <2> QED BY <1>1, <1>10, <2>3, <2>4, <2>5, <2>6, <2>7, TaskMoves
<1>11. CASE sent' = sent (+) SetToBag({record})
  <2> DEFINE more == done \cup {row}
  <2>1. IsFiniteSet(done)
    <3>1. done \in SUBSET RowsToSend
      BY <1>6
    <3> QED BY <1>2, <3>1, RowsAreFinite, FS_Subset
  <2>2. RecordAt(row[1], row[2]) = record
    BY <1>7 DEF record
  <2>3. sent' = RecordsOf(more)
    <3> HIDE DEF row
    <3> QED BY <1>6, <1>7, <1>11, <2>1, <2>2, OneMoreRecord
  <2>4. /\ done \subseteq more /\ more \subseteq RowsToSend /\ row \in more
        /\ \A p \in more : p \in done \/ p = row
    BY <1>6, <1>7
  <2> HIDE DEF more
  <2> QED BY <1>10, <2>3, <2>4
<1>12. CASE channel \notin open /\ sent' = sent
  <2>1. ~(failures = 0 /\ Routed)
    BY <1>6, <1>12 DEF Routed
  <2>2. sent' = RecordsOf(done) /\ \A p \in done : p \in done \/ p = row
    BY <1>6, <1>12
  <2> HIDE DEF row
  <2> QED BY <1>6, <1>10, <2>1, <2>2
<1> QED BY <1>4, <1>11, <1>12

-----------------------------------------------------------------------------
(* The export.                                                             *)

(* Before anything is read nothing is sent. *)
LEMMA InitCounts == ASSUME Init, DumpFits, Ordinary PROVE ExportAt(0, 0, 0, 0, <<>>, {})
<1>1. /\ failures = 0 /\ sql_line = <<>> /\ sql_buffer = <<>> /\ table_cache = <<>> /\ tasks = {}
      /\ open = Channels /\ sent = EmptyBag /\ status = "opening"
      /\ lines = FlattenSeq(AllLines)
  BY DEF Init, AllLines, LinesOf
<1>2. /\ Len(dump) \in Nat \ {0} /\ AllLines \in Seq(Seq(Seq(Marks)))
  BY AllLinesType
<1> DEFINE n == Len(dump)
<1>3. n \in Nat /\ n # 0 /\ 0 \in 0 .. n /\ 1 \in 1 .. n /\ 0 < n
  BY <1>2
<1>4. lines = After(0, Rest(0))
  <2>1. After(0, AllLines) = AllLines
    BY <1>2, AfterNone
  <2>2. lines = Rest(0)
    BY <1>1, <2>1 DEF Rest
  <2>3. Rest(0) \in Seq(Seq(Marks))
    BY <1>3, RestSteps
  <2> QED BY <2>2, <2>3, AfterNone
<1>5. 0 < Len(LinesOf(1)) /\ Gathered(1, 0)
  <2>1. LinesOf(1) \in Seq(Seq(Marks)) /\ LinesOf(1) # <<>>
    BY <1>3, LinesSorts
  <2>2. After(0, LinesOf(1)) = LinesOf(1)
    BY <2>1, AfterNone
  <2>3. TextOf(1) \in Seq(Marks)
    BY <2>1, FlattenedIsText DEF TextOf
  <2>4. sql_line \o FlattenSeq(After(0, LinesOf(1))) = TextOf(1)
    BY <1>1, <2>2, <2>3, ConcatEmptySeq DEF TextOf
  <2>5. 0 < Len(LinesOf(1))
    <3> DEFINE s == LinesOf(1)
    <3> HIDE DEF s
    <3>1. s \in Seq(Seq(Marks)) /\ s # <<>> => 0 < Len(s)
      BY LenProperties, EmptySeq
    <3> QED BY <2>1, <3>1 DEF s
  <2> QED BY <1>1, <2>4, <2>5 DEF Gathered
<1>6. ReadAt(0, 0)
  <2>1. <<>> \in Seq(Marks)
    BY EmptySeq
  <2>2. status = "opening" /\ sql_line = <<>> /\ 0 + 1 = 1
    BY <1>1
  <2> QED BY <1>3, <1>4, <1>5, <2>1, <2>2 DEF ReadAt
<1>7. BatchAt(0, 0, 0, <<>>)
  <2>1. <<>> \in Seq(Nat) /\ Len(<<>>) = 0 /\ 1 .. 0 = {} /\ 0 + 1 .. 0 = {}
    BY EmptySeq
  <2>2. 0 <= BatchSize
    BY Sizes
  <2>3. InBatch(0, 0, <<>>)
    BY <2>1, <2>2 DEF InBatch
  <2> QED BY <1>1, <2>1, <2>3 DEF BatchAt
<1>8. CacheAt(0)
  <2>1. DOMAIN table_cache = {}
    BY <1>1
  <2>2. Creates(0) = {}
    BY DEF Creates
  <2> QED BY <2>1, <2>2 DEF CacheAt
<1>9. TasksAt(<<>>)
  BY <1>1 DEF TasksAt
<1>10. SentAt(<<>>, 0, {})
  <2>1. \A p \in RowsToSend : ~(p[1] <= 0)
    BY <1>3, RowsToSendAt
  <2> QED BY <1>1, <2>1, NoRecords DEF SentAt
<1>11. Handled(0, 0) = 0
  BY DEF Handled
<1> QED BY <1>6, <1>7, <1>8, <1>9, <1>10, <1>11 DEF ExportAt

(* A dump ends with the end of a file. *)
LEMMA InitFits == Init => DumpFits
<1> SUFFICES ASSUME Init PROVE DumpFits
  OBVIOUS
<1> DEFINE end == [kind |-> "end"]
           All == Statements \cup {end}
<1>a. MaxStatements \in Nat
  BY SourceAssumption DEF SourceAssumption
<1>1. PICK n \in 0 .. MaxStatements :
        \E statements \in [1 .. n -> Statements] : dump = statements \o <<end>>
  BY DEF Init
<1>2. PICK statements \in [1 .. n -> Statements] : dump = statements \o <<end>>
  BY <1>1
<1>3. n \in Nat /\ end \in All /\ end.kind = "end" /\ Statements \subseteq All
  BY <1>a
<1> HIDE DEF end, All
<1>4. statements \in Seq(All)
  BY <1>3
<1> DEFINE last == <<end>>
<1>5. last \in Seq(All) /\ Len(last) = 1 /\ last[1] = end
  BY <1>3
<1> HIDE DEF last
<1>6. dump \in Seq(All) /\ Len(dump) = n + 1 /\ dump[n + 1] = end
  BY <1>2, <1>4, <1>5, ConcatProperties DEF last
<1>7. dump # <<>>
  <2>1. n + 1 # 0
    OBVIOUS
  <2> QED BY <1>6, <2>1, EmptySeq
<1> QED BY <1>3, <1>6, <1>7 DEF DumpFits, All, end

(* The export is counted from the start, *)
LEMMA ExportInit == Init => ExportInv
<1> SUFFICES ASSUME Init PROVE ExportInv
  OBVIOUS
<1>1. TypeInv /\ DumpFits
  BY TypesInit, InitFits
<1>2. Counted => \E k, r, b, e, place, done : ExportAt(k, r, b, e, place, done)
  BY <1>1, InitCounts DEF Counted
<1> QED BY <1>1, <1>2 DEF ExportInv

(* and every step counts. *)
LEMMA ExportInductive == ASSUME ExportInv, [Next]_vars PROVE ExportInv'
<1>1. TypeInv'
  BY TypesInductive, SMTT(30) DEF ExportInv
<1>2. dump' = dump
  BY DEF Next, Source, Batch, OpenFile, OpenFails, AllRead, ReadLine, EndFile, ReadFails,
         ParseCreates, StartInsert, SendRow, Abandon, EndBatch, Receive, Disconnect, vars
<1>3. DumpFits'
  BY <1>2, DumpStands DEF ExportInv
<1>4. ASSUME Counted' PROVE \E k, r, b, e, place, done : ExportAt(k, r, b, e, place, done)'
  <2>1. PICK k, r, b, e, place, done : Before(k, r, b, e, place, done)
    BY <1>4, CountedBefore
  <2>2. CASE OpenFile
    BY <2>1, <2>2, OpenFileCounts
  <2>3. CASE AllRead
    BY <2>1, <2>3, AllReadCounts
  <2>4. CASE OpenFails
    BY <2>1, <2>4, OpenFailsCounts
  <2>5. CASE ReadLine
    BY <2>1, <2>5, ReadLineCounts
  <2>6. CASE EndFile
    BY <2>1, <2>6, EndFileCounts
  <2>7. CASE ReadFails
    BY <2>1, <2>7, ReadFailsCounts
  <2>8. CASE EndBatch
    BY <2>1, <2>8, EndBatchCounts
  <2>9. CASE ParseCreates
    BY <2>1, <2>9, ParseCreatesCounts
  <2>10. ASSUME NEW task \in tasks, StartInsert(task)
         PROVE  ExportAt(k, r, b, e, place, done)'
    BY <2>1, <2>10, StartInsertCounts
  <2>11. ASSUME NEW task \in tasks, SendRow(task)
         PROVE  \E more : ExportAt(k, r, b, e, place, more)'
    BY <2>1, <2>11, SendRowCounts
  <2>12. ASSUME NEW task \in tasks, Abandon(task)
         PROVE  ExportAt(k, r, b, e, place, done)'
    BY <2>1, <2>12, AbandonCounts
  <2>13. CASE \E channel \in Channels : Receive(channel) \/ Disconnect(channel)
    <3>1. UNCHANGED <<lines, sql_line, sql_buffer, table_cache, tasks, sent, status>>
      BY <2>13 DEF Receive, Disconnect, reading
    <3>2. failures \in Nat
      BY <2>1 DEF Before
    <3>3. failures' = 0 => open' = open
      BY <2>13, <3>2 DEF Receive, Disconnect
    <3> QED BY <2>1, <3>1, <3>3, ReceiversCount
  <2>14. CASE UNCHANGED vars
    <3>1. /\ UNCHANGED <<lines, sql_line, sql_buffer, table_cache, tasks, sent, status>>
          /\ open' = open
      BY <2>14 DEF vars
    <3> QED BY <2>1, <3>1, ReceiversCount
  <2> QED BY <2>2, <2>3, <2>4, <2>5, <2>6, <2>7, <2>8, <2>9, <2>10, <2>11, <2>12, <2>13, <2>14
             DEF Next, Source, Batch
<1> QED BY <1>1, <1>3, <1>4, SMTT(30) DEF ExportInv

(* send_debezium: what is sent is at any moment a part of what was dumped, no row twice
   and each under the columns that its table has at its place, however lines, batches and
   files fall, in whichever order the threads send, and wherever a panic, a lost file or
   a lost receiver cuts the export short. *)
THEOREM SentFromDump == Spec => []SentIsDumped
<1>1. ExportInv => SentIsDumped
  <2> SUFFICES ASSUME ExportInv, Ordinary, failures = 0 \/ CreatedOnce PROVE sent \sqsubseteq Dumped
    BY DEF SentIsDumped
  <2>1. PICK k, r, b, e, place, done : ExportAt(k, r, b, e, place, done)
    BY DEF ExportInv, Counted
  <2>2. done \in SUBSET RowsToSend /\ sent = RecordsOf(done)
    BY <2>1 DEF ExportAt, SentAt
  <2>3. IsFiniteSet(RowsToSend)
    BY RowsAreFinite DEF ExportInv
  <2> QED BY <2>2, <2>3, FewerRecords DEF Dumped
<1> QED BY <1>1, ExportInit, ExportInductive, PTL DEF Spec

(* read returns without a failure only when all rows of tables that are created before
   are sent, provided that every key has a channel. *)
THEOREM NoRowLeftOut == ASSUME Routed PROVE Spec => []AllRowsSent
<1>1. ExportInv => AllRowsSent
  <2> SUFFICES ASSUME ExportInv, status = "done", failures = 0, Ordinary PROVE sent = Dumped
    BY DEF AllRowsSent
  <2>1. PICK k, r, b, e, place, done : ExportAt(k, r, b, e, place, done)
    BY DEF ExportInv, Counted
  <2>2. k = Len(dump) /\ b = k /\ Handled(b, e) = b
    BY <2>1 DEF ExportAt, ReadAt, BatchAt, Handled
  <2>3. tasks = {}
    BY DEF ExportInv, TypeInv, LimitsInv, TasksBounded
  <2>4. /\ done \subseteq RowsToSend /\ sent = RecordsOf(done)
        /\ \A p \in RowsToSend : p[1] <= Len(dump) => p \in done
    BY <2>1, <2>2, <2>3 DEF ExportAt, SentAt
  <2>5. \A p \in RowsToSend : p[1] <= Len(dump)
    BY RowsToSendAt, AllLinesType DEF ExportInv
  <2>6. done = RowsToSend
    BY <2>4, <2>5
  <2> QED BY <2>4, <2>6 DEF Dumped
<1> QED BY <1>1, ExportInit, ExportInductive, PTL DEF Spec

=============================================================================
