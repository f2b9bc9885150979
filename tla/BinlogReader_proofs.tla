------------------------- MODULE BinlogReader_proofs -------------------------
(***************************************************************************)
(* Proofs about BinlogReader, for every set of tables and of included ones,*)
(* every number of binlog files, events, ALTERs and kills, and any         *)
(* interleaving of the server with the reader.                             *)
(***************************************************************************)
EXTENDS BinlogReader, SequenceTheorems, TLAPS

(* What a binlog file is made of. *)
Events == [kind : {"map", "rows"}, id : Nat \ {0}, table : Tables, version : Nat \ {0}]

-----------------------------------------------------------------------------
(* The server's files only grow, and only at the end. *)

TableId(t) == IF id[t] = 0 THEN nextId ELSE id[t]

NewEvent(t, kind) == [kind |-> kind, id |-> TableId(t), table |-> t, version |-> version[t]]

(* Two more events in the last file, the table map first. *)
LEMMA CommitAddsTwo ==
  ASSUME TypeOK, NEW t \in Tables, CommitRows(t)
  PROVE  LET n == Len(files[Last]) IN
         /\ files' \in Seq(Seq(Events))
         /\ Len(files') = Last
         /\ \A f \in 1 .. Last - 1 : files'[f] = files[f]
         /\ Len(files'[Last]) = n + 2
         /\ \A p \in 1 .. n : files'[Last][p] = files[Last][p]
         /\ files'[Last][n + 1] = NewEvent(t, "map")
         /\ files'[Last][n + 2] = NewEvent(t, "rows")
<1> DEFINE q == files[Last]
           new == <<NewEvent(t, "map"), NewEvent(t, "rows")>>
<1>1. files \in Seq(Seq(Events)) /\ Last \in Nat \ {0}
  <2>1. files \in Seq(Seq(Events)) /\ 1 .. Last # {}
    BY DEF TypeOK, Events
  <2> QED BY <2>1 DEF Last
<1>2. q \in Seq(Events)
  BY <1>1, ElementOfSeq DEF Last
<1>3. NewEvent(t, "map") \in Events /\ NewEvent(t, "rows") \in Events
  BY DEF TypeOK, NewEvent, TableId, Events
<1>4. new \in Seq(Events) /\ Len(new) = 2
      /\ new[1] = NewEvent(t, "map") /\ new[2] = NewEvent(t, "rows")
  BY <1>3
<1>5. files' = [files EXCEPT ![Last] = q \o new]
  BY DEF CommitRows, NewEvent, TableId
<1> HIDE DEF q, new
<1>6. /\ q \o new \in Seq(Events)
      /\ Len(q \o new) = Len(q) + 2
      /\ \A i \in 1 .. Len(q) + 2 :
           (q \o new)[i] = IF i <= Len(q) THEN q[i] ELSE new[i - Len(q)]
  <2>1. /\ q \o new \in Seq(Events)
        /\ Len(q \o new) = Len(q) + Len(new)
        /\ \A i \in 1 .. Len(q) + Len(new) :
             (q \o new)[i] = IF i <= Len(q) THEN q[i] ELSE new[i - Len(q)]
    BY <1>2, <1>4, ConcatProperties
  <2> QED BY <1>4, <2>1
<1>7. /\ files' \in Seq(Seq(Events))
      /\ Len(files') = Last
      /\ \A f \in 1 .. Last : files'[f] = IF f = Last THEN q \o new ELSE files[f]
  BY <1>1, <1>5, <1>6, ExceptSeq DEF Last
<1>8. Len(q) \in Nat
  BY <1>2
<1>9. files'[Last] = q \o new
  <2>1. Last \in 1 .. Last
    BY <1>1
  <2> QED BY <1>7, <2>1
<1>10. \A p \in 1 .. Len(q) : files'[Last][p] = q[p]
  BY <1>6, <1>8, <1>9
<1>11. /\ files'[Last][Len(q) + 1] = new[1]
       /\ files'[Last][Len(q) + 2] = new[2]
  BY <1>6, <1>8, <1>9
<1> QED BY <1>1, <1>4, <1>6, <1>7, <1>9, <1>10, <1>11 DEF q

(* A new, empty file behind the others. *)
LEMMA NewFileIsEmpty ==
  ASSUME TypeOK, files' = Append(files, <<>>)
  PROVE  /\ files' \in Seq(Seq(Events))
         /\ Len(files') = Last + 1
         /\ \A f \in 1 .. Last : files'[f] = files[f]
         /\ files'[Last + 1] = <<>>
<1>1. files \in Seq(Seq(Events)) /\ <<>> \in Seq(Events)
  BY DEF TypeOK, Events
<1> QED BY <1>1, AppendProperties DEF Last

(* Whatever happens, no event changes, and only the last file gets new ones. *)
LEMMA FilesGrow ==
  ASSUME TypeOK, [Next]_vars
  PROVE  /\ files' \in Seq(Seq(Events))
         /\ Last \in Nat \ {0} /\ Last' \in Nat \ {0} /\ Last <= Last'
         /\ \A f \in 1 .. Last :
              /\ Len(files[f]) \in Nat /\ Len(files'[f]) \in Nat
              /\ DOMAIN files[f] = 1 .. Len(files[f])
              /\ DOMAIN files'[f] = 1 .. Len(files'[f])
              /\ Len(files[f]) <= Len(files'[f])
         /\ \A f \in 1 .. Last : \A p \in 1 .. Len(files[f]) : files'[f][p] = files[f][p]
         /\ \A f \in 1 .. Last : f < Last => files'[f] = files[f]
<1>1. files \in Seq(Seq(Events)) /\ Last \in Nat \ {0}
  <2>1. files \in Seq(Seq(Events)) /\ 1 .. Last # {}
    BY DEF TypeOK, Events
  <2> QED BY <2>1 DEF Last
<1>6. \A f \in 1 .. Last : Len(files[f]) \in Nat /\ DOMAIN files[f] = 1 .. Len(files[f])
  BY <1>1, ElementOfSeq, LenProperties DEF Last
<1>2. CASE UNCHANGED files
  <2>1. files' \in Seq(Seq(Events)) /\ Last' = Last
        /\ \A f \in 1 .. Last : files'[f] = files[f]
    BY <1>1, <1>2 DEF Last
  <2> QED BY <1>1, <1>6, <2>1
<1>3. CASE files' = Append(files, <<>>)
  <2>1. /\ files' \in Seq(Seq(Events))
        /\ Last' = Last + 1
        /\ \A f \in 1 .. Last : files'[f] = files[f]
    BY <1>3, NewFileIsEmpty DEF Last
  <2> QED BY <1>1, <1>6, <2>1
<1>4. CASE \E t \in Tables : CommitRows(t)
  <2>1. /\ files' \in Seq(Seq(Events)) /\ Last' = Last
        /\ \A f \in 1 .. Last - 1 : files'[f] = files[f]
        /\ Len(files'[Last]) = Len(files[Last]) + 2
        /\ \A p \in 1 .. Len(files[Last]) : files'[Last][p] = files[Last][p]
    BY <1>4, CommitAddsTwo DEF Last
  <2>2. \A f \in 1 .. Last : Len(files'[f]) \in Nat /\ DOMAIN files'[f] = 1 .. Len(files'[f])
    BY <1>1, <2>1, ElementOfSeq, LenProperties DEF Last
  <2>3. \A f \in 1 .. Last : f # Last => f \in 1 .. Last - 1
    BY <1>1
  <2>4. \A f \in 1 .. Last : f < Last => files'[f] = files[f]
    BY <1>1, <2>1, <2>3
  <2>5. \A f \in 1 .. Last : Len(files[f]) <= Len(files'[f])
    BY <1>1, <1>6, <2>1, <2>3
  <2>6. \A f \in 1 .. Last : \A p \in 1 .. Len(files[f]) : files'[f][p] = files[f][p]
    BY <2>1, <2>3
  <2> QED BY <1>1, <1>6, <2>1, <2>2, <2>4, <2>5, <2>6
<1>5. \/ UNCHANGED files
      \/ files' = Append(files, <<>>)
      \/ \E t \in Tables : CommitRows(t)
  BY DEF Next, Server, AlterTable, RotateFile, RestartServer, StartReading, ReadRotate,
         ReadTableMap, ReadRows, ReadError, Deliver, Kill, vars, server
<1> QED BY <1>2, <1>3, <1>4, <1>5

(* An event stays where it is. *)
LEMMA EventsStay ==
  ASSUME TypeOK, [Next]_vars, NEW f \in 1 .. Last, NEW p \in 1 .. Len(files[f])
  PROVE  /\ f \in 1 .. Last'
         /\ p \in 1 .. Len(files'[f])
         /\ files'[f][p] = files[f][p]
<1>1. Last \in Nat /\ Last' \in Nat /\ Last <= Last'
  BY FilesGrow
<1>2. Len(files[f]) \in Nat /\ Len(files'[f]) \in Nat /\ Len(files[f]) <= Len(files'[f])
  BY FilesGrow
<1>3. files'[f][p] = files[f][p]
  BY FilesGrow
<1> QED BY <1>1, <1>2, <1>3

-----------------------------------------------------------------------------
(* Types. *)

(* The configured file exists from the start on: what load() leads to lies in
   the server's files. *)
TypeInv == TypeOK /\ StartFile <= Last

(* The reader starts with the types of TypeOK. *)
LEMMA TypeInit == Init => TypeInv
<1> SUFFICES ASSUME Init PROVE TypeInv
  OBVIOUS
<1> USE ReaderAssumption
<1>1. StartFile \in Nat \ {0}
  OBVIOUS
<1>2. <<>> \in Seq(Events)
  OBVIOUS
<1>3. files \in Seq(Seq(Events)) /\ Len(files) = StartFile
  <2>1. files \in [1 .. StartFile -> Seq(Events)]
    BY <1>2 DEF Init
  <2>2. files \in Seq(Seq(Events))
    BY <1>1, <2>1, SeqDef
  <2>3. DOMAIN files = 1 .. StartFile
    BY DEF Init
  <2> QED BY <1>1, <2>2, <2>3, LenProperties
<1>4. files \in Seq(Seq([kind : {"map", "rows"}, id : Nat \ {0}, table : Tables,
                         version : Nat \ {0}]))
  BY <1>3 DEF Events
<1>5. DOMAIN cache = {}
  BY DEF Init
<1>6. /\ stream \in [file : 1 .. Last, pos : Nat, announced : BOOLEAN, limit : Nat]
      /\ current \in EmptyName .. Last
      /\ saved \in NoSavepoint .. Last
  BY <1>1, <1>3 DEF Init, Last, EmptyName, NoSavepoint
<1>7. /\ id \in [Tables -> Nat] /\ nextId \in Nat \ {0} /\ version \in [Tables -> Nat \ {0}]
      /\ kills \in Nat
  BY DEF Init
<1>8. unreadable \in BOOLEAN
  BY DEF Init
<1>9. /\ forwarded \subseteq Row /\ flight \subseteq forwarded /\ delivered \subseteq forwarded
      /\ failed \subseteq (1 .. Last) \X (Nat \ {0})
      /\ skipped \subseteq (1 .. Last) \X (Nat \ {0})
      /\ \A k \in DOMAIN cache : cache[k] \in Meta
      /\ DOMAIN cache \subseteq (EmptyName .. Last) \X Nat
      /\ status \in {"down", "reading", "stopped"}
  BY <1>5 DEF Init
<1>10. StartFile <= Last
  BY <1>1, <1>3 DEF Last
<1> QED BY <1>4, <1>6, <1>7, <1>8, <1>9, <1>10 DEF TypeInv, TypeOK

(* Where the reader starts lies in the server's files, whatever load() returns. *)
LEMMA ConnectionExists ==
  ASSUME TypeInv, NEW readable \in BOOLEAN
  PROVE  Connection(FileToRead(readable)) \in
           [file : 1 .. Last, pos : Nat, announced : BOOLEAN, limit : Nat]
<1>1. Last \in Nat \ {0} /\ StartFile \in 1 .. Last
  BY ReaderAssumption DEF TypeInv, TypeOK, Last
<1>2. FileToRead(readable) \in EmptyName .. Last
  BY <1>1 DEF TypeInv, TypeOK, FileToRead, NoSavepoint, EmptyName
<1>3. Len(files[Last]) \in Nat
  <2>1. files \in Seq(Seq(Events)) /\ Last \in 1 .. Last
    BY <1>1 DEF TypeInv, TypeOK, Events
  <2> QED BY <2>1, ElementOfSeq, LenProperties DEF Last
<1> QED BY <1>1, <1>2, <1>3, ReaderAssumption DEF Connection, EmptyName

(* The event in front of the reader is one of its file. *)
LEMMA EventInFile ==
  ASSUME TypeOK, AtEvent
  PROVE  /\ Event \in Events
         /\ stream.file \in 1 .. Last
         /\ stream.pos \in Nat
         /\ stream.pos + 1 \in 1 .. Len(files[stream.file])
<1>1. files \in Seq(Seq(Events)) /\ stream.file \in 1 .. Last /\ stream.pos \in Nat
  BY DEF TypeOK, Events
<1>2. files[stream.file] \in Seq(Events)
  BY <1>1, ElementOfSeq DEF Last
<1>3. stream.pos + 1 \in 1 .. Len(files[stream.file])
  BY <1>1, <1>2, LenProperties DEF AtEvent
<1> QED BY <1>1, <1>2, <1>3, ElementOfSeq DEF Event

(* What a start may skip are events of the binlog. *)
LEMMA UnforwardedExist ==
  ASSUME TypeOK PROVE Unforwarded \subseteq (1 .. Last) \X (Nat \ {0})
<1>1. files \in Seq(Seq(Events))
  BY DEF TypeOK, Events
<1>2. \A f \in 1 .. Last : DOMAIN files[f] \subseteq Nat \ {0}
  BY <1>1, ElementOfSeq, LenProperties DEF Last
<1>3. Positions \subseteq (1 .. Last) \X (Nat \ {0})
  BY <1>2 DEF Positions
<1> QED BY <1>3 DEF Unforwarded

(* The server's steps keep the types. *)
LEMMA TypeServer == ASSUME TypeInv, Server PROVE TypeInv'
<1> USE DEF TypeInv
<1>1. /\ Last \in Nat \ {0} /\ Last' \in Nat \ {0} /\ Last <= Last'
      /\ files' \in Seq(Seq([kind : {"map", "rows"}, id : Nat \ {0}, table : Tables,
                             version : Nat \ {0}]))
  BY FilesGrow DEF Next, Events
<1>2. /\ 1 .. Last \subseteq 1 .. Last' /\ EmptyName .. Last \subseteq EmptyName .. Last'
      /\ NoSavepoint .. Last \subseteq NoSavepoint .. Last' /\ StartFile <= Last'
  BY <1>1, ReaderAssumption DEF EmptyName, NoSavepoint
<1>3. Row \subseteq Row'
  BY <1>2 DEF Row, Meta
<1>4. UNCHANGED <<status, current, cache, saved, flight, delivered, forwarded, failed,
                  unreadable, skipped, kills>>
  BY DEF Server, CommitRows, AlterTable, RotateFile, RestartServer, rows
<1>5. /\ id' \in [Tables -> Nat] /\ nextId' \in Nat \ {0}
      /\ version' \in [Tables -> Nat \ {0}]
  <2>1. CASE \E t \in Tables : CommitRows(t)
    BY <2>1 DEF CommitRows, TypeOK
  <2>2. CASE \E t \in Tables : AlterTable(t)
    BY <2>2 DEF AlterTable, TypeOK
  <2>3. CASE RotateFile
    BY <2>3 DEF RotateFile, TypeOK
  <2>4. CASE RestartServer
    BY <2>4 DEF RestartServer, TypeOK
  <2> QED BY <2>1, <2>2, <2>3, <2>4 DEF Server
<1>6. stream' \in [file : 1 .. Last', pos : Nat, announced : BOOLEAN, limit : Nat]
  BY <1>1, <1>2 DEF Server, CommitRows, AlterTable, RotateFile, RestartServer, TypeOK
<1>7. /\ current' \in EmptyName .. Last' /\ DOMAIN cache' \subseteq (EmptyName .. Last') \X Nat
      /\ \A k \in DOMAIN cache' : cache'[k] \in Meta
      /\ saved' \in NoSavepoint .. Last' /\ failed' \subseteq (1 .. Last') \X (Nat \ {0})
      /\ unreadable' \in BOOLEAN /\ skipped' \subseteq (1 .. Last') \X (Nat \ {0})
  <2>1. (EmptyName .. Last) \X Nat \subseteq (EmptyName .. Last') \X Nat
        /\ (1 .. Last) \X (Nat \ {0}) \subseteq (1 .. Last') \X (Nat \ {0})
    BY <1>2
  <2> QED BY <1>2, <1>4, <2>1 DEF TypeOK
<1>8. forwarded' \subseteq Row' /\ flight' \subseteq forwarded' /\ delivered' \subseteq forwarded'
      /\ kills' \in Nat /\ status' \in {"down", "reading", "stopped"}
  BY <1>3, <1>4 DEF TypeOK
<1> QED BY <1>1, <1>2, <1>5, <1>6, <1>7, <1>8 DEF TypeOK, Meta

(* The reader's steps keep the types. *)
LEMMA TypeReader ==
  ASSUME TypeInv, \/ StartReading \/ ReadRotate \/ ReadTableMap \/ ReadRows \/ ReadError
                  \/ (\E row \in flight : Deliver(row)) \/ Kill \/ UNCHANGED vars
  PROVE  TypeInv'
<1>1. UNCHANGED server
  BY DEF StartReading, ReadRotate, ReadTableMap, ReadRows, ReadError, Deliver, Kill, vars, server
<1>2. Last' = Last /\ Row' = Row
  BY <1>1 DEF server, Last, Row, Meta
<1>3. Last \in Nat
  BY DEF Last, TypeInv, TypeOK
<1> USE <1>1, <1>2 DEF TypeInv
<1>4. CASE StartReading
  <2>1. stream' \in [file : 1 .. Last, pos : Nat, announced : BOOLEAN, limit : Nat]
    BY <1>4, ConnectionExists DEF StartReading
  <2>2. current' \in EmptyName .. Last /\ DOMAIN cache' = {}
    BY <1>3, <1>4 DEF StartReading, EmptyName
  <2>3. unreadable' \in BOOLEAN
    BY <1>4 DEF StartReading
  <2>4. skipped' \subseteq (1 .. Last) \X (Nat \ {0})
    <3>1. skipped \subseteq (1 .. Last) \X (Nat \ {0})
      BY DEF TypeOK
    <3>2. skipped' \subseteq skipped \cup Unforwarded
      BY <1>4 DEF StartReading
    <3> QED BY <3>1, <3>2, UnforwardedExist DEF TypeInv
  <2> QED BY <1>4, <2>1, <2>2, <2>3, <2>4 DEF StartReading, TypeOK, server, rows, Meta
<1>5. CASE ReadRotate
  <2>1. FileAnnounced \in 1 .. Last
    BY <1>3, <1>5 DEF ReadRotate, AtRotate, FileAnnounced, TypeOK
  <2>2. current' \in EmptyName .. Last /\ saved' \in NoSavepoint .. Last
    BY <1>3, <1>5, <2>1 DEF ReadRotate, FileSaved, TypeOK, EmptyName, NoSavepoint
  <2>3. stream' \in [file : 1 .. Last, pos : Nat, announced : BOOLEAN, limit : Nat]
    BY <1>3, <1>5, <2>1 DEF ReadRotate, FileAnnounced, TypeOK
  <2> QED BY <1>5, <2>2, <2>3 DEF ReadRotate, TypeOK, server, rows, Meta
<1>6. CASE ReadTableMap
  <2>1. stream.file \in 1 .. Last /\ stream.pos + 1 \in Nat \ {0} /\ Event \in Events
    BY <1>6, EventInFile DEF ReadTableMap
  <2>2. stream' \in [file : 1 .. Last, pos : Nat, announced : BOOLEAN, limit : Nat]
    BY <1>6, <2>1 DEF ReadTableMap, TypeOK
  <2>3. failed' \subseteq (1 .. Last) \X (Nat \ {0})
    BY <1>6, <2>1 DEF ReadTableMap, TypeOK
  <2>4. MetaKey(Event) \in (EmptyName .. Last) \X Nat /\ Described(Event) \in Meta
    BY <2>1 DEF TypeOK, MetaKey, Described, Meta, Events
  <2>5. /\ DOMAIN cache' \subseteq (EmptyName .. Last) \X Nat
        /\ \A k \in DOMAIN cache' : cache'[k] \in Meta
    <3>1. CASE UNCHANGED cache
      BY <3>1 DEF TypeOK
    <3>2. CASE cache' = Insert(MetaKey(Event), Described(Event))
      BY <2>4, <3>2 DEF TypeOK, Insert
    <3> QED BY <1>6, <3>1, <3>2 DEF ReadTableMap
  <2> QED BY <1>6, <2>2, <2>3, <2>5 DEF ReadTableMap, TypeOK, server, rows, Meta
<1>7. CASE ReadRows
  <2>1. stream.file \in 1 .. Last /\ stream.pos + 1 \in Nat \ {0}
    BY <1>7, EventInFile DEF ReadRows
  <2>2. stream' \in [file : 1 .. Last, pos : Nat, announced : BOOLEAN, limit : Nat]
    BY <1>7, <2>1 DEF ReadRows, TypeOK
  <2>3. /\ forwarded' \subseteq Row /\ flight' \subseteq forwarded'
        /\ delivered' \subseteq forwarded'
    BY <1>7, <2>1 DEF ReadRows, TypeOK, Row
  <2>4. unreadable' \in BOOLEAN
    BY <1>7 DEF ReadRows, TypeOK
  <2> QED BY <1>7, <2>2, <2>3, <2>4 DEF ReadRows, TypeOK, server, Meta
<1>8. CASE ReadError
  BY <1>8 DEF ReadError, TypeOK, server, rows, Meta
<1>9. CASE \E row \in flight : Deliver(row)
  BY <1>9 DEF Deliver, TypeOK, server, Meta
<1>10. CASE Kill
  <2>1. saved' \in NoSavepoint .. Last /\ kills' \in Nat
    BY <1>3, <1>10 DEF Kill, TypeOK, NoSavepoint, EmptyName
  <2>2. unreadable' \in BOOLEAN
    BY <1>10 DEF Kill, TypeOK
  <2> QED BY <1>10, <2>1, <2>2 DEF Kill, TypeOK, server, Meta
<1>11. CASE UNCHANGED vars
  <2>1. UNCHANGED <<files, id, nextId, version, status, stream, current, cache, saved, flight,
                    delivered, forwarded, failed, unreadable, skipped, kills>>
    BY <1>11 DEF vars, server, rows
  <2> QED BY <2>1 DEF TypeOK, Meta
<1> QED BY <1>4, <1>5, <1>6, <1>7, <1>8, <1>9, <1>10, <1>11

(* Every step keeps the types. *)
LEMMA TypeInductive == TypeInv /\ [Next]_vars => TypeInv'
BY TypeServer, TypeReader DEF Next

(* The types of TypeOK: what is read, cached, saved and forwarded lies in the
   server's files. *)
THEOREM TypeCorrect == Spec => []TypeOK
<1>1. TypeInv => TypeOK
  BY DEF TypeInv
<1> QED BY <1>1, TypeInit, TypeInductive, PTL DEF Spec

-----------------------------------------------------------------------------
(* A restart reads nothing before the savepoint. *)

(* A start reads from the savepoint, a rotation saves what is read next. *)
LEMMA SavepointInductive == TypeInv /\ ReadsFromSavepoint /\ [Next]_vars => ReadsFromSavepoint'
<1> SUFFICES ASSUME TypeInv, ReadsFromSavepoint, [Next]_vars PROVE ReadsFromSavepoint'
  OBVIOUS
<1>1. stream.file \in Nat /\ saved \in Int
  BY DEF TypeInv, TypeOK, NoSavepoint
<1>2. CASE StartReading
  <2>1. PICK readable \in BOOLEAN :
              /\ stream'.file = Connection(FileToRead(readable)).file
              /\ unreadable' = (saved # NoSavepoint /\ ~readable)
    BY <1>2 DEF StartReading
  <2>2. UNCHANGED saved
    BY <1>2 DEF StartReading
  <2>3. ~unreadable' => FileToRead(readable) = IF saved = NoSavepoint THEN StartFile ELSE saved
    BY <2>1 DEF FileToRead
  <2>4. ~unreadable' => stream'.file >= saved
    <3>1. Last \in Nat /\ StartFile \in Nat
      BY ReaderAssumption DEF TypeInv, TypeOK, Last
    <3> QED BY <1>1, <2>1, <2>3, <3>1 DEF Connection, NoSavepoint, EmptyName
  <2> QED BY <2>2, <2>4 DEF ReadsFromSavepoint
<1>3. CASE ReadRotate
  BY <1>1, <1>3 DEF ReadRotate, AtRotate, FileSaved, FileAnnounced, ReadsFromSavepoint,
                    EmptyName, TypeInv, TypeOK
<1>4. CASE Server
  BY <1>4 DEF Server, CommitRows, AlterTable, RotateFile, RestartServer, ReadsFromSavepoint,
              TypeInv, TypeOK
<1>5. CASE ReadTableMap \/ ReadRows
  BY <1>5 DEF ReadTableMap, ReadRows, ReadsFromSavepoint, TypeInv, TypeOK
<1>6. CASE ReadError \/ Kill \/ (\E row \in flight : Deliver(row)) \/ UNCHANGED vars
  BY <1>6 DEF ReadError, Kill, Deliver, vars, ReadsFromSavepoint
<1> QED BY <1>2, <1>3, <1>4, <1>5, <1>6 DEF Next

(* Unless its process could not read the savepoint, the reader is never behind
   it: a restart reads the saved file again and nothing before it. *)
THEOREM ReadingFromSavepoint == Spec => []ReadsFromSavepoint
<1>1. Init => ReadsFromSavepoint
  BY DEF Init, ReadsFromSavepoint
<1> QED BY <1>1, TypeInit, TypeInductive, SavepointInductive, PTL DEF Spec

-----------------------------------------------------------------------------
(* Rows are decoded by their own table. *)

(* Within one file, a table id stands for one table and one schema of it. *)
SameIdSameTable ==
  \A f \in 1 .. Last : \A p, q \in 1 .. Len(files[f]) :
    files[f][p].id = files[f][q].id =>
      files[f][p].table = files[f][q].table /\ files[f][p].version = files[f][q].version

(* An id that is open now stands for its table in the last file too. *)
OpenIds ==
  /\ \A t \in Tables : id[t] < nextId
  /\ \A t, u \in Tables : id[t] = id[u] /\ id[t] # 0 => t = u
  /\ \A q \in 1 .. Len(files[Last]) :
       /\ files[Last][q].id < nextId
       /\ \A t \in Tables : id[t] = files[Last][q].id =>
            files[Last][q].table = t /\ files[Last][q].version = version[t]

(* No event is newer than its table. *)
NoEventAhead ==
  \A f \in 1 .. Last : \A p \in 1 .. Len(files[f]) :
    files[f][p].version <= version[files[f][p].table]

(* Once the file was announced, it is the one the cache is asked for. *)
CurrentIsRead == stream.announced => current = stream.file

(* Metadata stems from an event of its file with its id. *)
CacheFromEvents ==
  \A k \in DOMAIN cache :
    /\ k[1] \in 1 .. Last
    /\ cache[k].table \in Included
    /\ \E q \in 1 .. Len(files[k[1]]) :
         /\ files[k[1]][q].id = k[2]
         /\ files[k[1]][q].table = cache[k].table
         /\ files[k[1]][q].version <= cache[k].version

RowsDecoded ==
  \A row \in forwarded :
    /\ row.pos \in 1 .. Len(files[row.file])
    /\ files[row.file][row.pos].kind = "rows"
    /\ files[row.file][row.pos].table \in Included
    /\ row.meta.table = files[row.file][row.pos].table
    /\ row.meta.version >= files[row.file][row.pos].version

DecodedInv ==
  /\ TypeInv
  /\ SameIdSameTable
  /\ OpenIds
  /\ NoEventAhead
  /\ CurrentIsRead
  /\ CacheFromEvents
  /\ RowsDecoded

-----------------------------------------------------------------------------
(* No row is passed over. *)

(* A rows event stands behind the table map of its transaction. *)
RowsBehindMap ==
  \A f \in 1 .. Last : \A p \in 1 .. Len(files[f]) :
    files[f][p].kind = "rows" =>
      /\ p > 1
      /\ files[f][p - 1].kind = "map"
      /\ files[f][p - 1].id = files[f][p].id
      /\ files[f][p - 1].table = files[f][p].table

(* No file ends between a table map and its rows. *)
MapBeforeRows ==
  \A f \in 1 .. Last : \A p \in 1 .. Len(files[f]) :
    files[f][p].kind = "map" => p < Len(files[f])

(* The reader starts between two transactions: with the first event of a file,
   or at the end of the last one. *)
FromTransaction ==
  /\ stream.pos <= Len(files[stream.file])
  /\ ~stream.announced /\ stream.pos > 0 => files[stream.file][stream.pos].kind # "map"

(* What becomes of an included table map when it has been read. *)
MapTaken ==
  status = "reading" /\ stream.announced /\ stream.pos > 0 =>
    LET e == files[stream.file][stream.pos] IN
      e.kind = "map" /\ e.table \in Included =>
        <<stream.file, e.id>> \in DOMAIN cache \/ <<stream.file, stream.pos>> \in failed

(* The p-th event of file f has been dealt with. *)
Settled(f, p) ==
  files[f][p].kind = "rows" /\ files[f][p].table \in Included =>
    \/ \E row \in forwarded : row.file = f /\ row.pos = p
    \/ HasDescFailed(f, p)
    \/ <<f, p>> \in skipped

(* Nothing is left in the files before the savepoint and before the reader. *)
SavedSettled ==
  \A f \in StartFile .. Last : f < saved => \A p \in 1 .. Len(files[f]) : Settled(f, p)

PassedSettled ==
  status = "reading" =>
    \A f \in StartFile .. Last : \A p \in 1 .. Len(files[f]) :
      f < stream.file \/ (f = stream.file /\ p <= stream.pos) => Settled(f, p)

PassedInv ==
  /\ DecodedInv
  /\ RowsBehindMap
  /\ MapBeforeRows
  /\ FromTransaction
  /\ MapTaken
  /\ SavedSettled
  /\ PassedSettled

-----------------------------------------------------------------------------
(* The steps of the process, which leave the server alone. *)

Reader ==
  \/ StartReading \/ ReadRotate \/ ReadTableMap \/ ReadRows \/ ReadError
  \/ \E row \in flight : Deliver(row)
  \/ Kill

(* Each step is the server's or the process's. *)
LEMMA ServerOrReader ==
  /\ Next <=> Server \/ Reader
  /\ Reader \/ UNCHANGED vars => UNCHANGED server
<1>1. Next <=> Server \/ Reader
  BY DEF Next, Reader
<1>2. Reader \/ UNCHANGED vars => UNCHANGED server
  BY DEF Reader, StartReading, ReadRotate, ReadTableMap, ReadRows, ReadError, Deliver, Kill,
         vars, server
<1> QED BY <1>1, <1>2

(* The server's steps touch the reader's connection at most. *)
LEMMA ServerLeavesReader ==
  ASSUME Server
  PROVE  /\ UNCHANGED <<status, current, cache, saved, flight, delivered, forwarded, failed,
                         unreadable, skipped, kills>>
         /\ stream' = stream \/ stream' = [stream EXCEPT !.limit = IF @ < Last THEN @ ELSE Last]
BY DEF Server, CommitRows, AlterTable, RotateFile, RestartServer, rows

(* The events of a state are well formed. *)
LEMMA EventsTyped ==
  ASSUME TypeOK
  PROVE  /\ Last \in Nat \ {0}
         /\ \A f \in 1 .. Last : Len(files[f]) \in Nat
         /\ \A f \in 1 .. Last : \A p \in 1 .. Len(files[f]) : files[f][p] \in Events
<1>1. files \in Seq(Seq(Events)) /\ 1 .. Last # {}
  BY DEF TypeOK, Events
<1>2. Last \in Nat \ {0}
  BY <1>1 DEF Last
<1>3. \A f \in 1 .. Last : files[f] \in Seq(Events)
  BY <1>1, ElementOfSeq DEF Last
<1>4. \A f \in 1 .. Last : Len(files[f]) \in Nat
  BY <1>3
<1>5. \A f \in 1 .. Last : \A p \in 1 .. Len(files[f]) : files[f][p] \in Events
  BY <1>3, ElementOfSeq
<1> QED BY <1>2, <1>4, <1>5

(* The two events that a commit adds at the end of the last file. *)
IsNew(t, f, p) ==
  /\ CommitRows(t)
  /\ f = Last /\ Last' = Last
  /\ \/ p = Len(files[Last]) + 1 /\ files'[f][p] = NewEvent(t, "map")
     \/ p = Len(files[Last]) + 2 /\ files'[f][p] = NewEvent(t, "rows")
  /\ files'[f][Len(files[Last]) + 1] = NewEvent(t, "map")

(* What the new event says. *)
LEMMA NewEventFields ==
  ASSUME NEW t, NEW f, NEW p, IsNew(t, f, p)
  PROVE  /\ f = Last /\ Last' = Last
         /\ files'[f][p].id = TableId(t)
         /\ files'[f][p].table = t
         /\ files'[f][p].version = version[t]
         /\ files'[f][Len(files[Last]) + 1].table = t
BY DEF IsNew, NewEvent

(* After a step of the server, an event was there before or is one of those. *)
LEMMA OldOrNewEvent ==
  ASSUME TypeOK, Server, NEW f \in 1 .. Last', NEW p \in 1 .. Len(files'[f])
  PROVE  \/ f \in 1 .. Last /\ p \in 1 .. Len(files[f]) /\ files'[f][p] = files[f][p]
         \/ \E t \in Tables : IsNew(t, f, p)
<1>1. CASE \E t \in Tables : CommitRows(t)
  <2>1. PICK t \in Tables : CommitRows(t)
    BY <1>1
  <2>2. Last' = Last /\ Last \in Nat /\ f \in 1 .. Last
    BY <2>1, CommitAddsTwo, EventsTyped DEF Last
  <2>3. CASE f # Last
    <3>1. files'[f] = files[f]
      BY <2>1, <2>2, <2>3, CommitAddsTwo
    <3> QED BY <2>2, <3>1
  <2>4. CASE f = Last
    <3>1. Len(files[Last]) \in Nat
      BY <2>2, EventsTyped
    <3>2. /\ Len(files'[Last]) = Len(files[Last]) + 2
          /\ \A i \in 1 .. Len(files[Last]) : files'[Last][i] = files[Last][i]
          /\ files'[Last][Len(files[Last]) + 1] = NewEvent(t, "map")
          /\ files'[Last][Len(files[Last]) + 2] = NewEvent(t, "rows")
      BY <2>1, CommitAddsTwo
    <3>3. \/ p \in 1 .. Len(files[Last]) \/ p = Len(files[Last]) + 1
          \/ p = Len(files[Last]) + 2
      BY <2>4, <3>1, <3>2
    <3> QED BY <2>1, <2>2, <2>4, <3>2, <3>3 DEF IsNew
  <2> QED BY <2>3, <2>4
<1>2. CASE files' = Append(files, <<>>)
  <2>1. Last' = Last + 1 /\ Last \in Nat /\ files'[Last + 1] = <<>>
        /\ \A g \in 1 .. Last : files'[g] = files[g]
    BY <1>2, NewFileIsEmpty, EventsTyped DEF Last
  <2>2. f # Last + 1
    BY <2>1
  <2> QED BY <2>1, <2>2
<1>3. CASE UNCHANGED files
  BY <1>3 DEF Last
<1> QED BY <1>1, <1>2, <1>3 DEF Server, AlterTable, RotateFile, RestartServer

-----------------------------------------------------------------------------
(* Table ids. *)

(* The id a commit uses stands for no other table in the last file. *)
LEMMA IdOfLastFile ==
  ASSUME TypeOK, OpenIds, NEW t \in Tables, NEW q \in 1 .. Len(files[Last]),
         files[Last][q].id = TableId(t)
  PROVE  files[Last][q].table = t /\ files[Last][q].version = version[t]
<1>1. files[Last][q] \in Events
  BY EventsTyped
<1>2. files[Last][q].id \in Nat /\ nextId \in Nat /\ files[Last][q].id < nextId
  BY <1>1 DEF Events, TypeOK, OpenIds
<1>3. id[t] # 0 /\ id[t] = files[Last][q].id
  BY <1>2 DEF TableId
<1> QED BY <1>3 DEF OpenIds

(* A commit does not give an id of its file to a second table or schema. *)
LEMMA SameIdInductive ==
  ASSUME TypeInv, OpenIds, SameIdSameTable, [Next]_vars PROVE SameIdSameTable'
<1> USE DEF TypeInv
<1>1. CASE Server
  <2> SUFFICES ASSUME NEW f \in 1 .. Last', NEW p \in 1 .. Len(files'[f]),
                      NEW q \in 1 .. Len(files'[f]), files'[f][p].id = files'[f][q].id
               PROVE  /\ files'[f][p].table = files'[f][q].table
                      /\ files'[f][p].version = files'[f][q].version
    BY DEF SameIdSameTable
  <2> DEFINE Old(i) == f \in 1 .. Last /\ i \in 1 .. Len(files[f]) /\ files'[f][i] = files[f][i]
  <2>1. \A i \in 1 .. Len(files'[f]) : Old(i) \/ \E t \in Tables : IsNew(t, f, i)
    BY <1>1, OldOrNewEvent
  <2>2. ASSUME NEW i \in 1 .. Len(files'[f]), NEW j \in 1 .. Len(files'[f]),
               Old(i), NEW t \in Tables, IsNew(t, f, j), files'[f][i].id = files'[f][j].id
        PROVE  /\ files'[f][i].table = files'[f][j].table
               /\ files'[f][i].version = files'[f][j].version
    BY <2>2, IdOfLastFile, NewEventFields
  <2>3. CASE Old(p) /\ Old(q)
    BY <2>3 DEF SameIdSameTable
  <2>4. ASSUME NEW t \in Tables, IsNew(t, f, p), NEW u \in Tables, IsNew(u, f, q)
        PROVE  /\ files'[f][p].table = files'[f][q].table
               /\ files'[f][p].version = files'[f][q].version
    <3>1. t = u
      BY <2>4, NewEventFields
    <3> QED BY <2>4, <3>1, NewEventFields
  <2> HIDE DEF Old
  <2> QED BY <2>1, <2>2, <2>3, <2>4
<1>2. CASE UNCHANGED server
  BY <1>2 DEF server, SameIdSameTable, Last
<1> QED BY <1>1, <1>2, ServerOrReader

(* An ALTER takes the id away, a restart of the server all of them. *)
LEMMA OpenIdsInductive ==
  ASSUME TypeInv, OpenIds, [Next]_vars PROVE OpenIds'
<1> USE DEF TypeInv
<1>1. /\ nextId \in Nat \ {0} /\ id \in [Tables -> Nat] /\ version \in [Tables -> Nat \ {0}]
      /\ Last \in Nat \ {0} /\ \A q \in 1 .. Len(files[Last]) : files[Last][q] \in Events
  <2>1. nextId \in Nat \ {0} /\ id \in [Tables -> Nat] /\ version \in [Tables -> Nat \ {0}]
    BY DEF TypeOK
  <2>2. Last \in Nat \ {0} /\ Last \in 1 .. Last
    BY EventsTyped
  <2>3. \A q \in 1 .. Len(files[Last]) : files[Last][q] \in Events
    BY <2>2, EventsTyped
  <2> QED BY <2>1, <2>2, <2>3
<1>2. CASE \E t \in Tables : CommitRows(t)
  <2>1. PICK t \in Tables : CommitRows(t)
    BY <1>2
  <2>2. /\ id' = [id EXCEPT ![t] = TableId(t)] /\ UNCHANGED version
        /\ nextId' = IF id[t] = 0 THEN nextId + 1 ELSE nextId
    BY <2>1 DEF CommitRows, TableId
  <2>3. Last' = Last
    BY <2>1, CommitAddsTwo DEF Last
  <2>4. \A u \in Tables : id'[u] < nextId'
    BY <1>1, <2>2 DEF OpenIds, TableId
  <2>5. \A u, w \in Tables : id'[u] = id'[w] /\ id'[u] # 0 => u = w
    BY <1>1, <2>2 DEF OpenIds, TableId
  <2>6. ASSUME NEW q \in 1 .. Len(files'[Last])
        PROVE  /\ files'[Last][q].id < nextId'
               /\ \A u \in Tables : id'[u] = files'[Last][q].id =>
                    files'[Last][q].table = u /\ files'[Last][q].version = version'[u]
    <3>1. CASE q \in 1 .. Len(files[Last]) /\ files'[Last][q] = files[Last][q]
      <4>1. files[Last][q].id \in Nat \ {0} /\ files[Last][q].id < nextId
        BY <1>1, <3>1 DEF OpenIds, Events
      <4>2. files'[Last][q].id < nextId'
        BY <1>1, <2>2, <3>1, <4>1
      <4>3. ASSUME NEW u \in Tables, id'[u] = files'[Last][q].id
            PROVE  files'[Last][q].table = u /\ files'[Last][q].version = version'[u]
        <5>1. CASE u = t
          BY <1>1, <2>2, <3>1, <4>3, <5>1, IdOfLastFile
        <5>2. CASE u # t
          BY <1>1, <2>2, <3>1, <4>3, <5>2 DEF OpenIds
        <5> QED BY <5>1, <5>2
      <4> QED BY <4>2, <4>3
    <3>2. ASSUME NEW v \in Tables, IsNew(v, Last, q)
          PROVE  /\ files'[Last][q].id < nextId'
                 /\ \A u \in Tables : id'[u] = files'[Last][q].id =>
                      files'[Last][q].table = u /\ files'[Last][q].version = version'[u]
      <4>1. v = t
        <5>1. files'[Last][Len(files[Last]) + 1] = NewEvent(t, "map")
          BY <2>1, CommitAddsTwo
        <5>2. files'[Last][Len(files[Last]) + 1].table = t
          BY <5>1 DEF NewEvent
        <5> QED BY <3>2, <5>2, NewEventFields
      <4>2. /\ files'[Last][q].id = TableId(t) /\ files'[Last][q].table = t
            /\ files'[Last][q].version = version[t]
        BY <3>2, <4>1, NewEventFields
      <4>3. \A u \in Tables : id'[u] = TableId(t) => u = t
        BY <1>1, <2>2 DEF OpenIds, TableId
      <4> QED BY <1>1, <2>2, <4>2, <4>3 DEF OpenIds, TableId
    <3>3. Last \in 1 .. Last'
      BY <1>1, <2>3
    <3> QED BY <2>1, <3>1, <3>2, <3>3, OldOrNewEvent DEF Server
  <2> QED BY <2>3, <2>4, <2>5, <2>6 DEF OpenIds
<1>3. CASE \E t \in Tables : AlterTable(t)
  <2>1. PICK t \in Tables : AlterTable(t)
    BY <1>3
  <2>2. /\ id' = [id EXCEPT ![t] = 0] /\ version' = [version EXCEPT ![t] = @ + 1]
        /\ UNCHANGED <<nextId, files>> /\ Last' = Last
    BY <2>1 DEF AlterTable, Last
  <2>3. \A u \in Tables : id'[u] < nextId'
    BY <1>1, <2>2 DEF OpenIds
  <2>4. \A u, w \in Tables : id'[u] = id'[w] /\ id'[u] # 0 => u = w
    BY <1>1, <2>2 DEF OpenIds
  <2>5. ASSUME NEW q \in 1 .. Len(files[Last])
        PROVE  /\ files[Last][q].id < nextId
               /\ \A u \in Tables : id'[u] = files[Last][q].id =>
                    files[Last][q].table = u /\ files[Last][q].version = version'[u]
    <3>1. files[Last][q].id # 0
      BY <1>1 DEF Events
    <3> QED BY <1>1, <2>2, <3>1 DEF OpenIds
  <2> QED BY <2>2, <2>3, <2>4, <2>5 DEF OpenIds
<1>4. CASE RotateFile \/ RestartServer
  <2>1. Last' = Last + 1 /\ files'[Last + 1] = <<>>
    BY <1>4, NewFileIsEmpty DEF RotateFile, RestartServer, Last
  <2>2. Len(files'[Last']) = 0
    BY <2>1
  <2>3. UNCHANGED <<id, nextId>> \/ (id' = [t \in Tables |-> 0] /\ nextId' = 1)
    BY <1>4 DEF RotateFile, RestartServer
  <2> QED BY <1>1, <2>2, <2>3 DEF OpenIds
<1>5. CASE UNCHANGED server
  BY <1>5 DEF server, OpenIds, Last
<1> QED BY <1>2, <1>3, <1>4, <1>5, ServerOrReader DEF Server

(* Versions only rise. *)
LEMMA NoEventAheadInductive ==
  ASSUME TypeInv, NoEventAhead, [Next]_vars PROVE NoEventAhead'
<1> USE DEF TypeInv
<1>1. version \in [Tables -> Nat \ {0}]
  BY DEF TypeOK
<1>2. CASE Server
  <2>1. version' \in [Tables -> Nat \ {0}] /\ \A t \in Tables : version[t] <= version'[t]
    <3>1. CASE \E t \in Tables : AlterTable(t)
      BY <1>1, <3>1 DEF AlterTable
    <3>2. CASE UNCHANGED version
      BY <1>1, <3>2
    <3> QED BY <1>2, <3>1, <3>2 DEF Server, CommitRows, RotateFile, RestartServer
  <2> SUFFICES ASSUME NEW f \in 1 .. Last', NEW p \in 1 .. Len(files'[f])
               PROVE  files'[f][p].version <= version'[files'[f][p].table]
    BY DEF NoEventAhead
  <2>2. CASE f \in 1 .. Last /\ p \in 1 .. Len(files[f]) /\ files'[f][p] = files[f][p]
    <3>1. files[f][p].version \in Nat /\ files[f][p].table \in Tables
      BY <2>2, EventsTyped DEF Events
    <3>2. files[f][p].version <= version[files[f][p].table]
      BY <2>2 DEF NoEventAhead
    <3> QED BY <1>1, <2>1, <2>2, <3>1, <3>2
  <2>3. ASSUME NEW t \in Tables, IsNew(t, f, p)
        PROVE  files'[f][p].version <= version'[files'[f][p].table]
    BY <1>1, <2>1, <2>3, NewEventFields
  <2> QED BY <1>2, <2>2, <2>3, OldOrNewEvent
<1>3. CASE UNCHANGED server
  BY <1>3 DEF server, NoEventAhead, Last
<1> QED BY <1>2, <1>3, ServerOrReader

-----------------------------------------------------------------------------
(* The cache and the rows. *)

(* A rotation that announces a file sets current_binlog to it. *)
LEMMA CurrentInductive ==
  ASSUME TypeInv, CurrentIsRead, [Next]_vars PROVE CurrentIsRead'
<1>1. stream \in [file : Nat, pos : Nat, announced : BOOLEAN, limit : Nat]
  BY DEF TypeInv, TypeOK
<1>2. CASE Server
  BY <1>1, <1>2, ServerLeavesReader DEF CurrentIsRead
<1>3. CASE StartReading
  BY <1>3 DEF StartReading, Connection, CurrentIsRead
<1>4. CASE ReadRotate
  BY <1>1, <1>4 DEF ReadRotate, FileAnnounced, CurrentIsRead
<1>5. CASE ReadTableMap \/ ReadRows
  BY <1>1, <1>5 DEF ReadTableMap, ReadRows, CurrentIsRead
<1>6. CASE ReadError \/ Kill \/ (\E row \in flight : Deliver(row)) \/ UNCHANGED vars
  BY <1>6 DEF ReadError, Kill, Deliver, vars, CurrentIsRead
<1> QED BY <1>2, <1>3, <1>4, <1>5, <1>6, ServerOrReader DEF Reader

(* Where the next event to read lies, and the key its metadata has. *)
LEMMA EventRead ==
  ASSUME TypeInv, CurrentIsRead, AtEvent
  PROVE  /\ stream.file \in 1 .. Last
         /\ stream.pos + 1 \in 1 .. Len(files[stream.file])
         /\ Event = files[stream.file][stream.pos + 1]
         /\ Event \in Events
         /\ MetaKey(Event) = <<stream.file, Event.id>>
<1>1. current = stream.file
  BY DEF AtEvent, CurrentIsRead
<1> QED BY <1>1, EventInFile DEF TypeInv, Event, MetaKey

(* What `desc` answers is about the event's own table, as it is now. *)
LEMMA CacheInductive ==
  ASSUME TypeInv, NoEventAhead, CurrentIsRead, CacheFromEvents, [Next]_vars
  PROVE  CacheFromEvents'
<1>1. CASE Server
  <2> SUFFICES ASSUME NEW k \in DOMAIN cache
               PROVE  /\ k[1] \in 1 .. Last'
                      /\ cache[k].table \in Included
                      /\ \E q \in 1 .. Len(files'[k[1]]) :
                           /\ files'[k[1]][q].id = k[2]
                           /\ files'[k[1]][q].table = cache[k].table
                           /\ files'[k[1]][q].version <= cache[k].version
    BY <1>1, ServerLeavesReader DEF CacheFromEvents
  <2>1. k[1] \in 1 .. Last /\ cache[k].table \in Included
    BY DEF CacheFromEvents
  <2>2. PICK q \in 1 .. Len(files[k[1]]) :
               /\ files[k[1]][q].id = k[2]
               /\ files[k[1]][q].table = cache[k].table
               /\ files[k[1]][q].version <= cache[k].version
    BY DEF CacheFromEvents
  <2>3. k[1] \in 1 .. Last' /\ q \in 1 .. Len(files'[k[1]]) /\ files'[k[1]][q] = files[k[1]][q]
    BY <2>1, <2>2, EventsStay DEF TypeInv
  <2> QED BY <2>1, <2>2, <2>3
<1>2. CASE StartReading
  BY <1>2 DEF StartReading, CacheFromEvents
<1>3. CASE ReadTableMap
  <2>1. /\ stream.file \in 1 .. Last /\ stream.pos + 1 \in 1 .. Len(files[stream.file])
        /\ Event = files[stream.file][stream.pos + 1] /\ Event \in Events
        /\ MetaKey(Event) = <<stream.file, Event.id>>
    BY <1>3, EventRead DEF ReadTableMap
  <2>2. UNCHANGED files /\ Last' = Last
    BY <1>3 DEF ReadTableMap, server, Last
  <2>3. CASE UNCHANGED cache
    BY <2>2, <2>3 DEF CacheFromEvents
  <2>4. CASE cache' = Insert(MetaKey(Event), Described(Event)) /\ ~Excluded(Event)
    <3>1. Described(Event).table = Event.table /\ Event.table \in Included
          /\ Described(Event).version >= Event.version
      <4>1. Event.version <= version[Event.table]
        BY <2>1 DEF NoEventAhead
      <4>2. Event.version \in Nat /\ version[Event.table] \in Nat
        BY <2>1 DEF Events, TypeInv, TypeOK
      <4> QED BY <2>4, <4>1, <4>2 DEF Described, Excluded
    <3>2. Event.version \in Nat /\ Described(Event).version \in Nat
      BY <2>1 DEF Events, TypeInv, TypeOK, Described
    <3> SUFFICES ASSUME NEW k \in DOMAIN cache'
                 PROVE  /\ k[1] \in 1 .. Last
                        /\ cache'[k].table \in Included
                        /\ \E q \in 1 .. Len(files[k[1]]) :
                             /\ files[k[1]][q].id = k[2]
                             /\ files[k[1]][q].table = cache'[k].table
                             /\ files[k[1]][q].version <= cache'[k].version
      BY <2>2 DEF CacheFromEvents
    <3>3. CASE k = MetaKey(Event)
      <4>1. cache'[k] = Described(Event)
        BY <2>4, <3>3 DEF Insert
      <4>2. k[1] = stream.file /\ k[2] = Event.id
        BY <2>1, <3>3
      <4>3. files[k[1]][stream.pos + 1].version <= cache'[k].version
        BY <2>1, <3>1, <3>2, <4>1, <4>2
      <4> QED BY <2>1, <3>1, <4>1, <4>2, <4>3
    <3>4. CASE k # MetaKey(Event)
      <4>1. k \in DOMAIN cache /\ cache'[k] = cache[k]
        BY <2>4, <3>4 DEF Insert
      <4> QED BY <4>1 DEF CacheFromEvents
    <3> QED BY <3>3, <3>4
  <2> QED BY <1>3, <2>3, <2>4 DEF ReadTableMap
<1>4. CASE UNCHANGED <<files, cache>>
  BY <1>4 DEF CacheFromEvents, Last
<1> QED BY <1>1, <1>2, <1>3, <1>4, ServerOrReader
        DEF Reader, ReadRotate, ReadRows, ReadError, Deliver, Kill, vars, server

(* A row is decoded with metadata that an event with its id brought. *)
LEMMA RowsInductive ==
  ASSUME TypeInv, SameIdSameTable, CurrentIsRead, CacheFromEvents, RowsDecoded, [Next]_vars
  PROVE  RowsDecoded'
<1>1. forwarded \subseteq Row
  BY DEF TypeInv, TypeOK
<1>2. CASE Server
  <2> SUFFICES ASSUME NEW row \in forwarded
               PROVE  /\ row.pos \in 1 .. Len(files'[row.file])
                      /\ files'[row.file][row.pos] = files[row.file][row.pos]
    BY <1>2, ServerLeavesReader DEF RowsDecoded
  <2>1. row.file \in 1 .. Last
    BY <1>1 DEF Row
  <2>2. row.pos \in 1 .. Len(files[row.file])
    BY DEF RowsDecoded
  <2> QED BY <2>1, <2>2, EventsStay DEF TypeInv
<1>3. CASE ReadRows
  <2>1. /\ stream.file \in 1 .. Last /\ stream.pos + 1 \in 1 .. Len(files[stream.file])
        /\ Event = files[stream.file][stream.pos + 1] /\ Event \in Events
        /\ MetaKey(Event) = <<stream.file, Event.id>>
    BY <1>3, EventRead DEF ReadRows
  <2>2. UNCHANGED files
    BY <1>3 DEF ReadRows, server
  <2>3. CASE UNCHANGED forwarded
    BY <2>2, <2>3 DEF RowsDecoded
  <2>4. CASE /\ MetaKey(Event) \in DOMAIN cache
             /\ forwarded' = forwarded \cup {[file |-> stream.file, pos |-> stream.pos + 1,
                                              meta |-> cache[MetaKey(Event)]]}
    <3> DEFINE meta == cache[MetaKey(Event)]
    <3>1. PICK q \in 1 .. Len(files[stream.file]) :
                 /\ files[stream.file][q].id = Event.id
                 /\ files[stream.file][q].table = meta.table
                 /\ files[stream.file][q].version <= meta.version
      BY <2>1, <2>4 DEF CacheFromEvents
    <3>2. meta.table \in Included
      BY <2>4 DEF CacheFromEvents
    <3>3. files[stream.file][q].table = Event.table /\ files[stream.file][q].version = Event.version
      BY <2>1, <3>1 DEF SameIdSameTable
    <3>4. Event.version \in Nat /\ meta.version \in Nat
      BY <2>1, <2>4 DEF Events, TypeInv, TypeOK, Meta
    <3>5. Event.kind = "rows"
      BY <1>3 DEF ReadRows
    <3>6. meta.version >= Event.version
      BY <3>1, <3>3, <3>4
    <3> SUFFICES ASSUME NEW row \in forwarded'
                 PROVE  /\ row.pos \in 1 .. Len(files[row.file])
                        /\ files[row.file][row.pos].kind = "rows"
                        /\ files[row.file][row.pos].table \in Included
                        /\ row.meta.table = files[row.file][row.pos].table
                        /\ row.meta.version >= files[row.file][row.pos].version
      BY <2>2 DEF RowsDecoded
    <3>7. CASE row \in forwarded
      BY <3>7 DEF RowsDecoded
    <3>8. CASE row = [file |-> stream.file, pos |-> stream.pos + 1, meta |-> meta]
      <4>1. row.file = stream.file /\ row.pos = stream.pos + 1 /\ row.meta = meta
        BY <3>8
      <4> HIDE DEF meta
      <4> QED BY <2>1, <3>1, <3>2, <3>3, <3>5, <3>6, <4>1
    <3> QED BY <2>4, <3>7, <3>8
  <2> QED BY <1>3, <2>3, <2>4 DEF ReadRows
<1>4. CASE UNCHANGED <<files, forwarded>>
  BY <1>4 DEF RowsDecoded
<1> QED BY <1>2, <1>3, <1>4, ServerOrReader
        DEF Reader, StartReading, ReadTableMap, ReadRotate, ReadError, Deliver, Kill, vars, server,
            rows

(* The initial state, which has no event, no metadata and no row. *)
LEMMA DecodedInit == Init => DecodedInv
<1> SUFFICES ASSUME Init PROVE DecodedInv
  OBVIOUS
<1>1. TypeInv
  BY TypeInit
<1>2. Last \in Nat \ {0} /\ \A f \in 1 .. Last : Len(files[f]) = 0
  <2>1. Last \in Nat \ {0} /\ DOMAIN files = 1 .. Last
    BY <1>1, EventsTyped, LenProperties DEF TypeInv, TypeOK, Last
  <2>2. \A f \in 1 .. Last : files[f] = <<>>
    BY <2>1 DEF Init
  <2> QED BY <2>1, <2>2
<1>3. SameIdSameTable /\ NoEventAhead
  BY <1>2 DEF SameIdSameTable, NoEventAhead
<1>4. OpenIds
  <2>1. Len(files[Last]) = 0
    BY <1>2
  <2> QED BY <2>1 DEF Init, OpenIds
<1>5. CurrentIsRead /\ CacheFromEvents /\ RowsDecoded
  BY DEF Init, CurrentIsRead, CacheFromEvents, RowsDecoded
<1> QED BY <1>1, <1>3, <1>4, <1>5 DEF DecodedInv

(* Every step keeps what the decoding of rows rests on. *)
LEMMA DecodedInductive == DecodedInv /\ [Next]_vars => DecodedInv'
BY TypeInductive, SameIdInductive, OpenIdsInductive, NoEventAheadInductive, CurrentInductive,
   CacheInductive, RowsInductive DEF DecodedInv

(* Every forwarded row is decoded with the metadata of its own, included table,
   in no older schema than its own, whatever the server does with table ids. *)
THEOREM RowsOfOwnTable == Spec => []DecodedByOwnTable
<1>1. DecodedInv => DecodedByOwnTable
  BY DEF DecodedInv, RowsDecoded, DecodedByOwnTable
<1> QED BY <1>1, DecodedInit, DecodedInductive, PTL DEF Spec

-----------------------------------------------------------------------------
(* What the reader has passed.  A configured position other than the start of
   a file makes it skip rows, and the map of the rows it starts with: the run
   `offset` shows both. *)

(* A transaction's rows follow their table map. *)
LEMMA BehindMapInductive ==
  ASSUME TypeInv, RowsBehindMap, [Next]_vars PROVE RowsBehindMap'
<1> USE DEF TypeInv
<1>1. CASE Server
  <2> SUFFICES ASSUME NEW f \in 1 .. Last', NEW p \in 1 .. Len(files'[f]),
                      files'[f][p].kind = "rows"
               PROVE  /\ p > 1
                      /\ files'[f][p - 1].kind = "map"
                      /\ files'[f][p - 1].id = files'[f][p].id
                      /\ files'[f][p - 1].table = files'[f][p].table
    BY DEF RowsBehindMap
  <2>1. CASE f \in 1 .. Last /\ p \in 1 .. Len(files[f]) /\ files'[f][p] = files[f][p]
    <3>1. /\ p > 1 /\ files[f][p - 1].kind = "map" /\ files[f][p - 1].id = files[f][p].id
          /\ files[f][p - 1].table = files[f][p].table
      BY <2>1 DEF RowsBehindMap
    <3>2. p - 1 \in 1 .. Len(files[f])
      BY <2>1, <3>1, EventsTyped
    <3>3. files'[f][p - 1] = files[f][p - 1]
      BY <2>1, <3>2, EventsStay
    <3> QED BY <2>1, <3>1, <3>3
  <2>2. ASSUME NEW t \in Tables, IsNew(t, f, p)
        PROVE  /\ p > 1
               /\ files'[f][p - 1].kind = "map"
               /\ files'[f][p - 1].id = files'[f][p].id
               /\ files'[f][p - 1].table = files'[f][p].table
    <3>1. Len(files[Last]) \in Nat
      BY EventsTyped
    <3>2. p = Len(files[Last]) + 2 /\ files'[f][p] = NewEvent(t, "rows")
      BY <2>2 DEF IsNew, NewEvent
    <3>3. files'[f][p - 1] = NewEvent(t, "map")
      BY <2>2, <3>1, <3>2 DEF IsNew
    <3> QED BY <3>1, <3>2, <3>3 DEF NewEvent
  <2> QED BY <1>1, <2>1, <2>2, OldOrNewEvent
<1>2. CASE UNCHANGED server
  BY <1>2 DEF server, RowsBehindMap, Last
<1> QED BY <1>1, <1>2, ServerOrReader

(* A commit writes a map together with its rows. *)
LEMMA MapBeforeRowsInductive ==
  ASSUME TypeInv, MapBeforeRows, [Next]_vars PROVE MapBeforeRows'
<1> USE DEF TypeInv
<1>1. CASE Server
  <2> SUFFICES ASSUME NEW f \in 1 .. Last', NEW p \in 1 .. Len(files'[f]),
                      files'[f][p].kind = "map"
               PROVE  p < Len(files'[f])
    BY DEF MapBeforeRows
  <2>1. CASE f \in 1 .. Last /\ p \in 1 .. Len(files[f]) /\ files'[f][p] = files[f][p]
    <3>1. p < Len(files[f]) /\ Len(files[f]) \in Nat
      BY <2>1, EventsTyped DEF MapBeforeRows
    <3>2. Len(files'[f]) \in Nat /\ Len(files[f]) <= Len(files'[f])
      BY <2>1, FilesGrow
    <3> QED BY <3>1, <3>2
  <2>2. ASSUME NEW t \in Tables, IsNew(t, f, p) PROVE p < Len(files'[f])
    <3>1. p = Len(files[Last]) + 1 /\ f = Last /\ Len(files[Last]) \in Nat
      BY <2>2, EventsTyped DEF IsNew, NewEvent
    <3>2. Len(files'[Last]) = Len(files[Last]) + 2
      BY <2>2, CommitAddsTwo DEF IsNew
    <3> QED BY <3>1, <3>2
  <2> QED BY <1>1, <2>1, <2>2, OldOrNewEvent
<1>2. CASE UNCHANGED server
  BY <1>2 DEF server, MapBeforeRows, Last
<1> QED BY <1>1, <1>2, ServerOrReader

(* With the start of a file configured, a process starts there or at the end of
   the binlog. *)
LEMMA StartsAtEdge ==
  ASSUME StartEvent = 0, TypeInv, StartReading
  PROVE  /\ stream'.announced = FALSE
         /\ \/ /\ stream'.pos = 0
               /\ stream'.file = StartFile \/ stream'.file = saved
            \/ /\ stream'.file = Last /\ stream'.pos = Len(files[Last])
               /\ skipped' = skipped \cup Unforwarded
<1>1. PICK readable \in BOOLEAN :
            /\ stream' = Connection(FileToRead(readable))
            /\ FileToRead(readable) = EmptyName => skipped' = skipped \cup Unforwarded
  BY DEF StartReading
<1>2. FileToRead(readable) \in {StartFile, saved}
  BY DEF FileToRead
<1> QED BY <1>1, <1>2 DEF Connection

(* The reader starts at such an edge and reads one event after the other. *)
LEMMA FromTransactionInductive ==
  ASSUME StartEvent = 0, TypeInv, MapBeforeRows, FromTransaction, [Next]_vars
  PROVE  FromTransaction'
<1>1. /\ stream \in [file : Nat, pos : Nat, announced : BOOLEAN, limit : Nat]
      /\ stream.file \in 1 .. Last /\ Last \in Nat
  BY DEF TypeInv, TypeOK, Last
<1>2. CASE Server
  <2>1. stream'.file = stream.file /\ stream'.pos = stream.pos
        /\ stream'.announced = stream.announced
    BY <1>1, <1>2, ServerLeavesReader
  <2>2. /\ Len(files[stream.file]) \in Nat /\ Len(files'[stream.file]) \in Nat
        /\ Len(files[stream.file]) <= Len(files'[stream.file])
    BY <1>1, FilesGrow DEF TypeInv
  <2>3. stream.pos > 0 => files'[stream.file][stream.pos] = files[stream.file][stream.pos]
    <3>1. stream.pos > 0 => stream.pos \in 1 .. Len(files[stream.file])
      BY <1>1, <2>2 DEF FromTransaction
    <3> QED BY <1>1, <3>1, EventsStay DEF TypeInv
  <2> QED BY <1>1, <2>1, <2>2, <2>3 DEF FromTransaction
<1>3. CASE StartReading
  <2>1. UNCHANGED files
    BY <1>3 DEF StartReading, server
  <2>2. CASE stream'.pos = 0 /\ stream'.file \in 1 .. Last
    <3>1. Len(files[stream'.file]) \in Nat
      BY <2>2, EventsTyped DEF TypeInv
    <3> QED BY <2>1, <2>2, <3>1 DEF FromTransaction
  <2>3. CASE stream'.file = Last /\ stream'.pos = Len(files[Last])
    <3>1. Last \in 1 .. Last /\ Len(files[Last]) \in Nat
      BY <1>1, EventsTyped DEF TypeInv
    <3>2. Len(files[Last]) > 0 => files[Last][Len(files[Last])].kind # "map"
      BY <3>1 DEF MapBeforeRows
    <3> QED BY <2>1, <2>3, <3>1, <3>2 DEF FromTransaction
  <2>4. stream'.file \in 1 .. Last
    BY <1>3, ConnectionExists DEF StartReading
  <2> QED BY <1>3, <2>2, <2>3, <2>4, StartsAtEdge
<1>4. CASE ReadRotate
  <2>1. UNCHANGED files
    BY <1>4 DEF ReadRotate, server
  <2>2. CASE stream.announced
    <3>1. stream.file + 1 \in 1 .. Last /\ stream'.file = stream.file + 1 /\ stream'.pos = 0
      BY <1>1, <1>4, <2>2 DEF ReadRotate, AtRotate, FileAnnounced
    <3>2. Len(files[stream.file + 1]) \in Nat
      BY <3>1, EventsTyped DEF TypeInv
    <3> QED BY <2>1, <3>1, <3>2 DEF FromTransaction
  <2>3. CASE ~stream.announced
    <3>1. /\ stream'.file = stream.file /\ stream'.pos = stream.pos /\ stream'.announced = TRUE
      BY <1>1, <1>4, <2>3 DEF ReadRotate
    <3> QED BY <2>1, <3>1 DEF FromTransaction
  <2> QED BY <2>2, <2>3
<1>5. CASE ReadTableMap \/ ReadRows
  <2>1. /\ AtEvent /\ stream'.file = stream.file /\ stream'.pos = stream.pos + 1
        /\ stream'.announced = stream.announced /\ UNCHANGED files
    BY <1>1, <1>5 DEF ReadTableMap, ReadRows, server
  <2>2. Len(files[stream.file]) \in Nat
    BY <1>1, EventsTyped DEF TypeInv
  <2> QED BY <1>1, <2>1, <2>2 DEF AtEvent, FromTransaction
<1>6. CASE ReadError \/ Kill \/ (\E row \in flight : Deliver(row)) \/ UNCHANGED vars
  BY <1>6 DEF ReadError, Kill, Deliver, vars, server, FromTransaction
<1> QED BY <1>2, <1>3, <1>4, <1>5, <1>6, ServerOrReader DEF Reader

(* What has been dealt with stays so. *)
LEMMA SettledStays ==
  ASSUME TypeInv, [Next]_vars, NEW f \in 1 .. Last, NEW p \in 1 .. Len(files[f]), Settled(f, p)
  PROVE  Settled(f, p)'
<1>1. forwarded \subseteq forwarded' /\ failed \subseteq failed' /\ skipped \subseteq skipped'
  BY DEF Next, Server, CommitRows, AlterTable, RotateFile, RestartServer, StartReading,
         ReadRotate, ReadTableMap, ReadRows, ReadError, Deliver, Kill, vars, rows
<1>2. f \in 1 .. Last' /\ p \in 1 .. Len(files'[f]) /\ files'[f][p] = files[f][p]
  BY EventsStay DEF TypeInv
<1>3. /\ Last' \in Nat /\ Len(files[f]) \in Nat /\ Len(files'[f]) \in Nat
  BY FilesGrow DEF TypeInv
<1>4. ASSUME HasDescFailed(f, p) PROVE HasDescFailed(f, p)'
  <2>1. PICK q \in 1 .. p : <<f, q>> \in failed /\ files[f][q].id = files[f][p].id
    BY <1>4 DEF HasDescFailed
  <2>2. q \in 1 .. Len(files[f])
    BY <1>3, <2>1
  <2>3. files'[f][q] = files[f][q]
    BY <2>2, EventsStay DEF TypeInv
  <2>4. f <= Last' /\ p <= Len(files'[f])
    BY <1>2, <1>3
  <2> QED BY <1>1, <1>2, <2>1, <2>3, <2>4 DEF HasDescFailed
<1> QED BY <1>1, <1>2, <1>4 DEF Settled

(* An included table map is described, or was before, or its `desc` failed. *)
LEMMA MapInductive ==
  ASSUME DecodedInv, FromTransaction, MapTaken, [Next]_vars PROVE MapTaken'
<1> USE DEF DecodedInv
<1>1. /\ stream \in [file : Nat, pos : Nat, announced : BOOLEAN, limit : Nat]
      /\ stream.file \in 1 .. Last /\ Len(files[stream.file]) \in Nat
  BY EventsTyped DEF TypeInv, TypeOK
<1>2. CASE Server
  <2>1. /\ stream'.file = stream.file /\ stream'.pos = stream.pos
        /\ stream'.announced = stream.announced
    BY <1>1, <1>2, ServerLeavesReader
  <2>2. stream.pos > 0 => files'[stream.file][stream.pos] = files[stream.file][stream.pos]
    <3>1. stream.pos > 0 => stream.pos \in 1 .. Len(files[stream.file])
      BY <1>1 DEF FromTransaction
    <3> QED BY <1>1, <3>1, EventsStay DEF TypeInv
  <2> QED BY <1>2, <2>1, <2>2, ServerLeavesReader DEF MapTaken
<1>3. CASE StartReading
  <2>1. stream'.announced = FALSE
    BY <1>3 DEF StartReading, Connection
  <2> QED BY <2>1 DEF MapTaken
<1>4. CASE ReadRotate
  <2>1. CASE stream.announced
    BY <1>1, <1>4, <2>1 DEF ReadRotate, MapTaken
  <2>2. CASE ~stream.announced
    <3>1. stream'.file = stream.file /\ stream'.pos = stream.pos /\ UNCHANGED files
      BY <1>1, <1>4, <2>2 DEF ReadRotate, server
    <3>2. stream.pos > 0 => files[stream.file][stream.pos].kind # "map"
      BY <2>2 DEF FromTransaction
    <3> QED BY <3>1, <3>2 DEF MapTaken
  <2> QED BY <2>1, <2>2
<1>5. CASE ReadTableMap \/ ReadRows
  <2>1. /\ AtEvent /\ UNCHANGED files
        /\ stream'.file = stream.file /\ stream'.pos = stream.pos + 1
    BY <1>1, <1>5 DEF ReadTableMap, ReadRows, server
  <2>2. /\ Event = files[stream.file][stream.pos + 1]
        /\ MetaKey(Event) = <<stream.file, Event.id>>
    BY <2>1, EventRead
  <2>3. Event.kind = "map" /\ Event.table \in Included =>
          MetaKey(Event) \in DOMAIN cache' \/ <<stream.file, stream.pos + 1>> \in failed'
    BY <1>5 DEF ReadTableMap, ReadRows, Insert, Excluded, Cached
  <2> QED BY <2>1, <2>2, <2>3 DEF MapTaken
<1>6. CASE ReadError \/ Kill
  BY <1>6 DEF ReadError, Kill, MapTaken
<1>7. CASE (\E row \in flight : Deliver(row)) \/ UNCHANGED vars
  BY <1>7 DEF Deliver, vars, server, MapTaken
<1> QED BY <1>2, <1>3, <1>4, <1>5, <1>6, <1>7, ServerOrReader DEF Reader

(* An included row without metadata: the `desc` of the map in front of it failed. *)
LEMMA MissMeansFailed ==
  ASSUME DecodedInv, RowsBehindMap, MapTaken, ReadRows,
         MetaKey(Event) \notin DOMAIN cache, Event.table \in Included
  PROVE  \E q \in 1 .. stream.pos :
           <<stream.file, q>> \in failed /\ files[stream.file][q].id = Event.id
<1> DEFINE f == stream.file
           p == stream.pos + 1
<1>1. /\ f \in 1 .. Last /\ p \in 1 .. Len(files[f]) /\ Event = files[f][p]
      /\ MetaKey(Event) = <<f, Event.id>> /\ stream.pos \in Nat
  BY EventRead DEF ReadRows, DecodedInv, TypeInv, TypeOK
<1>2. Event.kind = "rows" /\ status = "reading" /\ stream.announced
  BY DEF ReadRows, AtEvent
<1>3. /\ p > 1 /\ files[f][p - 1].kind = "map" /\ files[f][p - 1].id = files[f][p].id
      /\ files[f][p - 1].table = files[f][p].table
  BY <1>1, <1>2 DEF RowsBehindMap
<1>4. p - 1 = stream.pos /\ p - 1 \in 1 .. stream.pos /\ stream.pos > 0
  BY <1>1, <1>3
<1> HIDE DEF p
<1>5. <<f, files[f][p - 1].id>> \in DOMAIN cache \/ <<f, p - 1>> \in failed
  <2>1. files[f][stream.pos].kind = "map" /\ files[f][stream.pos].table \in Included
    BY <1>1, <1>3, <1>4
  <2> QED BY <1>2, <1>4, <2>1 DEF MapTaken
<1> QED BY <1>1, <1>3, <1>4, <1>5

(* The rows that are read are forwarded, or the `desc` of the map in front of
   them failed. *)
LEMMA RowsAreSettled ==
  ASSUME DecodedInv, RowsBehindMap, MapTaken, ReadRows,
         NEW f, f = stream.file, NEW p, p = stream.pos + 1
  PROVE  Settled(f, p)'
<1>1. /\ f \in 1 .. Last /\ Last \in Nat /\ p \in 1 .. Len(files[f]) /\ Event = files[f][p]
      /\ Event \in Events /\ MetaKey(Event) = <<f, Event.id>>
      /\ Len(files[f]) \in Nat /\ stream.pos \in Nat
  BY EventRead, EventsTyped DEF ReadRows, DecodedInv, TypeInv, TypeOK
<1>2. UNCHANGED <<files, failed>> /\ Event.kind = "rows" /\ status = "reading" /\ stream.announced
  BY DEF ReadRows, AtEvent, server
<1>3. CASE MetaKey(Event) \in DOMAIN cache
  <2> DEFINE row == [file |-> f, pos |-> p, meta |-> cache[MetaKey(Event)]]
  <2>1. row \in forwarded' /\ row.file = f /\ row.pos = p
    BY <1>3 DEF ReadRows
  <2> QED BY <1>2, <2>1 DEF Settled
<1>4. CASE MetaKey(Event) \notin DOMAIN cache /\ Event.table \in Included
  <2>1. PICK q \in 1 .. stream.pos : <<f, q>> \in failed /\ files[f][q].id = Event.id
    BY <1>4, MissMeansFailed
  <2>2. HasDescFailed(f, p)
    <3>1. q \in 1 .. p /\ f <= Last /\ p <= Len(files[f])
      BY <1>1
    <3> QED BY <1>1, <2>1, <3>1 DEF HasDescFailed
  <2>3. HasDescFailed(f, p)'
    BY <1>2, <2>2 DEF HasDescFailed, Last
  <2> QED BY <2>3 DEF Settled
<1>5. CASE Event.table \notin Included
  BY <1>1, <1>2, <1>5 DEF Settled
<1> QED BY <1>3, <1>4, <1>5

(* A savepoint names the file that is read next, all before it are settled. *)
LEMMA SavedInductive ==
  ASSUME PassedInv, [Next]_vars PROVE SavedSettled'
<1> USE DEF PassedInv, DecodedInv
<1>1. /\ Last \in Nat /\ Last' \in Nat /\ Last <= Last' /\ saved \in Int /\ saved <= Last
      /\ StartFile \in Nat \ {0}
  <2>1. Last \in Nat /\ Last' \in Nat /\ Last <= Last'
    BY FilesGrow DEF TypeInv
  <2>2. saved \in NoSavepoint .. Last
    BY DEF TypeInv, TypeOK
  <2>3. StartFile \in Nat \ {0}
    BY ReaderAssumption
  <2> QED BY <2>1, <2>2, <2>3 DEF NoSavepoint
<1>2. ASSUME NEW f \in StartFile .. Last, NEW p \in 1 .. Len(files[f]), Settled(f, p)
      PROVE  Settled(f, p)'
  BY <1>1, <1>2, SettledStays
<1>3. CASE Server
  <2> SUFFICES ASSUME NEW f \in StartFile .. Last', f < saved, NEW p \in 1 .. Len(files'[f])
               PROVE  Settled(f, p)'
    BY <1>3, ServerLeavesReader DEF SavedSettled
  <2>1. f \in StartFile .. Last /\ f \in 1 .. Last /\ f < Last
    BY <1>1
  <2>2. files'[f] = files[f]
    BY <2>1, FilesGrow DEF TypeInv
  <2> QED BY <1>2, <2>1, <2>2 DEF SavedSettled
<1>4. CASE Reader \/ UNCHANGED vars
  <2>1. UNCHANGED files /\ Last' = Last
    BY <1>4, ServerOrReader DEF server, Last
  <2> SUFFICES ASSUME NEW f \in StartFile .. Last, f < saved', NEW p \in 1 .. Len(files[f])
               PROVE  Settled(f, p)
    BY <1>2, <2>1 DEF SavedSettled
  <2>2. CASE saved' = saved
    BY <2>2 DEF SavedSettled
  <2>3. CASE ReadRotate /\ saved' = FileAnnounced
    <3>1. /\ status = "reading" /\ stream.file \in Nat /\ stream.pos \in Nat
          /\ Len(files[stream.file]) \in Nat
      BY <2>3, EventsTyped DEF ReadRotate, AtRotate, TypeInv, TypeOK
    <3>2. CASE stream.announced
      <4>1. stream.pos = Len(files[stream.file]) /\ f < stream.file + 1
        BY <2>3, <3>2 DEF ReadRotate, AtRotate, FileAnnounced
      <4>2. f < stream.file \/ (f = stream.file /\ p <= stream.pos)
        BY <1>1, <3>1, <4>1
      <4> QED BY <3>1, <4>2 DEF PassedSettled
    <3>3. CASE ~stream.announced
      BY <2>3, <3>1, <3>3 DEF FileAnnounced, PassedSettled
    <3> QED BY <3>2, <3>3
  <2>4. CASE saved' = EmptyName
    BY <1>1, <2>4 DEF EmptyName
  <2> QED BY <1>4, <2>2, <2>3, <2>4
          DEF Reader, StartReading, ReadRotate, FileSaved, ReadTableMap, ReadRows, ReadError,
              Deliver, Kill, vars
<1> QED BY <1>3, <1>4, ServerOrReader

(* A start from an empty savepoint skips what is not forwarded, and counts it. *)
LEMMA EdgeSettles ==
  ASSUME TypeInv, UNCHANGED <<files, forwarded, failed>>, skipped' = skipped \cup Unforwarded,
         NEW f \in 1 .. Last, NEW p \in 1 .. Len(files[f])
  PROVE  Settled(f, p)'
<1>1. <<f, p>> \in Positions
  <2>1. files \in Seq(Seq(Events))
    BY DEF TypeInv, TypeOK, Events
  <2>2. p \in DOMAIN files[f]
    BY <2>1, ElementOfSeq, LenProperties DEF Last
  <2> QED BY <2>2 DEF Positions
<1> QED BY <1>1 DEF Settled, Unforwarded

(* While it reads, the reader has settled all it has behind it. *)
LEMMA PassedInductive ==
  ASSUME StartEvent = 0, PassedInv, [Next]_vars PROVE PassedSettled'
<1> USE DEF PassedInv, DecodedInv
<1>1. /\ Last \in Nat /\ Last' \in Nat /\ Last <= Last' /\ StartFile \in Nat \ {0}
      /\ stream \in [file : Nat, pos : Nat, announced : BOOLEAN, limit : Nat]
      /\ stream.file \in 1 .. Last /\ Len(files[stream.file]) \in Nat
  <2>1. Last \in Nat /\ Last' \in Nat /\ Last <= Last'
    BY FilesGrow DEF TypeInv
  <2>2. StartFile \in Nat \ {0}
    BY ReaderAssumption
  <2>3. /\ stream \in [file : Nat, pos : Nat, announced : BOOLEAN, limit : Nat]
        /\ stream.file \in 1 .. Last
    BY <2>1 DEF TypeInv, TypeOK
  <2>4. Len(files[stream.file]) \in Nat
    BY <2>3, EventsTyped DEF TypeInv
  <2> QED BY <2>1, <2>2, <2>3, <2>4
<1>2. ASSUME NEW f \in StartFile .. Last, NEW p \in 1 .. Len(files[f]), Settled(f, p)
      PROVE  Settled(f, p)'
  BY <1>1, <1>2, SettledStays
<1>3. CASE Server
  <2>1. stream'.file = stream.file /\ stream'.pos = stream.pos
    BY <1>1, <1>3, ServerLeavesReader
  <2> SUFFICES ASSUME status = "reading", NEW f \in StartFile .. Last',
                      NEW p \in 1 .. Len(files'[f]),
                      f < stream.file \/ (f = stream.file /\ p <= stream.pos)
               PROVE  Settled(f, p)'
    BY <1>3, <2>1, ServerLeavesReader DEF PassedSettled
  <2>2. f \in StartFile .. Last /\ f \in 1 .. Last
    BY <1>1
  <2>3. p \in 1 .. Len(files[f])
    <3>1. CASE f < stream.file
      <4>1. files'[f] = files[f]
        BY <1>1, <2>2, <3>1, FilesGrow DEF TypeInv
      <4> QED BY <4>1
    <3>2. CASE f = stream.file /\ p <= stream.pos
      BY <1>1, <2>2, <3>2, FilesGrow DEF FromTransaction, TypeInv
    <3> QED BY <3>1, <3>2
  <2> QED BY <1>2, <2>2, <2>3 DEF PassedSettled
<1>4. CASE Reader \/ UNCHANGED vars
  <2>1. UNCHANGED files /\ Last' = Last
    BY <1>4, ServerOrReader DEF server, Last
  <2> SUFFICES ASSUME status' = "reading", NEW f \in StartFile .. Last,
                      NEW p \in 1 .. Len(files[f]),
                      f < stream'.file \/ (f = stream'.file /\ p <= stream'.pos)
               PROVE  Settled(f, p)'
    BY <2>1 DEF PassedSettled
  <2>2. CASE StartReading
    <3>1. CASE stream'.pos = 0 /\ (stream'.file = StartFile \/ stream'.file = saved)
      <4>1. f < saved
        BY <1>1, <3>1
      <4> QED BY <1>2, <4>1 DEF SavedSettled
    <3>2. CASE skipped' = skipped \cup Unforwarded
      <4>1. UNCHANGED <<files, forwarded, failed>> /\ f \in 1 .. Last
        BY <1>1, <2>2 DEF StartReading, server, rows
      <4> QED BY <3>2, <4>1, EdgeSettles
    <3> QED BY <2>2, <3>1, <3>2, StartsAtEdge
  <2>3. CASE ReadRotate
    <3>1. status = "reading"
      BY <2>3 DEF ReadRotate, AtRotate
    <3>2. CASE stream.announced
      <4>1. stream.pos = Len(files[stream.file]) /\ f < stream.file + 1
        BY <1>1, <2>3, <3>2 DEF ReadRotate, AtRotate
      <4>2. f < stream.file \/ (f = stream.file /\ p <= stream.pos)
        BY <1>1, <4>1
      <4> QED BY <1>2, <3>1, <4>2 DEF PassedSettled
    <3>3. CASE ~stream.announced
      <4>1. stream'.file = stream.file /\ stream'.pos = stream.pos
        BY <1>1, <2>3, <3>3 DEF ReadRotate
      <4> QED BY <1>2, <3>1, <4>1 DEF PassedSettled
    <3> QED BY <3>2, <3>3
  <2>4. CASE ReadTableMap \/ ReadRows
    <3>1. /\ AtEvent /\ stream'.file = stream.file /\ stream'.pos = stream.pos + 1
      BY <1>1, <2>4 DEF ReadTableMap, ReadRows
    <3>2. CASE f < stream.file \/ (f = stream.file /\ p <= stream.pos)
      BY <1>2, <3>1, <3>2 DEF AtEvent, PassedSettled
    <3>3. CASE f = stream.file /\ p = stream.pos + 1 /\ ReadRows
      BY <3>3, RowsAreSettled
    <3>4. CASE f = stream.file /\ p = stream.pos + 1 /\ ReadTableMap
      <4>1. files[f][p].kind = "map"
        BY <3>4 DEF ReadTableMap, Event
      <4> QED BY <2>1, <4>1 DEF Settled
    <3> QED BY <1>1, <2>4, <3>1, <3>2, <3>3, <3>4
  <2>5. CASE ReadError \/ Kill
    BY <2>5 DEF ReadError, Kill
  <2>6. CASE (\E row \in flight : Deliver(row)) \/ UNCHANGED vars
    BY <1>2, <2>6 DEF Deliver, vars, PassedSettled
  <2> QED BY <1>4, <2>2, <2>3, <2>4, <2>5, <2>6 DEF Reader
<1> QED BY <1>3, <1>4, ServerOrReader

(* Nothing is read and nothing can be passed in the initial state. *)
LEMMA PassedInit == Init => PassedInv
<1> SUFFICES ASSUME Init PROVE PassedInv
  OBVIOUS
<1>1. DecodedInv
  BY DecodedInit
<1>2. Last \in Nat \ {0} /\ \A f \in 1 .. Last : Len(files[f]) = 0
  <2>1. Last \in Nat \ {0} /\ DOMAIN files = 1 .. Last
    BY <1>1, EventsTyped, LenProperties DEF DecodedInv, TypeInv, TypeOK, Last
  <2>2. \A f \in 1 .. Last : files[f] = <<>>
    BY <2>1 DEF Init
  <2> QED BY <2>1, <2>2
<1>3. RowsBehindMap /\ MapBeforeRows /\ FromTransaction
  <2>1. stream.pos = 0 /\ stream.file \in 1 .. Last
    BY <1>1 DEF Init, DecodedInv, TypeInv, TypeOK
  <2>2. Len(files[stream.file]) = 0
    BY <1>2, <2>1
  <2> QED BY <1>2, <2>1, <2>2 DEF RowsBehindMap, MapBeforeRows, FromTransaction
<1>4. MapTaken /\ PassedSettled
  BY DEF Init, MapTaken, PassedSettled
<1>5. SavedSettled
  BY ReaderAssumption DEF Init, SavedSettled, NoSavepoint
<1> QED BY <1>1, <1>3, <1>4, <1>5 DEF PassedInv

(* Every step keeps it all. *)
LEMMA PassedInvInductive ==
  ASSUME StartEvent = 0 PROVE PassedInv /\ [Next]_vars => PassedInv'
<1> SUFFICES ASSUME PassedInv, [Next]_vars PROVE PassedInv'
  OBVIOUS
<1>1. DecodedInv' /\ RowsBehindMap' /\ MapBeforeRows' /\ FromTransaction' /\ MapTaken'
  BY DecodedInductive, BehindMapInductive, MapBeforeRowsInductive, FromTransactionInductive,
     MapInductive DEF PassedInv, DecodedInv
<1> QED BY <1>1, SavedInductive, PassedInductive DEF PassedInv

(* README.md:70, a restart may read again: with the start of a file configured,
   no row event of an included table is passed over, in this process or in an
   earlier one, unless its table could not be described, or a start from an
   empty savepoint found it in the binlog and not forwarded. *)
THEOREM NoRowPassedOver ==
  ASSUME StartEvent = 0
  PROVE  Spec => []PassedRowsForwarded
<1>1. Init => PassedInv
  BY PassedInit
<1>2. PassedInv /\ [Next]_vars => PassedInv'
  BY PassedInvInductive
<1>3. PassedInv => PassedRowsForwarded
  <2> SUFFICES ASSUME PassedInv, status = "reading", NEW f \in 1 .. Last,
                      NEW p \in DOMAIN files[f], Behind(f, p),
                      files[f][p].kind = "rows", ~Excluded(files[f][p])
               PROVE  \/ \E row \in forwarded : row.file = f /\ row.pos = p
                      \/ HasDescFailed(f, p)
                      \/ <<f, p>> \in skipped
    BY DEF PassedRowsForwarded
  <2>1. files \in Seq(Seq(Events)) /\ Last \in Nat /\ StartFile \in Nat
    BY ReaderAssumption DEF PassedInv, DecodedInv, TypeInv, TypeOK, Events, Last
  <2>2. p \in 1 .. Len(files[f])
    BY <2>1, ElementOfSeq, LenProperties DEF Last
  <2>3. f \in StartFile .. Last
    BY <2>1 DEF Behind
  <2> QED BY <2>2, <2>3 DEF PassedInv, PassedSettled, Settled, Behind, Excluded
<1> QED BY <1>1, <1>2, <1>3, PTL DEF Spec

-----------------------------------------------------------------------------
(* The reader is what FollowedBinlog promises. *)

(* The server's steps write to the binlog at most. *)
LEMMA ServerWrites == ASSUME TypeInv, Server PROVE Followed!Write
<1>1. UNCHANGED <<forwarded, failed, saved>>
      /\ stream'.file = stream.file /\ stream'.pos = stream.pos
  <2>1. stream \in [file : Nat, pos : Nat, announced : BOOLEAN, limit : Nat]
    BY DEF TypeInv, TypeOK, Last
  <2> QED BY <2>1, ServerLeavesReader
<1>2. UNCHANGED Kept
  BY <1>1 DEF Kept
<1>3. /\ Last \in Nat /\ Last' \in Nat /\ Last <= Last'
      /\ \A f \in 1 .. Last :
           /\ Len(files[f]) <= Len(files'[f])
           /\ \A p \in 1 .. Len(files[f]) : files'[f][p] = files[f][p]
           /\ f < Last => files'[f] = files[f]
  BY FilesGrow DEF Next, TypeInv
<1> QED BY <1>1, <1>2, <1>3 DEF Followed!Write, Last

(* Every event is read once, rows with the metadata of their table. *)
LEMMA EventIsPassed ==
  ASSUME PassedInv, [Next]_vars, ReadTableMap \/ ReadRows PROVE Followed!ReadEvent
<1> USE DEF PassedInv, DecodedInv
<1>0. AtEvent /\ TypeOK
  BY DEF ReadTableMap, ReadRows, TypeInv
<1> DEFINE f == stream.file
           p == stream.pos + 1
           images(R) == {[file |-> row.file, pos |-> row.pos, table |-> row.meta.table] : row \in R}
<1>1. /\ f \in 1 .. Last /\ p \in 1 .. Len(files[f]) /\ Len(files[f]) \in Nat
      /\ Event = files[f][p] /\ Event \in Events
      /\ stream \in [file : Nat, pos : Nat, announced : BOOLEAN, limit : Nat]
  <2>1. stream \in [file : Nat, pos : Nat, announced : BOOLEAN, limit : Nat]
    BY <1>0 DEF TypeOK, Last
  <2> QED BY <1>0, <2>1, EventRead, EventsTyped
<1>2. /\ UNCHANGED <<files, saved, Kept>>
      /\ stream'.file = f /\ stream'.pos = p
  BY <1>1 DEF ReadTableMap, ReadRows, server, Kept
<1>3. CASE ReadTableMap
  <2>1. UNCHANGED forwarded /\ Event.kind = "map"
    BY <1>3 DEF ReadTableMap, rows
  <2>2. UNCHANGED failed \/ (Event.table \in Included /\ failed' = failed \cup {<<f, p>>})
    BY <1>3 DEF ReadTableMap, Excluded
  <2>3. Followed!PassOver
    BY <1>1, <2>1, <2>2 DEF Followed!PassOver, Followed!Event, Followed!Here
  <2> QED BY <1>1, <1>2, <2>3 DEF Followed!ReadEvent
<1>4. CASE ReadRows
  <2>1. UNCHANGED failed /\ Event.kind = "rows"
    BY <1>4 DEF ReadRows
  <2>2. CASE MetaKey(Event) \in DOMAIN cache
    <3> DEFINE row == [file |-> f, pos |-> p, meta |-> cache[MetaKey(Event)]]
    <3>1. forwarded' = forwarded \cup {row}
      BY <1>4, <2>2 DEF ReadRows
    <3>2. row.file = f /\ row.pos = p
      OBVIOUS
    <3> HIDE DEF row
    <3>3. RowsDecoded'
      BY RowsInductive
    <3>4. row.meta.table = Event.table /\ Event.table \in Included
      BY <1>1, <1>2, <3>1, <3>2, <3>3 DEF RowsDecoded
    <3>5. images(forwarded') =
            images(forwarded) \cup {[file |-> f, pos |-> p, table |-> Event.table]}
      BY <3>1, <3>2, <3>4
    <3>6. Followed!Forward
      BY <1>1, <2>1, <3>4, <3>5 DEF Followed!Forward, Followed!Event
    <3> QED BY <1>1, <1>2, <3>6 DEF Followed!ReadEvent
  <2>3. CASE MetaKey(Event) \notin DOMAIN cache
    <3>1. UNCHANGED forwarded
      BY <1>4, <2>3 DEF ReadRows
    <3>2. Event.table \notin Included \/ Followed!NoMetadata
      BY <1>1, <1>4, <2>3, MissMeansFailed DEF Followed!NoMetadata, Followed!Event
    <3>3. Followed!PassOver
      BY <1>1, <2>1, <3>1, <3>2 DEF Followed!PassOver, Followed!Event
    <3> QED BY <1>1, <1>2, <3>3 DEF Followed!ReadEvent
  <2> QED BY <2>2, <2>3
<1> QED BY <1>3, <1>4

(* A rotate event leads to the next file or announces the one at hand; saved is
   the file that is read after it, unless the save fails or empties the file. *)
LEMMA RotateIsFollowed ==
  ASSUME PassedInv, ReadRotate
  PROVE  Followed!NextFile \/ Followed!Save \/ Followed!Lose \/ UNCHANGED Followed!vars
<1> USE DEF PassedInv, DecodedInv
<1>1. /\ stream \in [file : 1 .. Last, pos : Nat, announced : BOOLEAN, limit : Nat]
      /\ Last \in Nat
  BY DEF TypeInv, TypeOK, Last
<1>2. UNCHANGED <<files, forwarded, failed>> /\ AtRotate
      /\ saved' \in {FileAnnounced, saved, EmptyName}
  BY DEF ReadRotate, FileSaved, server, rows
<1>3. Kept' \in {Kept, FileAnnounced, Followed!Lost}
  BY <1>1, <1>2 DEF Kept, FileAnnounced, NoSavepoint, EmptyName, Followed!Lost
<1>4. CASE stream.announced
  <2>1. /\ stream.pos = Len(files[stream.file]) /\ FileAnnounced = stream.file + 1
        /\ stream.file < Last /\ stream'.file = stream.file + 1 /\ stream'.pos = 0
    BY <1>1, <1>2, <1>4 DEF AtRotate, FileAnnounced, ReadRotate
  <2> QED BY <1>2, <1>3, <2>1 DEF Followed!NextFile, Last
<1>5. CASE ~stream.announced
  <2>1. /\ FileAnnounced = stream.file
        /\ stream'.file = stream.file /\ stream'.pos = stream.pos
    BY <1>1, <1>5 DEF FileAnnounced, ReadRotate
  <2> QED BY <1>2, <1>3, <2>1 DEF Followed!Save, Followed!Lose, Followed!vars
<1> QED BY <1>4, <1>5

(* What starts, ends or only moves rows. *)
LEMMA OthersFollow ==
  ASSUME StartEvent = 0, TypeInv,
         \/ StartReading \/ ReadError \/ Kill \/ UNCHANGED vars
         \/ \E row \in flight : Deliver(row)
  PROVE  \/ Followed!Restart \/ Followed!RestartAtEnd \/ Followed!Lose
         \/ UNCHANGED Followed!vars
<1>1. UNCHANGED <<files, forwarded, failed>>
  BY DEF StartReading, ReadError, Kill, Deliver, vars, server, rows
<1>2. CASE StartReading
  <2>1. PICK readable \in BOOLEAN : stream' = Connection(FileToRead(readable))
    BY <1>2 DEF StartReading
  <2>2. UNCHANGED Kept
    BY <1>2 DEF StartReading, Kept
  <2>3. FileToRead(readable) \in {Kept, StartFile}
    BY DEF FileToRead, Kept
  <2>4. CASE FileToRead(readable) = EmptyName
    <3>1. Kept = Followed!Lost
      BY <2>3, <2>4, ReaderAssumption DEF EmptyName, Followed!Lost
    <3>2. stream'.file = Len(files) /\ stream'.pos = Len(files[Len(files)])
      BY <2>1, <2>4 DEF Connection, Last
    <3> QED BY <1>1, <2>2, <3>1, <3>2 DEF Followed!RestartAtEnd
  <2>5. CASE FileToRead(readable) # EmptyName
    <3>1. stream'.file = FileToRead(readable) /\ stream'.pos = 0
      BY <2>1, <2>5 DEF Connection
    <3> QED BY <1>1, <2>2, <2>3, <2>5, <3>1 DEF Followed!Restart, Followed!Lost, EmptyName
  <2> QED BY <2>4, <2>5
<1>3. CASE Kill
  <2>1. UNCHANGED stream /\ saved' \in {saved, EmptyName}
    BY <1>3 DEF Kill
  <2>2. Kept' \in {Kept, Followed!Lost}
    BY <2>1 DEF Kept, EmptyName, NoSavepoint, Followed!Lost
  <2> QED BY <1>1, <2>1, <2>2 DEF Followed!Lose, Followed!vars
<1>4. CASE ReadError \/ (\E row \in flight : Deliver(row)) \/ UNCHANGED vars
  <2>1. UNCHANGED <<stream, saved>>
    BY <1>4 DEF ReadError, Deliver, vars
  <2>2. UNCHANGED Kept
    BY <2>1 DEF Kept
  <2> QED BY <1>1, <2>1, <2>2 DEF Followed!vars
<1> QED BY <1>2, <1>3, <1>4

(* The reader follows the binlog: in order, each row as a row of its own table,
   none left out but those without metadata, over rotations, reused table ids,
   failed saves, savepoints it cannot read, kills and restarts; it skips only when
   it starts from an emptied savepoint. *)
THEOREM Following ==
  ASSUME StartEvent = 0
  PROVE  Spec => ImplementsFollowed
<1>1. Init => PassedInv /\ Followed!Init
  <2> SUFFICES ASSUME Init PROVE Followed!Init
    BY PassedInit
  <2>1. stream.file = StartFile /\ stream.pos = 0 /\ Kept = StartFile
    BY DEF Init, Kept
  <2> QED BY <2>1 DEF Init, Followed!Init
<1>2. PassedInv /\ [Next]_vars => PassedInv'
  BY PassedInvInductive
<1>3. PassedInv /\ [Next]_vars => [Followed!Next]_(Followed!vars)
  <2> SUFFICES ASSUME PassedInv, [Next]_vars
               PROVE  Followed!Next \/ UNCHANGED Followed!vars
    OBVIOUS
  <2>1. CASE Server
    BY <2>1, ServerWrites DEF Followed!Next, PassedInv, DecodedInv
  <2>2. CASE ReadTableMap \/ ReadRows
    BY <2>2, EventIsPassed DEF Followed!Next
  <2>3. CASE ReadRotate
    BY <2>3, RotateIsFollowed DEF Followed!Next
  <2>4. CASE \/ StartReading \/ ReadError \/ Kill \/ UNCHANGED vars
             \/ \E row \in flight : Deliver(row)
    BY <2>4, OthersFollow DEF Followed!Next, PassedInv, DecodedInv
  <2> QED BY <2>1, <2>2, <2>3, <2>4 DEF Next
<1> QED BY <1>1, <1>2, <1>3, PTL DEF Spec, ImplementsFollowed, Followed!Spec
=============================================================================
