---------------------------- MODULE BinlogReader ----------------------------
(***************************************************************************)
(* The binlog side of source/mysql.rs (MysqlBinlogEvent): which events the *)
(* reader takes from the files of the MySQL server, the table metadata it  *)
(* caches for them, the savepoint it writes at a rotation, and what a kill *)
(* and a restart of the process make of the three.                         *)
(*                                                                         *)
(* A binlog file is named by its number, the empty name by 0.  The way of  *)
(* a forwarded row through channels and workers is CdcPipeline's: here it  *)
(* is in flight until it is delivered.                                     *)
(***************************************************************************)
EXTENDS Integers, Sequences, FiniteSets

CONSTANTS
  Tables,      (* tables the server writes row events for                      *)
  Included,    (* those of them that can_exclude lets pass                     *)
  StartFile,   (* scan.startup.specific-offset.file                            *)
  StartEvent,  (* ...and .pos, as the number of events of a file it skips      *)
  DescMayFail, (* TRUE when `desc` may find no table (dropped, no rights)      *)
  MaxFiles,    (* bound: binlog files                                          *)
  MaxEvents,   (* bound: events of the binlog                                  *)
  MaxAlters,   (* bound: schema versions of a table                            *)
  MaxKills     (* bound: kills of the process                                  *)

ASSUME ReaderAssumption ==
  /\ Included \subseteq Tables
  /\ StartFile \in 1 .. MaxFiles
  /\ DescMayFail \in BOOLEAN
  /\ {StartEvent, MaxFiles, MaxEvents, MaxAlters, MaxKills} \subseteq Nat

VARIABLES
  (* the server *)
  files,     (* files[f]: events of the f-th binlog file                       *)
  id,        (* id[t]: the table id t has while it is open, 0 when it is not   *)
  nextId,    (* the id the next table to be opened gets                        *)
  version,   (* version[t]: current schema of t                                *)
  (* the process *)
  status,    (* "reading", "stopped" when read() has ended, "down"             *)
  stream,    (* the connection: file and number of its events read, whether    *)
             (* the file was announced, last file the server will show it      *)
  current,   (* current_binlog                                                 *)
  cache,     (* table_meta_cache: metadata by <<file, table id>>               *)
  saved,     (* content of the savepoint file                                  *)
  (* history *)
  flight,    (* forwarded rows that are in a channel or at a worker            *)
  delivered, (* forwarded rows that have left the process                      *)
  forwarded, (* all rows forwarded by this and earlier processes               *)
  failed,    (* table map events whose `desc` failed                           *)
  unreadable,(* this process could not read the savepoint there was            *)
  skipped,   (* rows that starts from an empty savepoint have passed over      *)
  kills      (* number of kills                                                *)

server == <<files, id, nextId, version>>
rows == <<flight, delivered, forwarded>>
vars == <<server, status, stream, current, cache, saved, rows, failed, unreadable, skipped,
          kills>>

EmptyName == 0
NoSavepoint == -1

Last == Len(files)
Positions == UNION {{f} \X DOMAIN files[f] : f \in 1 .. Last}

Init ==
  /\ files = [f \in 1 .. StartFile |-> <<>>]
  /\ id = [t \in Tables |-> 0]
  /\ nextId = 1
  /\ version = [t \in Tables |-> 1]
  /\ status = "down"
  /\ stream = [file |-> StartFile, pos |-> 0, announced |-> FALSE, limit |-> MaxFiles]
  /\ current = EmptyName
  /\ cache = <<>>
  /\ saved = NoSavepoint
  /\ flight = {}
  /\ delivered = {}
  /\ forwarded = {}
  /\ failed = {}
  /\ unreadable = FALSE
  /\ skipped = {}
  /\ kills = 0

-----------------------------------------------------------------------------
(* The MySQL server. *)

(* A transaction on one table: its table map, then its rows, which carry only
   the table id.  An unopened table is opened first and gets a fresh id.  table
   and version of a rows event are what the row really is; the reader does not
   see them. *)
CommitRows(t) ==
  LET tid == IF id[t] = 0 THEN nextId ELSE id[t]
      event(kind) == [kind |-> kind, id |-> tid, table |-> t, version |-> version[t]]
  IN /\ Cardinality(Positions) + 2 <= MaxEvents
     /\ files' = [files EXCEPT ![Last] = @ \o <<event("map"), event("rows")>>]
     /\ id' = [id EXCEPT ![t] = tid]
     /\ nextId' = IF id[t] = 0 THEN nextId + 1 ELSE nextId
     /\ UNCHANGED <<version, status, stream, current, cache, saved, rows, failed,
                    unreadable, skipped, kills>>

(* ALTER TABLE closes the table: it gets a new id when it is used again. *)
AlterTable(t) ==
  /\ version[t] < MaxAlters
  /\ version' = [version EXCEPT ![t] = @ + 1]
  /\ id' = [id EXCEPT ![t] = 0]
  /\ UNCHANGED <<files, nextId, status, stream, current, cache, saved, rows, failed,
                 unreadable, skipped, kills>>

(* The server goes on to the next binlog file. *)
RotateFile ==
  /\ Last < MaxFiles
  /\ files' = Append(files, <<>>)
  /\ UNCHANGED <<id, nextId, version, status, stream, current, cache, saved, rows, failed,
                 unreadable, skipped, kills>>

(* A restarted server writes a new file, counts table ids from the start and
   has dropped the reader's connection, which shows no file from after it. *)
RestartServer ==
  /\ Last < MaxFiles
  /\ files' = Append(files, <<>>)
  /\ id' = [t \in Tables |-> 0]
  /\ nextId' = 1
  /\ stream' = [stream EXCEPT !.limit = IF @ < Last THEN @ ELSE Last]
  /\ UNCHANGED <<version, status, current, cache, saved, rows, failed, unreadable, skipped,
                 kills>>

-----------------------------------------------------------------------------
(* The reader. *)

(* load() returns the savepoint; when there is none, or an error of reading it
   is logged, the configured file is read. *)
MutIgnoresSavepoint(readable) == StartFile
FileToRead(readable) == IF saved = NoSavepoint \/ ~readable THEN StartFile ELSE saved

(* The client connects at the file and position it is given; for an empty name
   it asks the server for the file and position it has come to. *)
Connection(name) ==
  [file |-> IF name = EmptyName THEN Last ELSE name,
   pos |-> IF name = EmptyName THEN Len(files[Last]) ELSE StartEvent,
   announced |-> FALSE,
   limit |-> MaxFiles]

Unforwarded ==
  {at \in Positions : /\ files[at[1]][at[2]].kind = "rows"
                      /\ ~ \E row \in forwarded : row.file = at[1] /\ row.pos = at[2]}

(* create() and the start of read(): binlog_stream connects at the file and at
   the configured position, whichever file it is. *)
StartReading ==
  /\ status = "down"
  /\ status' = "reading"
  /\ \E readable \in BOOLEAN :
       LET name == FileToRead(readable) IN
       /\ stream' = Connection(name)
       /\ unreadable' = (saved # NoSavepoint /\ ~readable)
       /\ skipped' = skipped \cup (IF name = EmptyName THEN Unforwarded ELSE {})
  /\ current' = EmptyName
  /\ cache' = <<>>
  /\ UNCHANGED <<server, saved, rows, failed, kills>>

AtEvent == /\ status = "reading"
           /\ stream.announced
           /\ stream.pos < Len(files[stream.file])

Event == files[stream.file][stream.pos + 1]

(* The server announces each file it starts to send, the first one too, by a
   rotate event, after the one that ends the file before it. *)
FileAnnounced == IF stream.announced THEN stream.file + 1 ELSE stream.file

(* A position behind the end of the file makes the server answer an error. *)
AtRotate ==
  /\ status = "reading"
  /\ IF stream.announced
       THEN stream.pos = Len(files[stream.file]) /\ FileAnnounced <= Last
       ELSE stream.pos <= Len(files[stream.file])
  /\ FileAnnounced <= stream.limit

MutSavesNextFile == FileAnnounced + 1
FileSaved == FileAnnounced

(* The rotate branch of read(): current_binlog is set and saved.  An error of
   fs::write is only logged; the file is then as it was, or empty when it was
   truncated before. *)
ReadRotate ==
  /\ AtRotate
  /\ stream' = IF stream.announced
                 THEN [stream EXCEPT !.file = @ + 1, !.pos = 0, !.announced = FALSE]
                 ELSE [stream EXCEPT !.announced = TRUE]
  /\ current' = FileAnnounced
  /\ saved' \in {FileSaved, saved, EmptyName}
  /\ UNCHANGED <<server, status, cache, rows, failed, unreadable, skipped, kills>>

Excluded(event) == event.table \notin Included

(* The key of the two nested maps of table_meta_cache. *)
MutKeyPerFile(event) == <<current, 0>>
MetaKey(event) == <<current, event.id>>

MutCachedForAnyFile(event) == \E k \in DOMAIN cache : k[2] = event.id
Cached(event) == MetaKey(event) \in DOMAIN cache

Insert(k, meta) == [e \in DOMAIN cache \cup {k} |-> IF e = k THEN meta ELSE cache[e]]

(* desc_table asks the server for the table as it is now, which may be a later
   schema than the one the event was written with. *)
Described(event) == [table |-> event.table, version |-> version[event.table]]

(* record_table_meta. *)
ReadTableMap ==
  /\ AtEvent
  /\ Event.kind = "map"
  /\ \/ /\ Excluded(Event) \/ Cached(Event)
        /\ UNCHANGED <<cache, failed>>
     \/ /\ ~Excluded(Event) /\ ~Cached(Event)
        /\ \/ /\ cache' = Insert(MetaKey(Event), Described(Event))
              /\ UNCHANGED failed
           \/ /\ DescMayFail
              /\ failed' = failed \cup {<<stream.file, stream.pos + 1>>}
              /\ UNCHANGED cache
  /\ stream' = [stream EXCEPT !.pos = @ + 1]
  /\ UNCHANGED <<server, status, current, saved, rows, unreadable, skipped, kills>>

(* send_write_rows, send_update_rows, send_delete_rows: rows of a table without
   cached metadata are skipped. *)
ReadRows ==
  /\ AtEvent
  /\ Event.kind = "rows"
  /\ IF MetaKey(Event) \in DOMAIN cache
       THEN LET row == [file |-> stream.file, pos |-> stream.pos + 1,
                        meta |-> cache[MetaKey(Event)]]
            IN /\ flight' = flight \cup {row}
               /\ forwarded' = forwarded \cup {row}
       ELSE UNCHANGED <<flight, forwarded>>
  /\ stream' = [stream EXCEPT !.pos = @ + 1]
  /\ UNCHANGED <<server, status, current, cache, saved, delivered, failed, unreadable,
                 skipped, kills>>

(* read() leaves its loop on an error, or the connect() of binlog_stream or the
   create_dir_all() of save() panics: the process lives on and reads no more. *)
ReadError ==
  /\ status = "reading"
  /\ status' = "stopped"
  /\ UNCHANGED <<server, stream, current, cache, saved, rows, failed, unreadable, skipped,
                 kills>>

(* The sink workers take the row from its channel and write it. *)
Deliver(row) ==
  /\ flight' = flight \ {row}
  /\ delivered' = delivered \cup {row}
  /\ UNCHANGED <<server, status, stream, current, cache, saved, forwarded, failed,
                 unreadable, skipped, kills>>

-----------------------------------------------------------------------------
(* The process is killed: what is in flight is gone.  A kill inside fs::write,
   after the file was truncated, leaves an empty savepoint. *)
Kill ==
  /\ status # "down"
  /\ kills < MaxKills
  /\ kills' = kills + 1
  /\ status' = "down"
  /\ flight' = {}
  /\ saved' \in {saved} \cup (IF AtRotate THEN {EmptyName} ELSE {})
  /\ UNCHANGED <<server, stream, current, cache, delivered, forwarded, failed, unreadable,
                 skipped>>

Server ==
  \/ \E t \in Tables : CommitRows(t)
  \/ \E t \in Tables : AlterTable(t)
  \/ RotateFile
  \/ RestartServer

Next ==
  \/ Server
  \/ StartReading
  \/ ReadRotate
  \/ ReadTableMap
  \/ ReadRows
  \/ ReadError
  \/ \E row \in flight : Deliver(row)
  \/ Kill

Spec == Init /\ [][Next]_vars

(* The reader's task is scheduled and its calls return. *)
FairSpec == Spec /\ WF_vars(ReadRotate \/ ReadTableMap \/ ReadRows)

-----------------------------------------------------------------------------
(* Properties. *)

Meta == [table : Tables, version : Nat \ {0}]
Row == [file : 1 .. Last, pos : Nat \ {0}, meta : Meta]

(* The state has its types, what is read lies in the server's files, and rows
   in flight or delivered were forwarded. *)
TypeOK ==
  /\ files \in Seq(Seq([kind : {"map", "rows"}, id : Nat \ {0}, table : Tables, version : Nat \ {0}]))
  /\ id \in [Tables -> Nat]
  /\ nextId \in Nat \ {0}
  /\ version \in [Tables -> Nat \ {0}]
  /\ status \in {"down", "reading", "stopped"}
  /\ stream \in [file : 1 .. Last, pos : Nat, announced : BOOLEAN, limit : Nat]
  /\ current \in EmptyName .. Last
  /\ DOMAIN cache \subseteq (EmptyName .. Last) \X Nat
  /\ \A k \in DOMAIN cache : cache[k] \in Meta
  /\ saved \in NoSavepoint .. Last
  /\ forwarded \subseteq Row
  /\ flight \subseteq forwarded
  /\ delivered \subseteq forwarded
  /\ failed \subseteq (1 .. Last) \X (Nat \ {0})
  /\ unreadable \in BOOLEAN
  /\ skipped \subseteq (1 .. Last) \X (Nat \ {0})
  /\ kills \in Nat

(* A forwarded row is decoded with the metadata of its own table, included by
   source.tables, and never with a schema older than its own: neither a table
   id that a restarted server gives to another table, nor an ALTER between two
   events, nor a rotation leads the cache to a stale entry. *)
DecodedByOwnTable ==
  \A row \in forwarded :
    LET event == files[row.file][row.pos] IN
      /\ event.kind = "rows"
      /\ event.table \in Included
      /\ row.meta.table = event.table
      /\ row.meta.version >= event.version

(* What the reader has behind it: everything before its position, counted from
   the configured position on. *)
Behind(f, p) ==
  /\ f > StartFile \/ (f = StartFile /\ p > StartEvent)
  /\ f < stream.file \/ (f = stream.file /\ p <= stream.pos)

HasDescFailed(f, p) ==
  /\ f <= Last /\ p <= Len(files[f])
  /\ \E q \in 1 .. p : <<f, q>> \in failed /\ files[f][q].id = files[f][p].id

(* README.md:70, "a restart may read again": every row event of an included
   table that the reader has passed, in this process or in an earlier one, was
   forwarded, unless its table could not be described.  The exception is a start
   from an empty savepoint, at the position the server has come to: it skips the
   rows that were in the binlog and not forwarded by then, and no others. *)
PassedRowsForwarded ==
  status = "reading" =>
    \A f \in 1 .. Last : \A p \in DOMAIN files[f] :
      /\ Behind(f, p)
      /\ files[f][p].kind = "rows"
      /\ ~Excluded(files[f][p])
      => \/ \E row \in forwarded : row.file = f /\ row.pos = p
         \/ HasDescFailed(f, p)
         \/ <<f, p>> \in skipped

(* A restart that could read the savepoint reads the saved file again and nothing
   before it, so that it repeats no row of a file that was saved as passed,
   although saves fail, files are truncated and a restart that could not read
   its savepoint has gone back to the configured file in between. *)
ReadsFromSavepoint ==
  status = "reading" /\ ~unreadable => stream.file >= saved

(* README.md:70 again: a row that was forwarded and not delivered when the
   process was killed is read again, because its file is not before the one
   the savepoint names, if it names one. *)
LostRowsAreReread ==
  \A row \in forwarded \ (flight \cup delivered) :
    saved > EmptyName => row.file >= saved

(* The reader is what FollowedBinlog promises: whatever it caches and saves,
   whenever it is killed, it passes over the binlog in order, forwards rows as
   rows of their own tables, leaves out none but those without metadata, and
   skips only after the savepoint was emptied. *)
Kept == IF saved = NoSavepoint THEN StartFile ELSE saved

Followed == INSTANCE FollowedBinlog WITH
  binlog <- files,
  at <- [file |-> stream.file, pos |-> stream.pos],
  rows <- {[file |-> row.file, pos |-> row.pos, table |-> row.meta.table] : row \in forwarded},
  undescribed <- failed,
  kept <- Kept

ImplementsFollowed == Followed!Spec

(* While the process goes on reading, the rows of each transaction on an included
   table are forwarded in the end, over rotations, ALTERs and other tables' events,
   unless the table could not be described, the server dropped the connection, or
   the process started behind them because its savepoint was empty.  Of the n-th
   transaction of a file they are the event 2n, behind its table map. *)
EventuallyForwarded ==
  \A f \in StartFile .. MaxFiles, n \in 1 .. MaxEvents \div 2 :
    (status = "reading" /\ f <= Last /\ 2 * n <= Len(files[f]) /\ ~Excluded(files[f][2 * n]))
    ~> (\/ \E row \in forwarded : row.file = f /\ row.pos = 2 * n
        \/ HasDescFailed(f, 2 * n)
        \/ <<f, 2 * n>> \in skipped
        \/ status # "reading"
        \/ stream.limit < f)
=============================================================================
