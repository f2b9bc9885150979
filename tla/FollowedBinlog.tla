---------------------------- MODULE FollowedBinlog ----------------------------
(***************************************************************************)
(* What the binlog reader promises, without table ids, a metadata cache, a *)
(* savepoint file or announcements: it passes over the events of the binlog*)
(* one by one in their order and forwards each row of an included table as *)
(* a row of that table, but for those whose table map could not be         *)
(* described.  A restart goes back to the start of the file it has kept,   *)
(* or to the configured one.  Only when it kept a file and that was lost   *)
(* may it begin at the end of the binlog and skip what is before.          *)
(***************************************************************************)
EXTENDS Integers, Sequences

CONSTANTS Included, StartFile

VARIABLES
  binlog,       (* binlog[f]: the events of the f-th file                  *)
  at,           (* the file it reads, and the number of its events passed  *)
  rows,         (* the rows forwarded: file, position and table            *)
  undescribed,  (* table maps that could not be described                  *)
  kept          (* the file a restart goes back to, or Lost                *)

vars == <<binlog, at, rows, undescribed, kept>>

Lost == 0

Init ==
  /\ binlog = [f \in 1 .. StartFile |-> <<>>]
  /\ at = [file |-> StartFile, pos |-> 0]
  /\ rows = {}
  /\ undescribed = {}
  /\ kept = StartFile

(* The binlog grows at its end: no event changes, and no file but the last one
   gets more of them. *)
Write ==
  /\ Len(binlog) <= Len(binlog')
  /\ \A f \in 1 .. Len(binlog) :
       /\ Len(binlog[f]) <= Len(binlog'[f])
       /\ \A p \in 1 .. Len(binlog[f]) : binlog'[f][p] = binlog[f][p]
       /\ f < Len(binlog) => binlog'[f] = binlog[f]
  /\ UNCHANGED <<at, rows, undescribed, kept>>

Event == binlog[at.file][at.pos + 1]
Here == <<at.file, at.pos + 1>>

Forward ==
  /\ Event.kind = "rows" /\ Event.table \in Included
  /\ rows' = rows \cup {[file |-> at.file, pos |-> at.pos + 1, table |-> Event.table]}
  /\ UNCHANGED undescribed

(* A table map in front of the row could not be described. *)
NoMetadata ==
  \E q \in 1 .. at.pos :
    <<at.file, q>> \in undescribed /\ binlog[at.file][q].id = Event.id

PassOver ==
  /\ Event.kind = "map" \/ Event.table \notin Included \/ NoMetadata
  /\ \/ UNCHANGED undescribed
     \/ Event.kind = "map" /\ Event.table \in Included /\ undescribed' = undescribed \cup {Here}
  /\ UNCHANGED rows

ReadEvent ==
  /\ at.pos < Len(binlog[at.file])
  /\ at' = [at EXCEPT !.pos = @ + 1]
  /\ Forward \/ PassOver
  /\ UNCHANGED <<binlog, kept>>

(* Only at its end is a file left, for the next one. *)
NextFile ==
  /\ at.pos = Len(binlog[at.file])
  /\ at.file < Len(binlog)
  /\ at' = [file |-> at.file + 1, pos |-> 0]
  /\ kept' \in {kept, at'.file, Lost}
  /\ UNCHANGED <<binlog, rows, undescribed>>

Save ==
  /\ kept' = at.file
  /\ UNCHANGED <<binlog, at, rows, undescribed>>

Lose ==
  /\ kept' = Lost
  /\ UNCHANGED <<binlog, at, rows, undescribed>>

Restart ==
  /\ at' \in {[file |-> f, pos |-> 0] : f \in {kept, StartFile} \ {Lost}}
  /\ UNCHANGED <<binlog, rows, undescribed, kept>>

RestartAtEnd ==
  /\ kept = Lost
  /\ at' = [file |-> Len(binlog), pos |-> Len(binlog[Len(binlog)])]
  /\ UNCHANGED <<binlog, rows, undescribed, kept>>

Next == Write \/ ReadEvent \/ NextFile \/ Save \/ Lose \/ Restart \/ RestartAtEnd

Spec == Init /\ [][Next]_vars
=============================================================================
