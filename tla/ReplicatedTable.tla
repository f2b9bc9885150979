---------------------------- MODULE ReplicatedTable ----------------------------
(***************************************************************************)
(* What the replica of a table promises, without a consumer, offsets or a  *)
(* cache: the records of a partition are applied one by one in their order,*)
(* an upsert replaces its whole row, and a delete takes its row away.  A   *)
(* record may be passed over, and from time to time the replica goes back  *)
(* to earlier records.  Its columns come and go, and those that upserts    *)
(* write may lag behind until it goes back.                                *)
(***************************************************************************)
EXTENDS Integers, Sequences

CONSTANTS Keys, Columns, Default, Absent, Partitions

VARIABLES
  log,    (* log[p]: the records of partition p                        *)
  done,   (* done[p]: how many of them the replica is through with     *)
  rows,   (* rows[k]: the row of key k                                 *)
  shape,  (* the columns of the replica                                *)
  known   (* those that upserts write                                  *)

vars == <<log, done, rows, shape, known>>

Init ==
  /\ log = [p \in Partitions |-> <<>>]
  /\ done = [p \in Partitions |-> 0]
  /\ rows = [k \in Keys |-> Absent]
  /\ shape \in SUBSET Columns
  /\ known = shape

(* A record is added to a partition. *)
Write(p) ==
  /\ Len(log'[p]) = Len(log[p]) + 1
  /\ \A i \in 1 .. Len(log[p]) : log'[p][i] = log[p][i]
  /\ log' = [log EXCEPT ![p] = log'[p]]
  /\ UNCHANGED <<done, rows, shape, known>>

(* The row that record r makes: what the row was before does not show. *)
RowOf(r) == [c \in Columns |-> IF c \in known \cap r.columns THEN r.content[c] ELSE Default]

Replace(r) ==
  /\ r.op \in {"c", "u"}
  /\ known \subseteq shape
  /\ rows' = [rows EXCEPT ![r.to] = RowOf(r)]

(* A delete that names no row takes all away. *)
TakeAway(r) ==
  /\ r.op = "d"
  /\ rows' = [k \in Keys |-> IF r.from \in {k, Absent} THEN Absent ELSE rows[k]]

(* The next record of p is applied, or passed over. *)
Apply(p) ==
  /\ done[p] < Len(log[p])
  /\ done' = [done EXCEPT ![p] = @ + 1]
  /\ LET r == log[p][done'[p]] IN Replace(r) \/ TakeAway(r) \/ UNCHANGED rows
  /\ UNCHANGED <<log, shape, known>>

(* The replica goes back to earlier records, and learns its columns. *)
GoBack ==
  /\ done' \in [Partitions -> Nat]
  /\ \A p \in Partitions : done'[p] <= done[p]
  /\ known' = shape
  /\ UNCHANGED <<log, rows, shape>>

(* A column is added, or dropped with its values. *)
Alter(c) ==
  /\ shape' = IF c \in shape THEN shape \ {c} ELSE shape \cup {c}
  /\ known' \in {known, shape'}
  /\ rows' = [k \in Keys |-> IF rows[k] = Absent THEN Absent
                                                   ELSE [rows[k] EXCEPT ![c] = Default]]
  /\ UNCHANGED <<log, done>>

Next ==
  \/ GoBack
  \/ \E p \in Partitions : Write(p) \/ Apply(p)
  \/ \E c \in Columns : Alter(c)

Spec == Init /\ [][Next]_vars
=============================================================================
