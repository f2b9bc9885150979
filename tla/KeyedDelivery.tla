---------------------------- MODULE KeyedDelivery ----------------------------
(***************************************************************************)
(* What the incremental pipeline promises its consumers, without channels, *)
(* workers or batches: the rows read from the binlog reach the partition   *)
(* of their routing key at most once each and, per key, in binlog order.   *)
(* Rows may be missing: a failed batch is not retried.                     *)
(***************************************************************************)
EXTENDS Integers, Sequences

CONSTANTS Partitions, PartitionOf

VARIABLES
  source,  (* the rows read so far *)
  sink     (* sink[p]: positions, in source, of the rows delivered to p *)

Init ==
  /\ source = <<>>
  /\ sink = [p \in Partitions |-> <<>>]

(* new extends old by at least one element. *)
Extends(new, old) ==
  /\ Len(new) > Len(old)
  /\ \A i \in 1 .. Len(old) : new[i] = old[i]

Read ==
  /\ Extends(source', source)
  /\ UNCHANGED sink

(* A batch is delivered to p: rows that belong there, each newer than all rows
   of its key that p has, the earlier ones of the batch included. *)
Deliver(p) ==
  /\ Extends(sink'[p], sink[p])
  /\ \A i \in Len(sink[p]) + 1 .. Len(sink'[p]) :
       /\ sink'[p][i] \in 1 .. Len(source)
       /\ PartitionOf[source[sink'[p][i]].key] = p
       /\ \A j \in 1 .. i - 1 :
            source[sink'[p][j]].key = source[sink'[p][i]].key => sink'[p][j] < sink'[p][i]
  /\ sink' = [sink EXCEPT ![p] = sink'[p]]
  /\ UNCHANGED source

Next == Read \/ \E p \in Partitions : Deliver(p)

Spec == Init /\ [][Next]_<<source, sink>>
=============================================================================
