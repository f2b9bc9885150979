----------------------------- MODULE TableExport -----------------------------
(***************************************************************************)
(* What flink-cdc-init promises, without tasks, batches, sinks or queues:  *)
(* of each table the rows of one moment are exported, nothing else and no  *)
(* row again, and success means all of them.  Rows may be lost on the way, *)
(* for good: those that librdkafka gave up on.                             *)
(***************************************************************************)
CONSTANTS Tables, Rows

VARIABLES
  snapshot,  (* snapshot[t]: the rows of t that are to be exported *)
  exported,  (* exported[t]: those that are in the topic or in the file *)
  lost,      (* lost[t]: those that never will be *)
  result     (* "none" until the export ends with "ok" or "error" *)

vars == <<snapshot, exported, lost, result>>

Init ==
  /\ snapshot = [t \in Tables |-> {}]
  /\ exported = [t \in Tables |-> {}]
  /\ lost = [t \in Tables |-> {}]
  /\ result = "none"

(* A table is read as it is at one moment, and one that has rows not again. *)
Read(t) ==
  /\ result = "none"
  /\ snapshot[t] = {}
  /\ snapshot' \in {[snapshot EXCEPT ![t] = rows] : rows \in SUBSET Rows}
  /\ UNCHANGED <<exported, lost, result>>

Pending(t) == snapshot[t] \ (exported[t] \cup lost[t])

Export(t) ==
  /\ result = "none"
  /\ \E r \in Pending(t) : exported' = [exported EXCEPT ![t] = @ \cup {r}]
  /\ UNCHANGED <<snapshot, lost, result>>

Lose(t) ==
  /\ result = "none"
  /\ \E r \in Pending(t) : lost' = [lost EXCEPT ![t] = @ \cup {r}]
  /\ UNCHANGED <<snapshot, exported, result>>

(* What was buffered is exported at the end; then success means that nothing is
   pending. *)
End ==
  /\ result = "none"
  /\ result' \in {"ok", "error"}
  /\ \E rest \in [Tables -> SUBSET Rows] :
       /\ \A t \in Tables : rest[t] \subseteq Pending(t)
       /\ exported' = [t \in Tables |-> exported[t] \cup rest[t]]
       /\ result' = "ok" => \A t \in Tables : rest[t] = Pending(t)
  /\ UNCHANGED <<snapshot, lost>>

Next == End \/ \E t \in Tables : Read(t) \/ Export(t) \/ Lose(t)

Spec == Init /\ [][Next]_vars
=============================================================================
