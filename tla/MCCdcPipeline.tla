---------------------------- MODULE MCCdcPipeline ----------------------------
(***************************************************************************)
(* Values for the constants of CdcPipeline.  The three keys have the hashes*)
(* 0, 2 and 3: with two channels and three partitions channel 1 feeds two  *)
(* partitions and partition 0 is fed by both channels.                     *)
(***************************************************************************)
EXTENDS CdcPipeline, TLC

CONSTANTS k0, k2, k3

MCKeys == {k0, k2, k3}
MCPartitions == {0, 2}
MCChannelOf == (k0 :> 1) @@ (k2 :> 1) @@ (k3 :> 2)
MCPartitionOf == (k0 :> 0) @@ (k2 :> 2) @@ (k3 :> 0)

Insert(k) == [op |-> "c", key |-> k, fault |-> "none"]
Faulty(k, f) == [op |-> "c", key |-> k, fault |-> f]

(* Rows that convert. *)
MCInserts == {Insert(k) : k \in MCKeys}

(* Rows some of which make a worker or the source panic. *)
MCFaulty == MCInserts \cup {Faulty(k0, "value"), Faulty(k3, "value"), Faulty(k2, "key")}
=============================================================================
