---------------------------- MODULE MCMysqlApply ----------------------------
(***************************************************************************)
(* Values for the constants of MysqlApply.                                 *)
(***************************************************************************)
EXTENDS MysqlApply, TLC

CONSTANTS k1, k2, name, mail, v1, null, none

MCKeys == {k1, k2}
MCColumns == {name, mail}

(* The source has a column that the replica lacks. *)
MCFirstColumns == [source |-> {name, mail}, replica |-> {name}]
MCValues == {v1, null}

(* Both keys share partition 0. *)
MCOnePartition == {0}
MCAllInOne == [k \in MCKeys |-> 0]
=============================================================================
