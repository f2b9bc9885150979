--------------------------- MODULE MCBinlogReader ---------------------------
(***************************************************************************)
(* Values for the constants of BinlogReader.                               *)
(***************************************************************************)
EXTENDS BinlogReader

CONSTANTS orders, users

MCTables == {orders, users}
MCOnlyOrders == {orders}
=============================================================================
