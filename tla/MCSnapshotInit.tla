--------------------------- MODULE MCSnapshotInit ---------------------------
(***************************************************************************)
(* Values for the constants of SnapshotInit.                               *)
(***************************************************************************)
EXTENDS SnapshotInit, TLC

CONSTANTS orders, users, items, archive

MCCatalog == <<items, orders, archive, users>>
MCNameOf ==
  (items :> [database |-> <<"d">>, table |-> <<"i">>])
  @@ (orders :> [database |-> <<"d">>, table |-> <<"o", "1">>])
  @@ (archive :> [database |-> <<"e">>, table |-> <<"a", "u">>])
  @@ (users :> [database |-> <<"e">>, table |-> <<"u">>])

(* `d.*, e.u,` takes all tables but archive, `d.o[0-9]+,e.u` two. *)
MCThree == <<"d", ".", "*", ",", " ", "e", ".", "u", ",">>
MCTwo == <<"d", ".", "o", "[0-9]", "+", ",", "e", ".", "u">>

(* orders can fill a batch of two, items stays empty. *)
MCRowsOf == (items :> {}) @@ (archive :> {}) @@ (orders :> {1, 2}) @@ (users :> {1})
MCTwoRows == [t \in {items, archive, orders, users} |-> {1, 2}]

(* fail-on-mismatch is left at its default. *)
MCVerify == [row_count |-> TRUE]
=============================================================================
