------------------------------- MODULE MCV3Graph ------------------------------
(***************************************************************************)
(* V3Graph on a small instance: one thread makes every call, the other     *)
(* those that get in its way.                                              *)
(***************************************************************************)
EXTENDS V3Graph

CONSTANTS main, other

MCDoes == [t \in {main, other} |->
  IF t = main
  THEN {"insert_node", "get_node", "update_node", "delete_entity", "insert_edge", "flush",
        "snapshot_export", "snapshot_import"}
  ELSE {"insert_node", "get_node", "insert_edge", "flush"}]

\* After these no property says anything any more.
Judged == events = {} /\ races = {}
=============================================================================
