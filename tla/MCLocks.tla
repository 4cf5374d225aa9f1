------------------------------- MODULE MCLocks --------------------------------
(***************************************************************************)
(* BackendLocks for two threads: with all operations at once, and with     *)
(* each of the largest sets of compatible operations.                      *)
(***************************************************************************)
EXTENDS BackendLocks

All == {"insert_node", "insert_edge", "update_node", "delete_entity",
        "commit_batch", "entity_ids", "get_node", "neighbors", "bfs", "kv_set",
        "kv_get", "flush", "snapshot_import"}

MCMixes == {
  All,
  All \ {"flush", "update_node", "delete_entity", "commit_batch", "entity_ids"},
  All \ {"insert_edge", "entity_ids"},
  All \ {"insert_edge", "insert_node", "update_node", "delete_entity"},
  All \ {"flush", "update_node", "delete_entity", "commit_batch", "insert_node"}}

\* The four smaller sets are compatible and cannot be extended; the first is not.
ASSUME MixesAsDescribed ==
  \A ops \in MCMixes :
     IF ops = All THEN ~Compatible(ops)
     ELSE Compatible(ops) /\ \A o \in All \ ops : ~Compatible(ops \cup {o})
=============================================================================
