------------------------------- MODULE MCSqlite -------------------------------
(***************************************************************************)
(* SqliteGraph on a small instance: one instance does everything, the      *)
(* other only writes to the same file.  A vector index lives in a graph    *)
(* but shares no row and no cache with the rest of it.  A behaviour is one *)
(* of three: any calls on a graph but dumps and loads, few of them; more   *)
(* calls, of those that make edges, dump them and load them; or those of   *)
(* an index.                                                               *)
(***************************************************************************)
EXTENDS SqliteGraph, HnswIndex

CONSTANTS full, writer, user, doc, uses

VARIABLE part

GraphOrIndexInit ==
  /\ Init /\ IndexInit
  /\ part \in {"graph", "copies", "index"}
  /\ part # "index" => ix = NewIndex(FALSE, 16)

\* Bound on the calls that write, where all of them may be made.
MaxOfAllCalls == 3

\* The entities of a graph are made at once; writes of either instance may
\* come before a dump, into it, or between it and the load, of which there
\* may be several, also into a new file.
CopyNext ==
  /\ \/ \E kinds \in EntityBatches : InsertEntitiesBulk(full, kinds)
     \/ \E i \in Inst :
          \/ \E es \in EdgeBatches : BeginEdges(i, es)
          \/ EndExists(i) \/ EndMissing(i) \/ InsertEdges(i)
          \/ \E e \in edges : DeleteEdge(i, e)
          \/ \E x \in Ids : DeleteEntity(i, x) \/ \E k \in Kinds : UpdateEntity(i, x, k) \/ AddLabel(i, x, k)
          \/ DeleteItsEdges(i) \/ DeleteItsEdgesFails(i)
          \/ DumpAndLoad(i)
          \/ In(i, "dump") /\ Die(i)
     \/ Fresh
  /\ Watch
  /\ UNCHANGED reads

\* A list that is cached when the last of these calls begins, which may load
\* other edges.
CopyRead ==
  /\ calls = MaxCalls - 1 /\ reads = 0
  /\ file # None /\ file.edges # edges /\ \A i \in Inst : Idle(i)
  /\ FetchOutgoing(full, 1)
  /\ Watch

GraphOrIndexNext ==
  \/ part = "graph" /\ Next /\ calls' <= MaxOfAllCalls /\ file' = None /\ UNCHANGED <<indexVars, part>>
  \/ part = "copies" /\ (CopyNext \/ CopyRead) /\ UNCHANGED <<indexVars, part>>
  \/ part = "index" /\ IndexNext /\ UNCHANGED <<vars, part>>
GraphOrIndex == GraphOrIndexInit /\ [][GraphOrIndexNext]_<<vars, indexVars, part>>

MCBatches == {<<0, 3>>}
MCConfigs == {[multi |-> FALSE, ml |-> 1], [multi |-> FALSE, ml |-> 16], [multi |-> TRUE, ml |-> 3]}

MCInst == {full, writer}
MCDoes == [i \in MCInst |->
  IF i = full
  THEN {"read", "query", "snapshot", "insert_entity", "insert_entities_bulk",
        "bulk_insert_entities", "update_entity", "add_label", "delete_entity", "insert_edge",
        "insert_edges_bulk", "bulk_insert_edges", "delete_edge", "dump", "load"}
  ELSE {"delete_entity", "insert_edge"}]
MCQueries == {[op |-> "bfs", start |-> 1, depth |-> 1, dir |-> "out"],
              [op |-> "k_hop", start |-> 1, depth |-> 2, dir |-> "in"]}

uses12 == [from |-> 1, to |-> 2, type |-> uses]
uses21 == [from |-> 2, to |-> 1, type |-> uses]
MCEntityBatches == {<<user, doc>>}
MCEdgeBatches == {<<uses12>>, <<uses12, uses21>>}
MCChunkings == {<<<<uses12>>, <<uses21>>>>, <<<<uses21, uses21>>>>}
=============================================================================
