------------------------------- MODULE MCEdges --------------------------------
(***************************************************************************)
(* EdgeStore on a small instance; see MCEdges.cfg.                         *)
(***************************************************************************)
EXTENDS EdgeStore, TLC

\* Nodes are only compared.
NodeSymmetry == Permutations(Nodes)
=============================================================================
