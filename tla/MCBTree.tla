------------------------------- MODULE MCBTree --------------------------------
(***************************************************************************)
(* BTree on a small instance; see MCBTree.cfg.                             *)
(***************************************************************************)
EXTENDS BTree, TLC

\* Values are only stored and compared.
ValueSymmetry == Permutations(Values)
=============================================================================
