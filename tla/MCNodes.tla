------------------------------- MODULE MCNodes --------------------------------
(***************************************************************************)
(* NodeStore on a small instance; see MCNodes.cfg.                         *)
(***************************************************************************)
EXTENDS NodeStore, TLC

\* Payloads are only compared.
PayloadSymmetry == Permutations(Payloads)

\* After these events no property says anything any more.
Judged == events \cap {"reused", "overwritten", "phantom", "lost"} = {}
=============================================================================
