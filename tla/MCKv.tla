-------------------------------- MODULE MCKv ---------------------------------
(***************************************************************************)
(* KvEngine on small instances; the constants are in the MCKv_*.cfg files. *)
(***************************************************************************)
EXTENDS KvEngine
=============================================================================
