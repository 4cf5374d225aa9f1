------------------------------- MODULE MCAlloc --------------------------------
(***************************************************************************)
(* PageAllocator on small instances; see MCAlloc.cfg.                    *)
(***************************************************************************)
EXTENDS PageAllocator
=============================================================================
