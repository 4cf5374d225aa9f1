----------------------------- MODULE MCKvStore -------------------------------
(***************************************************************************)
(* Two keys and two interchangeable values, a prefix that matches both     *)
(* keys and one that matches the first, values that live for 0 or 2        *)
(* seconds or for ever.                                                    *)
(***************************************************************************)
EXTENDS KvStore, TLC

CONSTANTS k1, k2, a, b

MCPrefixes == {{k1, k2}, {k1}}
MCTtls == {0, 2, NoTtl}
Symmetry == Permutations({a, b})
=============================================================================
