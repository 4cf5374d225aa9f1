------------------------------ MODULE KvDurable ------------------------------
(***************************************************************************)
(* What the V3 key-value store promises about durability, independent of   *)
(* the log, the checkpoint file and the lock that serves each of them.     *)
(*                                                                         *)
(* While the database is open, cur is the store every reader sees.         *)
(* recoverable is the set of stores a crash at this moment may fall back   *)
(* to: a write adds the new store to it, a flush that returns removes      *)
(* stores older than the one it saw when it began, and reopening after a   *)
(* crash picks one member, which from then on is the only one.             *)
(***************************************************************************)
CONSTANTS Keys, Vals, Null

VARIABLES up, cur, recoverable

vars == <<up, cur, recoverable>>

Store == [Keys -> Vals \cup {Null}]
Empty == [k \in Keys |-> Null]

TypeOK ==
  /\ up \in BOOLEAN
  /\ cur \in Store
  /\ recoverable \subseteq Store

Init ==
  /\ up = TRUE
  /\ cur = Empty
  /\ recoverable = {Empty}

Write(k, v) ==
  /\ up
  /\ cur' = [cur EXCEPT ![k] = v]
  /\ recoverable' = recoverable \cup {cur'}
  /\ UNCHANGED up

\* A completed flush may only narrow the choice, and never below the store
\* that is visible now.
Flush ==
  /\ up
  /\ recoverable' \subseteq recoverable
  /\ cur \in recoverable'
  /\ UNCHANGED <<up, cur>>

Stop ==
  /\ up
  /\ up' = FALSE
  /\ cur' = Empty
  /\ UNCHANGED recoverable

Reopen ==
  /\ ~up
  /\ up' = TRUE
  /\ cur' \in recoverable
  /\ recoverable' = {cur'}

Next ==
  \/ \E k \in Keys, v \in Vals \cup {Null} : Write(k, v)
  \/ Flush
  \/ Stop
  \/ Reopen

Spec == Init /\ [][Next]_vars
=============================================================================
