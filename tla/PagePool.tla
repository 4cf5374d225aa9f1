------------------------------ MODULE PagePool --------------------------------
(***************************************************************************)
(* What the parts of the V3 engine rely on when they ask for a page: the   *)
(* page they are given belongs to nobody else, and it stays theirs until   *)
(* they hand it back or a crash takes it from them.                        *)
(***************************************************************************)
CONSTANTS
  Clients,  \* the parts of the engine that own pages
  Pages     \* page numbers

VARIABLE owned     \* the pages of every client

Owners(p) == {c \in Clients : p \in owned[c]}

Init == owned = [c \in Clients |-> {}]

Grant(c, p) ==
  /\ Owners(p) = {}
  /\ owned' = [owned EXCEPT ![c] = @ \cup {p}]

Return(c, p) ==
  /\ p \in owned[c]
  /\ owned' = [owned EXCEPT ![c] = @ \ {p}]

\* After a crash owners have what is left of their pages.
Crash == \E kept \in SUBSET Pages :
           owned' = [c \in Clients |-> owned[c] \cap kept]

Next ==
  \/ \E c \in Clients, p \in Pages : Grant(c, p) \/ Return(c, p)
  \/ Crash

Spec == Init /\ [][Next]_owned
=============================================================================
