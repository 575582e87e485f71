------------------------------- MODULE MCDict -------------------------------
(* Three keys, k2 and k3 share every chain; tables of 1, 2 and 4 slots. *)
EXTENDS Dict, TLC

CONSTANTS k1, k2, k3

HashOf == [k \in Key |-> CASE k = k1 -> 0 [] k = k2 -> 1 [] k = k3 -> 5]

SizeSet == {s \in {1, 2, 4} : s <= MaxSize}
=============================================================================
