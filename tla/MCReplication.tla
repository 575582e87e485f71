--------------------------- MODULE MCReplication ---------------------------
EXTENDS Replication, TLC

CONSTANTS n1, n2, n3

Hosts(h1, h2, h3) == n1 :> h1 @@ n2 :> h2 @@ n3 :> h3
Chain == Hosts(None, n1, n2)
Star == Hosts(None, n1, n1)

Bounds(h, d, w, s, f, r) ==
    [host |-> h, db |-> d, writes |-> w, saves |-> s, faults |-> f, roles |-> r,
     forks |-> {"sync", "next"}]

(* Two servers below n1 where a link, a save or a fork fails; changes of  *)
(* roles; a chain that uses two databases.                                *)
MCScenario ==
    {Bounds(Chain, {0}, 1, 1, 1, 0), Bounds(Star, {0}, 1, 1, 1, 0),
     Bounds(Chain, {0}, 1, 0, 1, 1), Bounds(Star, {0}, 1, 0, 0, 2),
     Bounds(Chain, {0, 1}, 3, 0, 0, 0)}

(* Two slaves of one master that uses two databases.                      *)
MCTwoDbs == {Bounds(Star, {0, 1}, 2, 0, 0, 0)}
=============================================================================
