------------------------------ MODULE MCMulti ------------------------------
(* Two databases that hold one key each. *)
EXTENDS Multi, TLC

CONSTANT v1

Cmd(op, val, id) == [op |-> op, name |-> "x", val |-> val, db |-> id]

Set == Cmd("set", v1, 0)
Move == Cmd("move", v1, 1)
Save == Cmd("save", v1, 0)
Select == Cmd("select", v1, 1)
FlushDb == Cmd("flushdb", v1, 0)
FlushAll == Cmd("flushall", v1, 0)
Unwatch == Cmd("unwatch", v1, 0)
SlaveOf == Cmd("slaveof", v1, 0)

Plan(n, commands, queue, changes) ==
    {[clients |-> C, commands |-> commands, queue |-> queue, dirty |-> changes] :
        C \in {D \in SUBSET Client : Cardinality(D) = n}}

\* Two clients that watch and change the keys; one client whose transactions
\* have two commands.  DEL is a SET as far as clients are told.
MCPlans ==
    Plan(2, {Set, Select, FlushDb, FlushAll, Unwatch}, 1, 1)
    \cup Plan(2, {Set, Move, SlaveOf}, 1, 1)
    \cup Plan(1, {Set, Move, Select, FlushDb, FlushAll, Save, SlaveOf, Unwatch}, 2, 2)

MovePlans == Plan(2, {Set, Move}, 1, 2)

SavePlans == Plan(1, {Set, Save}, 2, 2)

ClientSymmetry == Permutations(Client)
=============================================================================
