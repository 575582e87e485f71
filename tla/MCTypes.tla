------------------------------ MODULE MCTypes ------------------------------
(* The commands of the types, with small values that make every conversion and *)
(* every cascade happen; and the blocking list operations, with two keys, of    *)
(* which a client may wait for one or for both.  Blocking keeps what its        *)
(* properties need of a list, not the encodings: a behaviour is one of one of   *)
(* the two models.                                                              *)
EXTENDS Types, Blocking

CONSTANTS a, b

VARIABLE part

MCListIndex == -2 .. 2
MCScore == {0, Inf}
MCWeight == {-1}
MCSetValue == {-4, 1, 9, 500}
MCMaxElements == [list |-> 5, set |-> 3, hash |-> 3, zset |-> 3]
WaitLists == {<<a>>, <<b, a>>}

MCInit == Init /\ BlInit /\ part \in {"types", "blocking"}

MCNext ==
    \/ part = "types" /\ Next /\ UNCHANGED <<part, blVars>>
    \/ part = "blocking" /\ BlNext /\ UNCHANGED <<part, objVars>>

MCSpec == MCInit /\ [][MCNext]_<<part, objVars, blVars>>

MCView == <<part, db, val, cmd.panic, blVars>>
KeySymmetry == Permutations(Key) \cup Permutations(Client)
=============================================================================
