-------------------------------- MODULE Types --------------------------------
(* The commands of all the types over one keyspace.                       *)
EXTENDS RdbObject

(* The types a key may be given in the same behaviour as another key's:   *)
(* the commands of lists and hashes meet no object of another type except *)
(* to refuse it, those of sorted sets read sets.                          *)
Together == {{"list", "none"}, {"hash", "none"}, {"set", "zset", "none"}}

Init ==
    /\ db = [k \in Key |-> NoKey]
    /\ val = [k \in Key |-> NoValue]
    /\ cmd = [dirty |-> FALSE, touched |-> {}, panic |-> FALSE]

Next ==
    /\ ListNext \/ HashNext \/ SetNext \/ ZNext \/ RdbNext
    /\ \E T \in Together : \A k \in Key : db'[k].type \in T

Spec == Init /\ [][Next]_objVars

----------------------------------------------------------------------------
Decoded(o) ==
    CASE o.type = "list" -> Items(o)
      [] o.type = "set" -> Members(o)
      [] o.type = "hash" -> Fields(o)
      [] o.type = "zset" /\ o.enc = "skiplist" -> o.ptr.dict
      [] o.type = "zset" /\ o.enc = "ziplist" ->
           FoldLeft(LAMBDA z, j : (Ele(o.ptr, j) :> ScoreAt(o.ptr, j)) @@ z,
                    <<>>, [j \in 1 .. Pairs(o.ptr) |-> j])
      [] OTHER -> <<>>

(* Whatever its encoding, and through every conversion between encodings, *)
(* a key holds the value that the commands on it made; a key that holds   *)
(* nothing is gone from the keyspace.                                     *)
Represents ==
    \A k \in Key : db[k].type = val[k].type /\ Decoded(db[k]) = val[k].v

(* What each encoding needs for its own searches: the previous lengths of *)
(* every ziplist are right after any cascade of updates, every intset is  *)
(* sorted and wide enough, the hash table and the skiplist of a sorted    *)
(* set agree and the spans, from which ranks are computed, are right; so  *)
(* no assertion fails (t_zset.c: what the hash table has is deleted from  *)
(* the skiplist).                                                         *)
EncodingsSound ==
    \A k \in Key :
      /\ db[k].enc = "ziplist" => ZiplistWellFormed(db[k].ptr)
      /\ db[k].enc = "intset" => IntsetWellFormed(db[k].ptr)
      /\ db[k].type = "zset" => ZsetHalvesAgree(db[k])
      /\ ~cmd.panic

(* Every read command answers from the encoding at hand (by index, rank,  *)
(* score or member) what the value of the key says.                       *)
ReadsAgree ==
    \A k \in Key :
      CASE db[k].type = "list" -> ListReadsAgree(k)
        [] db[k].type = "set" -> SetReadsAgree(k)
        [] db[k].type = "hash" -> HashReadsAgree(k)
        [] db[k].type = "zset" -> ZsetReadsAgree(k)
        [] OTHER -> TRUE

(* A command that changes the value of a key counts it in server.dirty,   *)
(* without which it would reach neither the append only file nor a slave, *)
(* and signals the key to the clients that watch it.                      *)
ChangesPropagated ==
    [][\A k \in Key : val'[k] # val[k] => cmd'.dirty /\ k \in cmd'.touched]_objVars
=============================================================================
