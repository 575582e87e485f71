------------------------------ MODULE DictMap ------------------------------
(***************************************************************************)
(* What a dict promises its callers: a finite map from keys to values.     *)
(* Every operation is one step that changes the map and leaves its reply   *)
(* in ret.  Buckets, tables and rehashing are not visible here.            *)
(***************************************************************************)
CONSTANTS Key,   \* the keys
          Val,   \* the values
          Null   \* no value / no entry

VARIABLES map,   \* the value of every key, Null when the key is absent
          ret    \* the reply of the last operation

mapVars == <<map, ret>>

MapInit == map = [k \in Key |-> Null] /\ ret = Null

\* dictAdd: succeeds only for a new key.
MapAdd(k, v) ==
    \/ ret' = "ok" /\ map[k] = Null /\ map' = [map EXCEPT ![k] = v]
    \/ ret' = "err" /\ map[k] # Null /\ map' = map

\* dictReplace, and dictReplaceRaw followed by setting the value.
MapReplace(k, v) ==
    /\ \/ ret' = "added" /\ map[k] = Null
       \/ ret' = "updated" /\ map[k] # Null
    /\ map' = [map EXCEPT ![k] = v]

MapDelete(k) ==
    /\ \/ ret' = "ok" /\ map[k] # Null
       \/ ret' = "err" /\ map[k] = Null
    /\ map' = [map EXCEPT ![k] = Null]

MapFind(k) == ret' = map[k] /\ map' = map

\* dictGetRandomKey: some present key, Null exactly when there is none.
MapRandom ==
    /\ \/ \E k \in Key : ret' = k /\ map[k] # Null
       \/ ret' = Null /\ \A k \in Key : map[k] = Null
    /\ map' = map

MapEmpty == ret' = Null /\ map' = [k \in Key |-> Null]

MapNext ==
    \/ \E k \in Key, v \in Val : MapAdd(k, v) \/ MapReplace(k, v)
    \/ \E k \in Key : MapDelete(k) \/ MapFind(k)
    \/ MapRandom
    \/ MapEmpty

MapSpec == MapInit /\ [][MapNext]_mapVars
=============================================================================
