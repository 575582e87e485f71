------------------------------ MODULE RdbObject ------------------------------
(* rdb.c, migrate.c: a value written by rdbSaveObject and read again by   *)
(* rdbLoadObject, which chooses its encoding anew.                        *)
EXTENDS ListType, HashType, ZsetType

(* What the file has of object o: a ziplist or an intset as the block of  *)
(* memory it is, anything else as its elements.  Those of a hash table    *)
(* come in the order of the table: any order for sets and hashes, one     *)
(* order for sorted sets, whose elements are put in order again.          *)
rdbSaveObject(o) ==
    CASE o.enc \in {"ziplist", "intset"} -> {[blob |-> TRUE, c |-> o.ptr]}
      [] o.enc = "linkedlist" -> {[blob |-> FALSE, c |-> o.ptr]}
      [] o.type = "set" -> {[blob |-> FALSE, c |-> s] : s \in SetToSeqs(o.ptr)}
      [] o.type = "zset" ->
           LET s == SetToSeq(DOMAIN o.ptr.dict)
           IN  {[blob |-> FALSE,
                 c |-> [i \in DOMAIN s |-> <<s[i], o.ptr.dict[s[i]]>>]]}
      [] o.type = "hash" ->
           {[blob |-> FALSE, c |-> [i \in DOMAIN s |-> <<s[i], o.ptr[s[i]]>>]] :
               s \in SetToSeqs(DOMAIN o.ptr)}

(* A block is taken as it is, and converted when it has more entries than *)
(* the configuration allows; the length of its values is not looked at.   *)
loadBlob(type, c, lv) ==
    LET o == Object(type, IF type = "set" THEN "intset" ELSE "ziplist", c)
    IN  CASE type = "list" ->
               IF ziplistLen(c) > ListMaxZiplistEntries THEN listTypeConvert(o)
               ELSE Counted(o)
          [] type = "set" ->
               IF setTypeSize(o) > SetMaxIntsetEntries THEN setTypeConvert(o) ELSE o
          [] type = "zset" ->
               IF zsetLength(o) > ZsetMaxZiplistEntries THEN ToSkiplist(o, lv)
               ELSE ZCounted(o)
          [] type = "hash" ->
               IF hashTypeLength(o) > HashMaxZiplistEntries THEN hashTypeConvert(o)
               ELSE HashCounted(o)

(* A linked list starts as a ziplist when it is short enough for one and  *)
(* stops being one at the first value that is too long.                   *)
loadList(vs) ==
    FoldLeft(LAMBDA o, v :
               LET p == listTypeTryConversion(o, v)
               IN  [p EXCEPT !.ptr = IF p.enc = "ziplist" THEN ziplistPush(@, v, "tail")
                                     ELSE Append(@, v)],
             IF Len(vs) > ListMaxZiplistEntries
             THEN Object("list", "linkedlist", <<>>) ELSE NewList, vs)

(* The elements of a set go to an intset, when they are few enough, until *)
(* one of them is no integer.                                             *)
loadSet(vs) ==
    FoldLeft(LAMBDA o, v :
               IF o.enc = "hashtable" THEN [o EXCEPT !.ptr = @ \union {v}]
               ELSE IF IsNumber(v) THEN [o EXCEPT !.ptr = intsetAdd(@, v)]
               ELSE [setTypeConvert(o) EXCEPT !.ptr = @ \union {v}],
             IF Len(vs) > SetMaxIntsetEntries THEN Object("set", "hashtable", {})
             ELSE Object("set", "intset", intsetNew), vs)

(* A sorted set is built as a skiplist and then turned into a ziplist     *)
(* when it fits one; numbers do not count as long.                        *)
loadZset(ps, lv) ==
    LET o == FoldLeft(LAMBDA z, p : ZAddNode(z, p[2], p[1], lv), NewZset, ps)
    IN  IF /\ Len(ps) <= ZsetMaxZiplistEntries
           /\ \A i \in DOMAIN ps : IsNumber(ps[i][1])
                                    \/ StringLen(ps[i][1]) <= ZsetMaxZiplistValue
        THEN ToZiplist(o) ELSE o

(* A hash is read into a ziplist up to a field or a value that is too     *)
(* long, that pair included, and from there on into a hash table.         *)
loadHash(ps) ==
    FoldLeft(LAMBDA o, p :
               IF o.enc = "hashtable"
               THEN [o EXCEPT !.ptr = (p[1] :> p[2]) @@ @]
               ELSE hashTypeTryConversion(
                      [o EXCEPT !.ptr = ziplistPush(ziplistPush(@, p[1], "tail"),
                                                    p[2], "tail")], p),
             IF Len(ps) > HashMaxZiplistEntries
             THEN hashTypeConvert(NewHash) ELSE NewHash, ps)

rdbLoadObject(type, x, lv) ==
    IF x.blob THEN loadBlob(type, x.c, lv)
    ELSE CASE type = "list" -> loadList(x.c)
           [] type = "set" -> loadSet(x.c)
           [] type = "zset" -> loadZset(x.c, lv)
           [] type = "hash" -> loadHash(x.c)

LoadLevels(o) == Levels(IF o.type = "zset" THEN ZElements(o) ELSE {})

(* The server starts again from its dump file (or DEBUG RELOAD): here for *)
(* one key.                                                               *)
Reload(k) ==
    /\ db[k] # NoKey
    /\ \E x \in rdbSaveObject(db[k]), lv \in LoadLevels(db[k]) :
          db' = [db EXCEPT ![k] = rdbLoadObject(db[k].type, x, lv)]
    /\ Signal(FALSE, {}) /\ UNCHANGED val

(* DUMP of src and RESTORE of the payload as dst, which must not exist.   *)
Restore(src, dst) ==
    /\ db[src] # NoKey /\ db[dst] = NoKey /\ Room(val[src].type, ValueSize(val[src]))
    /\ \E x \in rdbSaveObject(db[src]), lv \in LoadLevels(db[src]) :
          db' = [db EXCEPT ![dst] = rdbLoadObject(db[src].type, x, lv)]
    /\ val' = [val EXCEPT ![dst] = val[src]]
    /\ Signal(TRUE, {dst})

RdbNext == \E k \in Key : Reload(k) \/ \E d \in Key : Restore(k, d)
=============================================================================
