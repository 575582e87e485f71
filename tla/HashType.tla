------------------------------ MODULE HashType ------------------------------
(* t_hash.c: hashes, as a ziplist of fields and values in turn while they *)
(* are small, as a hash table (here a function) afterwards.               *)
EXTENDS Objects

CONSTANTS
    Field, HashValue,        \* the fields and values given to commands
    HashMaxZiplistEntries,   \* hash-max-ziplist-entries
    HashMaxZiplistValue,     \* hash-max-ziplist-value
    LongLongMax              \* bound of the integers HINCRBY computes with

(* What hashTypeNext walks over: each field with the value after it.      *)
Fields(o) ==
    IF o.enc = "hashtable" THEN o.ptr
    ELSE LET e == ZipValues(o.ptr)
             at == {i \in DOMAIN e : i % 2 = 1}
         IN  [f \in {e[i] : i \in at} |->
                e[1 + CHOOSE i \in at : e[i] = f]]

hashTypeConvert(o) == Object("hash", "hashtable", Fields(o))

(* hashTypeTryConversion looks at the arguments of the command, which are *)
(* still strings.                                                         *)
hashTypeTryConversion(o, args) ==
    IF o.enc = "ziplist"
       /\ \E i \in DOMAIN args : StringLen(args[i]) > HashMaxZiplistValue
    THEN hashTypeConvert(o) ELSE o

(* hashTypeLength.                                                        *)
hashTypeLength(o) ==
    IF o.enc = "ziplist" THEN ziplistLen(o.ptr) \div 2
    ELSE Cardinality(DOMAIN o.ptr)

HashCounted(o) ==
    IF o.enc = "ziplist" THEN [o EXCEPT !.ptr = Recounted(@)] ELSE o

(* hashTypeGetFromZiplist, hashTypeGetFromHashTable: the value of f as a  *)
(* sequence, empty when there is none.                                    *)
hashTypeGet(o, f) ==
    IF o.enc = "hashtable" THEN IF f \in DOMAIN o.ptr THEN <<o.ptr[f]>> ELSE <<>>
    ELSE LET i == ziplistFind(o.ptr, 1, f, 1)
         IN  IF i = 0 THEN <<>> ELSE <<o.ptr.e[i + 1].v>>

(* After an insertion the length of a ziplist is checked.                 *)
HashChecked(o) ==
    IF o.enc = "ziplist" /\ hashTypeLength(o) > HashMaxZiplistEntries
    THEN hashTypeConvert(o) ELSE HashCounted(o)

(* hashTypeSet: in a ziplist the old value is deleted and the new one     *)
(* inserted in its place.                                                 *)
hashTypeSet(o, f, v) ==
    IF o.enc = "hashtable"
    THEN [o EXCEPT !.ptr = [g \in DOMAIN @ \union {f} |-> IF g = f THEN v ELSE @[g]]]
    ELSE LET i == ziplistFind(o.ptr, 1, f, 1)
         IN  HashChecked([o EXCEPT !.ptr =
               IF i = 0 THEN ziplistPush(ziplistPush(@, f, "tail"), v, "tail")
               ELSE ziplistInsert(ziplistDelete(@, i + 1, 1), i + 1, v)])

(* hashTypeDelete: the field and then, where it was, the value.           *)
hashTypeDelete(o, f) ==
    IF o.enc = "hashtable"
    THEN [o EXCEPT !.ptr = [g \in DOMAIN @ \ {f} |-> @[g]]]
    ELSE LET i == ziplistFind(o.ptr, 1, f, 1)
         IN  IF i = 0 THEN o
             ELSE [o EXCEPT !.ptr = ziplistDelete(ziplistDelete(@, i, 1), i, 1)]

NewHash == Object("hash", "ziplist", ziplistNew)
HashObjectOf(k) == IF Has(k, "hash") THEN db[k] ELSE NewHash
HashOf(k) == IF Has(k, "hash") THEN val[k].v ELSE <<>>
With(h, f, v) == [g \in DOMAIN h \union {f} |-> IF g = f THEN v ELSE h[g]]

PutHash(k, o, h) ==
    /\ db' = [db EXCEPT ![k] = o]
    /\ val' = [val EXCEPT ![k] = Value("hash", h)]
    /\ Signal(TRUE, {k})

----------------------------------------------------------------------------
(* HSET, and HMSET of two fields: the conversion is tried once for all    *)
(* the arguments.                                                         *)
HMSet(k, fs, vs) ==
    /\ Fits(k, "hash") /\ Room("hash", Len(fs))
    /\ LET o == hashTypeTryConversion(HashObjectOf(k), fs \o vs)
       IN  PutHash(k,
             FoldLeft(LAMBDA p, i : hashTypeSet(p, fs[i], vs[i]), o,
                      [i \in DOMAIN fs |-> i]),
             FoldLeft(LAMBDA h, i : With(h, fs[i], vs[i]), HashOf(k),
                      [i \in DOMAIN fs |-> i]))

(* HSETNX: the conversion is done even when the field is there.           *)
HSetNX(k, f, v) ==
    /\ Fits(k, "hash") /\ Room("hash", 1)
    /\ LET o == hashTypeTryConversion(HashObjectOf(k), <<f, v>>)
       IN  \/ /\ hashTypeGet(o, f) = <<>>
              /\ PutHash(k, hashTypeSet(o, f, v), With(HashOf(k), f, v))
           \/ /\ hashTypeGet(o, f) # <<>>
              /\ db' = [db EXCEPT ![k] = o]
              /\ Signal(FALSE, {}) /\ UNCHANGED val

(* HINCRBY: a missing field counts as 0; a value that is no integer, or a *)
(* sum past the range of the integers, is refused.  The result is not     *)
(* checked against hash-max-ziplist-value.                                *)
HIncrBy(k, f, incr) ==
    /\ Fits(k, "hash") /\ Room("hash", 1)
    /\ LET o == HashObjectOf(k)
           got == hashTypeGet(o, f)
           old == IF got = <<>> THEN 0 ELSE got[1]
           new == old + incr
       IN  /\ IsNumber(old)
           /\ ~(incr < 0 /\ old < 0 /\ incr < -LongLongMax - 1 - old)
           /\ ~(incr > 0 /\ old > 0 /\ incr > LongLongMax - old)
           /\ PutHash(k, hashTypeSet(o, f, new),
                      With(HashOf(k), f,
                           (IF f \in DOMAIN HashOf(k) THEN HashOf(k)[f] ELSE 0) + incr))

(* HDEL: the loop over the arguments ends when the hash is empty.         *)
HDel(k, fs) ==
    /\ Has(k, "hash")
    /\ LET o == FoldLeft(LAMBDA p, f :
                           IF hashTypeGet(p, f) = <<>> THEN p
                           ELSE HashCounted(hashTypeDelete(p, f)), db[k], fs)
           deleted == \E i \in DOMAIN fs : hashTypeGet(db[k], fs[i]) # <<>>
       IN  /\ db' = Keep(db, k, o, hashTypeLength(o) = 0)
           /\ Signal(deleted, IF deleted THEN {k} ELSE {})
    /\ val' = KeepValue(val, k, Value("hash",
                [g \in DOMAIN val[k].v \ ToSet(fs) |-> val[k].v[g]]))

HashNext ==
    \E k \in Key, f \in Field :
      \/ \E v \in HashValue :
            \/ HMSet(k, <<f>>, <<v>>)
            \/ \E g \in Field, w \in HashValue : HMSet(k, <<f, g>>, <<v, w>>)
            \/ HSetNX(k, f, v)
      \/ \E incr \in {-1, 1} : HIncrBy(k, f, incr)
      \/ \E g \in Field : HDel(k, <<f, g>>)

----------------------------------------------------------------------------
(* HGETALL: the count it announces, twice the length for fields and       *)
(* values, and the entries its iterator then sends.                       *)
hgetall(o) ==
    [count |-> 2 * hashTypeLength(o),
     sent |-> IF o.enc = "ziplist" THEN Len(o.ptr.e)
              ELSE 2 * Cardinality(DOMAIN o.ptr)]

HashReadsAgree(k) ==
    /\ \A f \in Field : hashTypeGet(db[k], f) =
          IF f \in DOMAIN val[k].v THEN <<val[k].v[f]>> ELSE <<>>
    /\ hashTypeLength(db[k]) = Cardinality(DOMAIN val[k].v)
    /\ hgetall(db[k]).count = hgetall(db[k]).sent
=============================================================================
