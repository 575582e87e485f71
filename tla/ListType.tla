------------------------------ MODULE ListType ------------------------------
(* t_list.c: lists, as a ziplist while they are short and their values    *)
(* are, as a linked list (here a sequence) afterwards.                    *)
EXTENDS Objects

CONSTANTS
    ListValue,              \* the values pushed to lists
    ListMaxZiplistEntries,  \* list-max-ziplist-entries
    ListMaxZiplistValue,    \* list-max-ziplist-value
    ListIndex               \* the indexes and counts given to commands

Items(o) == IF o.enc = "ziplist" THEN ZipValues(o.ptr) ELSE o.ptr

listTypeConvert(o) == Object("list", "linkedlist", Items(o))

(* Only a value that is no number can be too long for a ziplist.          *)
listTypeTryConversion(o, v) ==
    IF /\ o.enc = "ziplist"
       /\ ~IsNumber(v) /\ StringLen(v) > ListMaxZiplistValue
    THEN listTypeConvert(o) ELSE o

(* listTypeLength stores the count of a ziplist it had to count.          *)
listTypeLength(o) == IF o.enc = "ziplist" THEN ziplistLen(o.ptr) ELSE Len(o.ptr)
Counted(o) == IF o.enc = "ziplist" THEN [o EXCEPT !.ptr = Recounted(@)] ELSE o

listTypePush(o, v, where) ==
    LET short == listTypeTryConversion(o, v)
        fit == IF short.enc = "ziplist"
                  /\ ziplistLen(short.ptr) >= ListMaxZiplistEntries
               THEN listTypeConvert(short) ELSE Counted(short)
    IN  [fit EXCEPT !.ptr =
           IF fit.enc = "ziplist" THEN ziplistPush(@, v, where)
           ELSE IF where = "head" THEN <<v>> \o @ ELSE Append(@, v)]

(* listTypeDelete and listTypeInsert at the entry i of an iterator.       *)
listTypeDelete(o, i) ==
    [o EXCEPT !.ptr = IF o.enc = "ziplist" THEN ziplistDelete(@, i, 1)
                      ELSE RemoveAt(@, i)]

(* Mutant of listTypeInsert: LINSERT AFTER inserts before the pivot.      *)
InsertBefore(o, i, v, where) ==
    [o EXCEPT !.ptr = IF o.enc = "ziplist" THEN ziplistInsert(@, i, v)
                      ELSE InsertAt(@, i, v)]

listTypeInsert(o, i, v, where) ==
    LET at == IF where = "tail" THEN i + 1 ELSE i
    IN  [o EXCEPT !.ptr = IF o.enc = "ziplist" THEN ziplistInsert(@, at, v)
                          ELSE InsertAt(@, at, v)]

(* ziplistIndex or, for a linked list, listIndex; 0 for no entry.         *)
listIndex(o, index) ==
    LET n == Len(o.ptr)
    IN  IF o.enc = "ziplist" THEN ziplistIndex(o.ptr, index)
        ELSE IF index >= 0 THEN (IF index < n THEN index + 1 ELSE 0)
        ELSE IF -index <= n THEN n + 1 + index ELSE 0

listTypePop(o, where) ==
    LET i == listIndex(o, IF where = "head" THEN 0 ELSE -1)
    IN  [v |-> Items(o)[i], o |-> listTypeDelete(o, i)]

(* The iterator of LREM, from the head or from the tail: an entry that    *)
(* equals v is deleted until toremove of them are gone (0: all of them).  *)
RemoveEqual(o, v, toremove, from) ==
    LET step(s, j) ==
          IF s.stop THEN s
          ELSE IF Items(s.o)[s.i] # v
          THEN [s EXCEPT !.i = IF from = "head" THEN @ + 1 ELSE @ - 1]
          ELSE [o |-> listTypeDelete(s.o, s.i),
                i |-> IF from = "head" THEN s.i ELSE s.i - 1,
                removed |-> s.removed + 1,
                stop |-> toremove # 0 /\ s.removed + 1 = toremove]
        n == Len(Items(o))
    IN  FoldLeft(step, [o |-> o, i |-> IF from = "head" THEN 1 ELSE n,
                        removed |-> 0, stop |-> FALSE], [j \in 1 .. n |-> j])

(* What LREM promises: of the positions that hold v, the first or the     *)
(* last toremove ones are gone.                                           *)
Without(s, v, toremove, from) ==
    LET same(i) == Cardinality({j \in DOMAIN s : s[j] = v
                       /\ IF from = "head" THEN j < i ELSE j > i})
        kept == SelectSeq([i \in DOMAIN s |-> i],
                  LAMBDA i : s[i] # v \/ (toremove # 0 /\ same(i) >= toremove))
    IN  [j \in DOMAIN kept |-> s[kept[j]]]

NewList == Object("list", "ziplist", ziplistNew)
ListOf(k) == IF Has(k, "list") THEN db[k] ELSE NewList
ListValueOf(k) == IF Has(k, "list") THEN val[k].v ELSE <<>>
PutList(k, o, s) ==
    /\ db' = Keep(db, k, Counted(o), listTypeLength(o) = 0)
    /\ val' = KeepValue(val, k, Value("list", s))
    /\ Signal(TRUE, {k})

----------------------------------------------------------------------------
(* LPUSH, RPUSH: pushGenericCommand with its arguments vs.                *)
Push(k, vs, where) ==
    /\ Fits(k, "list") /\ Room("list", Len(vs))
    /\ PutList(k, FoldLeft(LAMBDA o, v : listTypePush(o, v, where), ListOf(k), vs),
               IF where = "head" THEN Reverse(vs) \o ListValueOf(k)
               ELSE ListValueOf(k) \o vs)

(* LPUSHX, RPUSHX.                                                        *)
PushX(k, v, where) ==
    /\ Has(k, "list") /\ Room("list", 1)
    /\ PutList(k, listTypePush(db[k], v, where),
               IF where = "head" THEN <<v>> \o val[k].v ELSE Append(val[k].v, v))

(* LINSERT: the list is converted for a long v before the pivot is        *)
(* looked for, so a failed insert may leave it converted.                 *)
LInsert(k, pivot, v, where) ==
    /\ Has(k, "list") /\ Room("list", 1)
    /\ LET o == listTypeTryConversion(db[k], v)
           i == SelectInSeq(Items(o), LAMBDA x : x = pivot)
           put == listTypeInsert(o, i, v, where)
           at == SelectInSeq(val[k].v, LAMBDA x : x = pivot)
       IN  \/ /\ i = 0
              /\ db' = [db EXCEPT ![k] = o]
              /\ Signal(FALSE, {}) /\ UNCHANGED val
           \/ /\ i # 0
              /\ PutList(k, IF put.enc = "ziplist"
                               /\ ziplistLen(put.ptr) > ListMaxZiplistEntries
                            THEN listTypeConvert(put) ELSE put,
                         InsertAt(val[k].v, IF where = "tail" THEN at + 1 ELSE at, v))

(* LSET: the entry is deleted and the value inserted where it was; here   *)
(* too the list is converted before the index is found out of range.      *)
LSet(k, index, v) ==
    /\ Has(k, "list")
    /\ LET o == listTypeTryConversion(db[k], v)
           i == listIndex(o, index)
           n == Len(val[k].v)
       IN  \/ /\ i = 0
              /\ db' = [db EXCEPT ![k] = o]
              /\ Signal(FALSE, {}) /\ UNCHANGED val
           \/ /\ i # 0
              /\ db' = [db EXCEPT ![k].enc = o.enc, ![k].ptr =
                          IF o.enc = "ziplist"
                          THEN ziplistInsert(ziplistDelete(o.ptr, i, 1), i, v)
                          ELSE [o.ptr EXCEPT ![i] = v]]
              /\ val' = [val EXCEPT ![k].v =
                           [@ EXCEPT ![IF index < 0 THEN n + index + 1
                                       ELSE index + 1] = v]]
              /\ Signal(TRUE, {k})

(* LPOP, RPOP.                                                            *)
Pop(k, where) ==
    /\ Has(k, "list")
    /\ PutList(k, listTypePop(db[k], where).o,
               IF where = "head" THEN Tail(val[k].v) ELSE Front(val[k].v))

(* LTRIM.                                                                 *)
LTrim(k, start, end) ==
    /\ Has(k, "list")
    /\ LET o == Counted(db[k])
           n == listTypeLength(o)
           r == IndexRange(start, end, n)
           ltrim == IF r.last = -1 THEN n ELSE r.first
           rtrim == IF r.last = -1 THEN 0 ELSE n - r.last - 1
       IN  PutList(k, [o EXCEPT !.ptr =
                         IF o.enc = "ziplist"
                         THEN ziplistDeleteRange(ziplistDeleteRange(@, 0, ltrim),
                                                 -rtrim, rtrim)
                         ELSE SubSeq(@, ltrim + 1, n - rtrim)],
                   Indexed(val[k].v, start, end))

(* LREM.                                                                  *)
LRem(k, count, v) ==
    /\ Has(k, "list")
    /\ LET from == IF count < 0 THEN "tail" ELSE "head"
           toremove == IF count < 0 THEN -count ELSE count
           r == RemoveEqual(db[k], v, toremove, from)
       IN  /\ db' = Keep(db, k, Counted(r.o), listTypeLength(r.o) = 0)
           /\ val' = KeepValue(val, k,
                        Value("list", Without(val[k].v, v, toremove, from)))
           /\ Signal(r.removed > 0, IF r.removed > 0 THEN {k} ELSE {})

(* RPOPLPUSH: the value is pushed before an emptied source is deleted; the *)
(* two keys may be the same one.                                          *)
RPopLPush(src, dst) ==
    /\ Has(src, "list") /\ Fits(dst, "list")
    /\ LET pop == listTypePop(Counted(db[src]), "tail")
           d1 == [db EXCEPT ![src] = pop.o]
           target == IF d1[dst].type = "none" THEN NewList ELSE d1[dst]
           d2 == [d1 EXCEPT ![dst] = listTypePush(target, pop.v, "head")]
           w1 == [val EXCEPT ![src].v = Front(@)]
           w2 == [w1 EXCEPT ![dst] =
                    Value("list", <<Last(val[src].v)>> \o
                                  IF w1[dst].type = "list" THEN w1[dst].v ELSE <<>>)]
       IN  /\ db' = Keep(d2, src, Counted(d2[src]), listTypeLength(d2[src]) = 0)
           /\ val' = KeepValue(w2, src, w2[src])
    /\ Signal(TRUE, {src, dst})

(* LLEN.                                                                  *)
LLen(k) ==
    /\ Has(k, "list")
    /\ db' = [db EXCEPT ![k] = Counted(@)]
    /\ Signal(FALSE, {}) /\ UNCHANGED val

ListNext ==
    \E k \in Key :
      \/ \E v \in ListValue, where \in {"head", "tail"} :
            \/ Push(k, <<v>>, where)
            \/ \E w \in ListValue : Push(k, <<v, w>>, where)
            \/ PushX(k, v, where)
            \/ \E p \in ListValue : LInsert(k, p, v, where)
      \/ \E i \in ListIndex, v \in ListValue : LSet(k, i, v) \/ LRem(k, i, v)
      \/ \E where \in {"head", "tail"} : Pop(k, where)
      \/ \E s, e \in ListIndex : LTrim(k, s, e)
      \/ \E d \in Key : RPopLPush(k, d)
      \/ LLen(k)

----------------------------------------------------------------------------
(* LRANGE: the entries it walks, from its first index on.  A linked list  *)
(* is walked from the nearer end.                                         *)
lrange(o, start, end) ==
    LET n == listTypeLength(o)
        r == IndexRange(start, end, n)
        i == listIndex(o, IF o.enc # "ziplist" /\ r.first > n \div 2
                          THEN r.first - n ELSE r.first)
    IN  SubSeq(Items(o), i, i + r.last - r.first)

(* LINDEX: the entry as a sequence, empty for none.                       *)
lindex(o, index) ==
    LET i == listIndex(o, index) IN IF i = 0 THEN <<>> ELSE <<Items(o)[i]>>

ListReadsAgree(k) ==
    /\ \A s, e \in ListIndex :
          lrange(db[k], s, e) = Indexed(val[k].v, s, e)
    /\ \A i \in ListIndex : lindex(db[k], i) = Indexed(val[k].v, i, i)
    /\ listTypeLength(db[k]) = Len(val[k].v)
=============================================================================
