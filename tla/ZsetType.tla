------------------------------ MODULE ZsetType ------------------------------
(* t_zset.c: sorted sets, as a ziplist of elements and scores in turn     *)
(* while they are small, as a hash table together with a skiplist         *)
(* afterwards.                                                            *)
EXTENDS SetType

CONSTANTS
    ZMember, Score,         \* the elements and scores given to commands
    Weight,                 \* the weights of ZUNIONSTORE and ZINTERSTORE
    ZsetMaxZiplistEntries,  \* zset-max-ziplist-entries
    ZsetMaxZiplistValue     \* zset-max-ziplist-value

(* Scores are doubles: whole numbers here, the infinities and NaN.        *)
Inf == 50
NaN == 99999
Plus(a, b) ==
    CASE NaN \in {a, b} \/ {a, b} = {Inf, -Inf} -> NaN
      [] a \in {Inf, -Inf} -> a
      [] b \in {Inf, -Inf} -> b
      [] OTHER -> a + b
Times(w, s) ==
    CASE s \in {Inf, -Inf} /\ w = 0 -> NaN
      [] s \in {Inf, -Inf} /\ w < 0 -> -s
      [] s \in {Inf, -Inf} /\ w > 0 -> s
      [] OTHER -> w * s

(* d2string and zzlGetScore: a whole number is written as one, infinity   *)
(* as a text.                                                             *)
ScoreText(s) == CASE s = Inf -> 301 [] s = -Inf -> 402 [] OTHER -> s
zzlGetScore(v) == CASE v = 301 -> Inf [] v = 402 -> -Inf [] OTHER -> v

----------------------------------------------------------------------------
(* The ziplist: pair j is at the entries 2j - 1 and 2j.                   *)
Ele(zl, j) == zl.e[2 * j - 1].v
ScoreAt(zl, j) == zzlGetScore(zl.e[2 * j].v)
zzlLength(zl) == ziplistLen(zl) \div 2
Pairs(zl) == Len(zl.e) \div 2

(* zzlFind: the pair of v, 0 for none.                                    *)
zzlFind(zl, v) == (ziplistFind(zl, 1, v, 1) + 1) \div 2

zzlDelete(zl, j) == ziplistDelete(ziplistDelete(zl, 2 * j - 1, 1), 2 * j - 1, 1)

(* zzlInsertAt before pair j, zzlInsert in front of the first pair that   *)
(* is above (score, v).                                                   *)
zzlInsertAt(zl, j, v, score) ==
    ziplistInsert(ziplistInsert(zl, 2 * j - 1, v), 2 * j, ScoreText(score))
zzlInsert(zl, v, score) ==
    LET above == {j \in 1 .. Pairs(zl) :
                    \/ ScoreAt(zl, j) > score
                    \/ ScoreAt(zl, j) = score
                       /\ ByteOrder(Ele(zl, j)) > ByteOrder(v)}
        at == IF above = {} THEN Pairs(zl) + 1
              ELSE CHOOSE j \in above : \A i \in above : j <= i
    IN  zzlInsertAt(zl, at, v, score)

(* zzlIsInRange looks at the last and at the first score only;            *)
(* zzlFirstInRange and zzlLastInRange walk from either end; 0 for none.   *)
zzlIsInRange(zl, range) ==
    /\ ~EmptyRange(range) /\ zl.e # <<>>
    /\ GteMin(zzlGetScore(zl.e[ziplistIndex(zl, -1)].v), range)
    /\ LteMax(ScoreAt(zl, 1), range)
zzlFirstInRange(zl, range) ==
    LET up == {j \in 1 .. Pairs(zl) : GteMin(ScoreAt(zl, j), range)}
        j == CHOOSE x \in up : \A y \in up : x <= y
    IN  IF zzlIsInRange(zl, range) /\ up # {} /\ LteMax(ScoreAt(zl, j), range)
        THEN j ELSE 0
zzlLastInRange(zl, range) ==
    LET down == {j \in 1 .. Pairs(zl) : LteMax(ScoreAt(zl, j), range)}
        j == CHOOSE x \in down : \A y \in down : x >= y
    IN  IF zzlIsInRange(zl, range) /\ down # {} /\ GteMin(ScoreAt(zl, j), range)
        THEN j ELSE 0

(* zzlDeleteRangeByScore: from the first pair in range on, while the pair *)
(* that moved up to its place is in range too.                            *)
zzlDeleteRangeByScore(zl, range) ==
    LET j == zzlFirstInRange(zl, range)
    IN  IF j = 0 THEN zl
        ELSE FoldLeft(LAMBDA z, i :
                        IF j <= Pairs(z) /\ LteMax(ScoreAt(z, j), range)
                        THEN zzlDelete(z, j) ELSE z,
                      zl, [i \in 1 .. Pairs(zl) |-> i])

zzlDeleteRangeByRank(zl, start, end) ==
    ziplistDeleteRange(zl, 2 * (start - 1), 2 * (end - start + 1))

----------------------------------------------------------------------------
(* A sorted set out of the ziplist: dict gives the score of an element,   *)
(* zsl the order.  The random level of each new node is in lv.            *)
NewZset == Object("zset", "skiplist", [dict |-> <<>>, zsl |-> zslCreate])
NewZsetZiplist == Object("zset", "ziplist", ziplistNew)

ZAddNode(o, score, v, lv) ==
    [o EXCEPT !.ptr = [dict |-> (v :> score) @@ @.dict,
                       zsl |-> zslInsert(@.zsl, score, v, lv[v])]]

(* zsetConvert in both directions.                                        *)
ToSkiplist(o, lv) ==
    IF o.enc = "skiplist" THEN o
    ELSE FoldLeft(LAMBDA z, j : ZAddNode(z, ScoreAt(o.ptr, j), Ele(o.ptr, j), lv),
                  NewZset, [j \in 1 .. Pairs(o.ptr) |-> j])
ToZiplist(o) ==
    FoldLeft(LAMBDA z, v :
               [z EXCEPT !.ptr = zzlInsertAt(@, Pairs(@) + 1, v,
                                             o.ptr.zsl.node[v].score)],
             NewZsetZiplist, Chain(o.ptr.zsl))

zsetLength(o) == IF o.enc = "ziplist" THEN zzlLength(o.ptr) ELSE o.ptr.zsl.length
ZCounted(o) ==
    IF o.enc = "ziplist" THEN [o EXCEPT !.ptr = Recounted(@)] ELSE o

(* The score of v as a sequence, empty when it is not in the sorted set.  *)
zscore(o, v) ==
    IF o.enc = "skiplist"
    THEN IF v \in DOMAIN o.ptr.dict THEN <<o.ptr.dict[v]>> ELSE <<>>
    ELSE LET j == zzlFind(o.ptr, v)
         IN  IF j = 0 THEN <<>> ELSE <<ScoreAt(o.ptr, j)>>

(* An object and that no assertion has failed.                            *)
Sound(o) == [ok |-> TRUE, o |-> o]

(* A change of the skiplist together with the hash table; ok is FALSE     *)
(* when the element was not found where the code asserts that it is.      *)
ZUpdateNode(o, score, v, lv) ==
    LET del == zslDelete(o.ptr.zsl, o.ptr.dict[v], Encoded(v))
    IN  [ok |-> del.found,
         o |-> [o EXCEPT !.ptr.zsl = zslInsert(del.z, score, v, lv[v]),
                         !.ptr.dict[v] = score]]
ZDropNode(o, obj) ==
    LET del == zslDelete(o.ptr.zsl, o.ptr.dict[obj.v], obj)
    IN  [ok |-> del.found,
         o |-> [o EXCEPT !.ptr.zsl = del.z,
                         !.ptr.dict = [x \in DOMAIN @ \ {obj.v} |-> @[x]]]]

(* A ziplist that got element v, converted when it is too large for one.  *)
ZGrown(o, v, lv) ==
    IF zzlLength(o.ptr) > ZsetMaxZiplistEntries \/ StringLen(v) > ZsetMaxZiplistValue
    THEN ToSkiplist(o, lv) ELSE ZCounted(o)

(* zaddGenericCommand for one element, whose score is cur, if it has one. *)
zaddScore(s, cur, score, v, lv) ==
    CASE ~s.ok -> s
      [] s.ok /\ cur = <<score>> -> s
      [] s.ok /\ cur = <<>> /\ s.o.enc = "skiplist" ->
           Sound(ZAddNode(s.o, score, v, lv))
      [] s.ok /\ cur = <<>> /\ s.o.enc = "ziplist" ->
           Sound(ZGrown([s.o EXCEPT !.ptr = zzlInsert(@, v, score)], v, lv))
      [] s.ok /\ cur \notin {<<>>, <<score>>} /\ s.o.enc = "ziplist" ->
           Sound([s.o EXCEPT !.ptr =
                    zzlInsert(zzlDelete(@, zzlFind(@, v)), v, score)])
      [] OTHER -> ZUpdateNode(s.o, score, v, lv)
zaddOne(s, score, v, lv) == zaddScore(s, zscore(s.o, v), score, v, lv)

(* The random levels of the nodes made for the elements S.                *)
Levels(S) == [S -> 1 .. MaxLevel]

(* The elements of o, and those a change of o by vs may make a node for.  *)
ZElements(o) ==
    IF o.enc = "skiplist" THEN ToSet(Chain(o.ptr.zsl))
    ELSE {Ele(o.ptr, j) : j \in 1 .. Pairs(o.ptr)}
NewNodes(o, vs) == vs \union (IF o.enc = "skiplist" THEN {} ELSE ZElements(o))

ZsetOf(k) == IF Has(k, "zset") THEN val[k].v ELSE <<>>

(* Mutant of PutZset: signalModifiedKey is forgotten.                     *)
PutZsetUnsignalled(k, r, z, changed) ==
    /\ db' = Keep(db, k, r.o, zsetLength(r.o) = 0)
    /\ val' = KeepValue(val, k, Value("zset", z))
    /\ Report(r.ok, changed, {})

PutZset(k, r, z, changed) ==
    /\ db' = Keep(db, k, r.o, zsetLength(r.o) = 0)
    /\ val' = KeepValue(val, k, Value("zset", z))
    /\ Report(r.ok, changed, IF changed THEN {k} ELSE {})

----------------------------------------------------------------------------
(* ZADD of the pairs zs: a new sorted set starts as a ziplist unless its  *)
(* first element is too long for one.                                     *)
ZAdd(k, zs) ==
    /\ Fits(k, "zset") /\ Room("zset", Len(zs))
    /\ LET new == IF ZsetMaxZiplistEntries = 0
                     \/ ZsetMaxZiplistValue < StringLen(zs[1].v)
                  THEN NewZset ELSE NewZsetZiplist
           o == IF Has(k, "zset") THEN db[k] ELSE new
       IN  \E lv \in Levels(NewNodes(o, {zs[i].v : i \in DOMAIN zs})) :
             PutZset(k, FoldLeft(LAMBDA s, p : zaddOne(s, p.score, p.v, lv), Sound(o), zs),
                     FoldLeft(LAMBDA z, p : (p.v :> p.score) @@ z, ZsetOf(k), zs),
                     \E i \in DOMAIN zs : zscore(o, zs[i].v) # <<zs[i].score>>)

(* ZINCRBY: a sum that is not a number is refused.                        *)
ZIncrBy(k, incr, v) ==
    /\ Fits(k, "zset") /\ Room("zset", 1)
    /\ LET cur == IF Has(k, "zset") THEN zscore(db[k], v) ELSE <<>>
           score == IF cur = <<>> THEN incr ELSE Plus(incr, cur[1])
       IN  score \in Score /\ ZAdd(k, <<[score |-> score, v |-> v]>>)

(* ZREM: its arguments are still strings when the skiplist is searched.   *)
ZRem(k, vs) ==
    /\ Has(k, "zset")
    /\ LET step(s, v) ==
             IF ~s.ok \/ zscore(s.o, v) = <<>> THEN s
             ELSE IF s.o.enc = "skiplist" THEN ZDropNode(s.o, Argument(v))
             ELSE [s EXCEPT !.o = ZCounted([s.o EXCEPT !.ptr =
                                     zzlDelete(@, zzlFind(@, v))])]
       IN  PutZset(k, FoldLeft(step, Sound(db[k]), vs),
                   [x \in DOMAIN val[k].v \ ToSet(vs) |-> val[k].v[x]],
                   \E i \in DOMAIN vs : zscore(db[k], vs[i]) # <<>>)

(* The range deletions of the skiplist take the same elements from dict.  *)
DropGone(o, r) ==
    [o EXCEPT !.ptr = [zsl |-> r.z,
                       dict |-> [x \in DOMAIN @.dict \ r.gone |-> @.dict[x]]]]

(* ZREMRANGEBYSCORE.                                                      *)
ZRemRangeByScore(k, range) ==
    /\ Has(k, "zset")
    /\ LET o == IF db[k].enc = "skiplist"
                THEN DropGone(db[k], zslDeleteRangeByScore(db[k].ptr.zsl, range))
                ELSE [db[k] EXCEPT !.ptr =
                        Recounted(zzlDeleteRangeByScore(@, range))]
           z == val[k].v
           kept == {x \in DOMAIN z : ~(GteMin(z[x], range) /\ LteMax(z[x], range))}
       IN  PutZset(k, Sound(o), [x \in kept |-> z[x]], zsetLength(o) # zsetLength(db[k]))

(* The elements in order of score, then of bytes.                         *)
Ranked(z) ==
    SetToSortSeq(DOMAIN z, LAMBDA x, y :
        z[x] < z[y] \/ (z[x] = z[y] /\ ByteOrder(x) < ByteOrder(y)))

(* ZREMRANGEBYRANK.                                                       *)
ZRemRangeByRank(k, start, end) ==
    /\ Has(k, "zset")
    /\ LET n == zsetLength(db[k])
           r == IndexRange(start, end, n)
           o == CASE r.last = -1 -> ZCounted(db[k])
                  [] r.last # -1 /\ db[k].enc = "skiplist" ->
                       DropGone(db[k], zslDeleteRangeByRank(db[k].ptr.zsl,
                                          r.first + 1, r.last + 1))
                  [] OTHER -> [db[k] EXCEPT !.ptr = Recounted(
                                 zzlDeleteRangeByRank(Recounted(@), r.first + 1, r.last + 1))]
           z == val[k].v
           gone == ToSet(Indexed(Ranked(z), start, end))
       IN  PutZset(k, Sound(o), [x \in DOMAIN z \ gone |-> z[x]], r.last # -1)

----------------------------------------------------------------------------
(* The sources of ZUNIONSTORE and ZINTERSTORE are sets, whose members     *)
(* have score 1, and sorted sets.                                         *)
zuiLength(k) ==
    CASE Has(k, "none") -> 0 [] Has(k, "set") -> setTypeSize(db[k])
      [] OTHER -> zsetLength(db[k])
zuiElements(k) ==
    CASE Has(k, "none") -> {} [] Has(k, "set") -> Members(db[k])
      [] OTHER -> ZElements(db[k])
zuiFind(k, v) ==
    CASE Has(k, "none") -> <<>>
      [] Has(k, "set") -> IF setTypeIsMember(db[k], v) THEN <<1>> ELSE <<>>
      [] OTHER -> zscore(db[k], v)

zunionInterAggregate(target, s, aggregate) ==
    CASE aggregate = "sum" -> IF Plus(target, s) = NaN THEN 0 ELSE Plus(target, s)
      [] aggregate = "min" -> IF s # NaN /\ s < target THEN s ELSE target
      [] OTHER -> IF s # NaN /\ s > target THEN s ELSE target

(* The score of v: the first source that has it, in order of size, and    *)
(* then the ones after it.                                                *)
zunionInterScore(src, v, aggregate) ==
    LET has == SelectSeq(src, LAMBDA s : zuiFind(s.k, v) # <<>>)
        term(s) == Times(s.weight, zuiFind(s.k, v)[1])
        first == IF term(has[1]) = NaN THEN 0 ELSE term(has[1])
    IN  FoldLeft(LAMBDA t, s : zunionInterAggregate(t, term(s), aggregate),
                 first, Tail(has))

(* zunionInterGenericCommand with the sources src, each with its weight:  *)
(* qsort puts the smallest first; the result is built as a skiplist and   *)
(* turned into a ziplist when it fits one.  Only elements that are no     *)
(* numbers count as long.                                                 *)
ZUnionInterStore(dst, src, aggregate, op) ==
    /\ \A i \in DOMAIN src : db[src[i].k].type \in {"none", "set", "zset"}
    /\ LET sorted == IF zuiLength(src[2].k) < zuiLength(src[1].k)
                     THEN <<src[2], src[1]>> ELSE src
           eles == IF op = "inter"
                   THEN {v \in zuiElements(sorted[1].k) :
                           zuiFind(sorted[2].k, v) # <<>>}
                   ELSE zuiElements(sorted[1].k) \union zuiElements(sorted[2].k)
           score == [v \in eles |-> zunionInterScore(sorted, v, aggregate)]
           built(lv) == FoldLeft(LAMBDA z, v : ZAddNode(z, score[v], v, lv),
                                 NewZset, SetToSeq(eles))
           fit == /\ Cardinality(eles) <= ZsetMaxZiplistEntries
                  /\ \A v \in eles : IsNumber(v) \/ StringLen(v) <= ZsetMaxZiplistValue
           old(k) == CASE val[k].type = "zset" -> val[k].v
                       [] val[k].type = "set" -> [x \in val[k].v |-> 1]
                       [] OTHER -> <<>>
           wanted(a, b) ==
             [x \in IF op = "inter" THEN DOMAIN a \cap DOMAIN b
                    ELSE DOMAIN a \union DOMAIN b |->
                LET terms == {<<i, Times(src[i].weight, <<a, b>>[i][x])>> :
                               i \in {i \in {1, 2} : x \in DOMAIN <<a, b>>[i]}}
                    only == {t[2] : t \in terms}
                    sum == IF Cardinality(terms) = 1 THEN CHOOSE s \in only : TRUE
                           ELSE Plus(Times(src[1].weight, a[x]),
                                     Times(src[2].weight, b[x]))
                IN  CASE aggregate = "sum" -> IF sum = NaN THEN 0 ELSE sum
                      [] aggregate = "min" -> CHOOSE s \in only : \A t \in only : s <= t
                      [] OTHER -> CHOOSE s \in only : \A t \in only : s >= t]
       IN  /\ eles \subseteq ZMember /\ \A v \in eles : score[v] \in Score
           /\ Room("zset", Cardinality(eles))
           /\ \E lv \in Levels(eles) :
                 LET o == built(lv)
                 IN  db' = Keep(db, dst, IF fit THEN ToZiplist(o) ELSE o, eles = {})
           /\ val' = KeepValue(val, dst,
                        Value("zset", wanted(old(src[1].k), old(src[2].k))))
           /\ LET changed == db[dst] # NoKey \/ eles # {}
              IN  Signal(changed, IF changed THEN {dst} ELSE {})

ZRange == [min : Score, max : Score, minex : BOOLEAN, maxex : BOOLEAN]
ZIndex == -2 .. 1
ZNext ==
    \E k \in Key :
      \/ \E v \in ZMember, s \in Score :
            \/ ZAdd(k, <<[score |-> s, v |-> v]>>)
            \/ \E w \in ZMember \ {v} :
                  ZAdd(k, <<[score |-> s, v |-> v], [score |-> s, v |-> w]>>)
            \/ ZIncrBy(k, s, v)
      \/ \E v, w \in ZMember : ZRem(k, <<v, w>>)
      \/ \E r \in ZRange : r.min <= r.max /\ ZRemRangeByScore(k, r)
      \/ \E s, e \in ZIndex : ZRemRangeByRank(k, s, e)
      \/ \E s, t \in Key, w \in Weight,
            a \in {"sum", "min", "max"}, op \in {"union", "inter"} :
            ZUnionInterStore(k, <<[k |-> s, weight |-> w], [k |-> t, weight |-> 1]>>,
                             a, op)

----------------------------------------------------------------------------
(* ZRANGE and ZREVRANGE: the walk starts at an element found by its rank. *)
zrange(o, start, end, reverse) ==
    LET n == zsetLength(o)
        r == IndexRange(start, end, n)
        len == r.last - r.first + 1
        z == o.ptr.zsl
        walk == IF reverse THEN BackChain(z) ELSE Chain(z)
        at == IF reverse THEN zslGetElementByRank(z, n - r.first)
              ELSE zslGetElementByRank(z, r.first + 1)
        from == IF r.first = 0 THEN 1 ELSE CHOOSE i \in DOMAIN walk : walk[i] = at
        j == IF reverse THEN ziplistIndex(o.ptr, -2 - 2 * r.first)
             ELSE ziplistIndex(o.ptr, 2 * r.first)
    IN  CASE r.last = -1 -> <<>>
          [] r.last # -1 /\ o.enc = "skiplist" -> SubSeq(walk, from, from + len - 1)
          [] OTHER -> [i \in 1 .. len |->
                         o.ptr.e[IF reverse THEN j - 2 * (i - 1) ELSE j + 2 * (i - 1)].v]

(* ZRANGEBYSCORE and ZREVRANGEBYSCORE without a limit.                    *)
zrangebyscore(o, range, reverse) ==
    LET z == o.ptr.zsl
        x == IF reverse THEN zslLastInRange(z, range) ELSE zslFirstInRange(z, range)
        walk == IF reverse THEN BackChain(z) ELSE Chain(z)
        from == CHOOSE i \in DOMAIN walk : walk[i] = x
        j == IF reverse THEN zzlLastInRange(o.ptr, range)
             ELSE zzlFirstInRange(o.ptr, range)
        n == Pairs(o.ptr)
        pairs == IF reverse THEN [i \in 1 .. j |-> j + 1 - i]
                 ELSE [i \in 1 .. n + 1 - j |-> j - 1 + i]
        in(s) == IF reverse THEN GteMin(s, range) ELSE LteMax(s, range)
        upto(s, sc(_)) == \* the walk ends at the first one out of range
          LET out == {i \in DOMAIN s : ~in(sc(s[i]))}
          IN  IF out = {} THEN s
              ELSE SubSeq(s, 1, (CHOOSE i \in out : \A h \in out : i <= h) - 1)
    IN  IF o.enc = "skiplist"
        THEN IF x = Nil THEN <<>>
             ELSE upto(SubSeq(walk, from, Len(walk)), LAMBDA y : z.node[y].score)
        ELSE IF j = 0 THEN <<>>
             ELSE LET s == upto(pairs, LAMBDA i : ScoreAt(o.ptr, i))
                  IN  [i \in DOMAIN s |-> Ele(o.ptr, s[i])]

(* Mutant of zcount: the first element in range is counted out.           *)
ZCountAfterFirst(o, range) ==
    LET z == o.ptr.zsl
        first == zslFirstInRange(z, range)
        last == zslLastInRange(z, range)
        rank(x) == zslGetRank(z, z.node[x].score, Encoded(x))
    IN  IF o.enc = "ziplist" THEN Len(zrangebyscore(o, range, FALSE))
        ELSE IF first = Nil THEN 0
        ELSE z.length - rank(first)
             - (IF last = Nil THEN 0 ELSE z.length - rank(last))

(* ZCOUNT of a skiplist, from the ranks of both ends of the range.        *)
zcount(o, range) ==
    LET z == o.ptr.zsl
        first == zslFirstInRange(z, range)
        last == zslLastInRange(z, range)
        rank(x) == zslGetRank(z, z.node[x].score, Encoded(x))
    IN  IF o.enc = "ziplist" THEN Len(zrangebyscore(o, range, FALSE))
        ELSE IF first = Nil THEN 0
        ELSE z.length - (rank(first) - 1)
             - (IF last = Nil THEN 0 ELSE z.length - rank(last))

(* ZRANK; -1 for none.                                                    *)
zrank(o, v) ==
    CASE zscore(o, v) = <<>> -> -1
      [] zscore(o, v) # <<>> /\ o.enc = "skiplist" ->
           zslGetRank(o.ptr.zsl, o.ptr.dict[v], Encoded(v)) - 1
      [] OTHER -> zzlFind(o.ptr, v) - 1

ZsetReadsAgree(k) ==
    LET o == db[k]
        z == val[k].v
        order == Ranked(z)
        inScores(range) ==
          SelectSeq(order, LAMBDA x : GteMin(z[x], range) /\ LteMax(z[x], range))
    IN  /\ \A v \in ZMember :
              /\ zscore(o, v) = IF v \in DOMAIN z THEN <<z[v]>> ELSE <<>>
              /\ zrank(o, v) = IF v \in DOMAIN z
                               THEN (CHOOSE i \in DOMAIN order : order[i] = v) - 1
                               ELSE -1
        /\ \A s, e \in ZIndex :
              /\ zrange(o, s, e, FALSE) = Indexed(order, s, e)
              /\ zrange(o, s, e, TRUE) = Indexed(Reverse(order), s, e)
        /\ \A range \in ZRange :
              /\ zrangebyscore(o, range, FALSE) = inScores(range)
              /\ zrangebyscore(o, range, TRUE) = Reverse(inScores(range))
              /\ zcount(o, range) = Len(inScores(range))
        /\ zsetLength(o) = Cardinality(DOMAIN z)

(* Both halves of a sorted set out of the ziplist hold the same elements  *)
(* with the same scores.                                                  *)
ZsetHalvesAgree(o) ==
    o.enc = "skiplist" =>
      /\ SkiplistWellFormed(o.ptr.zsl)
      /\ DOMAIN o.ptr.dict = ToSet(Chain(o.ptr.zsl))
      /\ \A v \in DOMAIN o.ptr.dict :
            o.ptr.dict[v] = o.ptr.zsl.node[v].score
=============================================================================
