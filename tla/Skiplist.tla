------------------------------ MODULE Skiplist ------------------------------
(* The skiplist of t_zset.c.  A node is named by its element; it has a    *)
(* score, a pointer back and, on each of its levels, a pointer forward    *)
(* with the number of nodes it spans.                                     *)
EXTENDS Strings, Sequences, SequencesExt, FiniteSets

CONSTANT MaxLevel  \* ZSKIPLIST_MAXLEVEL

Header == -1000
Nil == -1001

zslCreate == [node |-> [x \in {Header} |->
                           [score |-> 0, back |-> Nil,
                            lvl |-> [i \in 1 .. MaxLevel |->
                                        [fwd |-> Nil, span |-> 0]]]],
              level |-> 1, length |-> 0, tail |-> Nil]

(* The search all the operations share: from the highest level down, and  *)
(* on each level forwards while Go(next node, its rank).  For each level, *)
(* the node where the search left it and the rank of that node.           *)
Descend(z, Go(_, _)) ==
    LET walk(i) ==
          LET w[p \in [x : DOMAIN z.node, r : Nat]] ==
                LET l == z.node[p.x].lvl[i]
                IN  IF l.fwd # Nil /\ Go(l.fwd, p.r + l.span)
                    THEN w[[x |-> l.fwd, r |-> p.r + l.span]] ELSE p
          IN  w
        path[i \in 1 .. z.level] ==
          walk(i)[IF i = z.level THEN [x |-> Header, r |-> 0] ELSE path[i + 1]]
    IN  [i \in 1 .. z.level |-> path[i]]

(* The order of the list: by score, then by element.                      *)
Below(z, x, score, obj) ==
    \/ z.node[x].score < score
    \/ z.node[x].score = score /\ compareStringObjects(Encoded(x), obj) < 0

(* zslInsert of element v on level levels.                                *)
zslInsert(z, score, v, level) ==
    LET path == Descend(z, LAMBDA x, r : Below(z, x, score, Encoded(v)))
        high == IF level > z.level THEN level ELSE z.level
        upd == [i \in 1 .. high |->
                   IF i <= z.level THEN path[i] ELSE [x |-> Header, r |-> 0]]
        over(i) == upd[1].r - upd[i].r   \* nodes between update[i] and v
        old(i) == IF i <= z.level THEN z.node[upd[i].x].lvl[i]
                  ELSE [fwd |-> Nil, span |-> z.length]
        linked(x, i) ==
            IF i > high \/ upd[IF i > high THEN 1 ELSE i].x # x
            THEN z.node[x].lvl[i]
            ELSE IF i <= level THEN [fwd |-> v, span |-> over(i) + 1]
            ELSE [old(i) EXCEPT !.span = @ + 1]
        next == old(1).fwd
        new == [score |-> score,
                back |-> IF upd[1].x = Header THEN Nil ELSE upd[1].x,
                lvl |-> [i \in 1 .. level |->
                           [fwd |-> old(i).fwd, span |-> old(i).span - over(i)]]]
    IN  [node |-> [x \in DOMAIN z.node \union {v} |->
                     IF x = v THEN new
                     ELSE [z.node[x] EXCEPT
                             !.lvl = [i \in DOMAIN @ |-> linked(x, i)],
                             !.back = IF x = next THEN v ELSE @]],
         level |-> high,
         length |-> z.length + 1,
         tail |-> IF next = Nil THEN v ELSE z.tail]

(* zslDeleteNode of x, which the nodes upd[i] precede on their levels.    *)
zslDeleteNode(z, x, upd) ==
    LET unlinked(y, i) ==
            LET l == z.node[y].lvl[i]
            IN  IF i > z.level \/ upd[IF i > z.level THEN 1 ELSE i].x # y THEN l
                ELSE IF l.fwd = x
                THEN [fwd |-> z.node[x].lvl[i].fwd,
                      span |-> l.span + z.node[x].lvl[i].span - 1]
                ELSE [l EXCEPT !.span = @ - 1]
        next == z.node[x].lvl[1].fwd
        nodes == [y \in DOMAIN z.node \ {x} |->
                    [z.node[y] EXCEPT
                       !.lvl = [i \in DOMAIN @ |-> unlinked(y, i)],
                       !.back = IF y = next THEN z.node[x].back ELSE @]]
        used == {1} \union {i \in 1 .. z.level : nodes[Header].lvl[i].fwd # Nil}
    IN  [node |-> nodes,
         level |-> CHOOSE i \in used : \A j \in used : i >= j,
         length |-> z.length - 1,
         tail |-> IF next = Nil THEN z.node[x].back ELSE z.tail]

(* zslDelete: the node after the ones below (score, obj), when it is the  *)
(* one; the callers assert that it is.                                    *)
zslDelete(z, score, obj) ==
    LET path == Descend(z, LAMBDA x, r : Below(z, x, score, obj))
        x == z.node[path[1].x].lvl[1].fwd
    IN  IF x # Nil /\ z.node[x].score = score
           /\ equalStringObjects(Encoded(x), obj)
        THEN [found |-> TRUE, z |-> zslDeleteNode(z, x, path)]
        ELSE [found |-> FALSE, z |-> z]

(* A range of scores, each end open or closed.                            *)
GteMin(s, range) == IF range.minex THEN s > range.min ELSE s >= range.min
LteMax(s, range) == IF range.maxex THEN s < range.max ELSE s <= range.max
EmptyRange(range) ==
    \/ range.min > range.max
    \/ range.min = range.max /\ (range.minex \/ range.maxex)

(* The nodes from the one after the path on, while In(node, rank), are    *)
(* deleted one by one, each with the same update array: what is left of   *)
(* the list, and the elements that dictDelete has to take.                *)
DeleteWhile(z, path, In(_, _)) ==
    FoldLeft(LAMBDA s, k :
               LET x == s.z.node[path[1].x].lvl[1].fwd
               IN  IF x # Nil /\ In(x, path[1].r + k)
                   THEN [z |-> zslDeleteNode(s.z, x, path),
                         gone |-> s.gone \union {x}]
                   ELSE s,
             [z |-> z, gone |-> {}], [k \in 1 .. z.length |-> k])

zslDeleteRangeByScore(z, range) ==
    DeleteWhile(z, Descend(z, LAMBDA x, r : ~GteMin(z.node[x].score, range)),
                LAMBDA x, r : LteMax(z.node[x].score, range))

zslDeleteRangeByRank(z, start, end) ==
    DeleteWhile(z, Descend(z, LAMBDA x, r : r < start), LAMBDA x, r : r <= end)

(* zslIsInRange, zslFirstInRange, zslLastInRange; Nil when there is none. *)
zslIsInRange(z, range) ==
    LET first == z.node[Header].lvl[1].fwd
    IN  /\ ~EmptyRange(range)
        /\ z.tail # Nil /\ GteMin(z.node[z.tail].score, range)
        /\ first # Nil /\ LteMax(z.node[first].score, range)

zslFirstInRange(z, range) ==
    LET path == Descend(z, LAMBDA x, r : ~GteMin(z.node[x].score, range))
        x == z.node[path[1].x].lvl[1].fwd
    IN  IF zslIsInRange(z, range) /\ LteMax(z.node[x].score, range)
        THEN x ELSE Nil

zslLastInRange(z, range) ==
    LET x == Descend(z, LAMBDA y, r : LteMax(z.node[y].score, range))[1].x
    IN  IF zslIsInRange(z, range) /\ GteMin(z.node[x].score, range)
        THEN x ELSE Nil

(* zslGetRank (from 1, 0 for not found) and zslGetElementByRank: each     *)
(* level is tried before the search goes one down.                        *)
Highest(S) == CHOOSE i \in S : \A j \in S : i >= j

zslGetRank(z, score, obj) ==
    LET path == Descend(z, LAMBDA x, r :
                  \/ Below(z, x, score, obj)
                  \/ z.node[x].score = score
                     /\ compareStringObjects(Encoded(x), obj) = 0)
        hits == {i \in DOMAIN path : path[i].x # Header
                      /\ equalStringObjects(Encoded(path[i].x), obj)}
    IN  IF hits = {} THEN 0 ELSE path[Highest(hits)].r

zslGetElementByRank(z, rank) ==
    LET path == Descend(z, LAMBDA x, r : r <= rank)
        hits == {i \in DOMAIN path : path[i].r = rank}
    IN  IF hits = {} THEN Nil ELSE path[Highest(hits)].x

(* The elements along level 1, and backwards from the tail.               *)
Chain(z) ==
    LET c[x \in DOMAIN z.node \union {Nil}] ==
          IF x = Nil THEN <<>> ELSE <<x>> \o c[z.node[x].lvl[1].fwd]
    IN  c[z.node[Header].lvl[1].fwd]
BackChain(z) ==
    LET c[x \in DOMAIN z.node \union {Nil}] ==
          IF x = Nil THEN <<>> ELSE <<x>> \o c[z.node[x].back]
    IN  c[z.tail]

----------------------------------------------------------------------------
(* Level 1 holds every node in order; each higher level holds, in the     *)
(* same order, the nodes that reach it; every span is the distance in     *)
(* ranks, to the end of the list where there is no next node.             *)
SkiplistWellFormed(z) ==
    LET c == Chain(z)
        rank == [x \in DOMAIN z.node |->
                   IF x = Header THEN 0 ELSE CHOOSE i \in DOMAIN c : c[i] = x]
        after(x, i) == {y \in DOMAIN z.node \ {Header} :
                          rank[y] > rank[x] /\ i \in DOMAIN z.node[y].lvl}
    IN  /\ z.length = Len(c) /\ z.length = Cardinality(DOMAIN z.node) - 1
        /\ BackChain(z) = Reverse(c)
        /\ \A i \in 1 .. z.length - 1 :
              Below(z, c[i], z.node[c[i + 1]].score, Encoded(c[i + 1]))
        /\ \A x \in DOMAIN z.node : \A i \in DOMAIN z.node[x].lvl :
              LET l == z.node[x].lvl[i]
                  near == after(x, i)
              IN  IF near = {}
                  THEN l.fwd = Nil
                       /\ (i <= z.level => l.span = z.length - rank[x])
                  ELSE /\ l.fwd \in near
                       /\ \A y \in near : rank[l.fwd] <= rank[y]
                       /\ l.span = rank[l.fwd] - rank[x]
        /\ \A i \in z.level + 1 .. MaxLevel : after(Header, i) = {}
=============================================================================
