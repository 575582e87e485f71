------------------------------- MODULE Objects -------------------------------
(* The values of the keyspace as the commands of all the types see them:  *)
(* a key has no object, or an object of one type in one of the encodings  *)
(* of that type.                                                          *)
EXTENDS Ziplist, Intset, Skiplist

CONSTANTS
    Key,
    MaxElements  \* bound, per type: the elements that all the keys together
                 \* may hold when a command on that type adds some

VARIABLES
    db,   \* per key, its object
    val,  \* per key, what the commands so far say its value is
    cmd   \* of the last command: did it count a change (server.dirty), which
          \* keys did it signal to the clients that watch them, and did an
          \* assertion of it fail, which ends the server

objVars == <<db, val, cmd>>

Object(type, enc, ptr) == [type |-> type, enc |-> enc, ptr |-> ptr]
NoKey == Object("none", "none", <<>>)
NoValue == [type |-> "none", v |-> <<>>]
Value(type, v) == [type |-> type, v |-> v]

ValueSize(x) ==
    CASE x.type = "list" -> Len(x.v)
      [] x.type = "set" -> Cardinality(x.v)
      [] x.type \in {"hash", "zset"} -> Cardinality(DOMAIN x.v)
      [] OTHER -> 0

Elements == FoldLeft(LAMBDA a, k : a + ValueSize(val[k]), 0, SetToSeq(Key))
Room(type, n) == Elements + n <= MaxElements[type]

(* lookupKeyWrite and checkType: a command of a type works on a key that  *)
(* has that type, most of them on one that has none as well.              *)
Has(k, type) == db[k].type = type
Fits(k, type) == db[k].type \in {"none", type}

(* A command that leaves object o at k, x being its value, or deletes k   *)
(* (dbDelete) when nothing is left in it.  It counts the change and       *)
(* signals the keys it touched; ok is FALSE when an assertion failed.     *)
Keep(d, k, o, empty) == [d EXCEPT ![k] = IF empty THEN NoKey ELSE o]
KeepValue(w, k, x) ==
    [w EXCEPT ![k] = IF x.type # "none" /\ ValueSize(x) = 0 THEN NoValue ELSE x]
Report(ok, dirty, keys) ==
    cmd' = [dirty |-> dirty, touched |-> keys, panic |-> ~ok]
Signal(dirty, keys) == Report(TRUE, dirty, keys)

(* The indexes of LRANGE, LTRIM, ZRANGE and ZREMRANGEBYRANK, from 0 and   *)
(* negative ones from the end: the first and the last one of the range.   *)
IndexRange(start, end, n) ==
    LET s0 == IF start < 0 THEN n + start ELSE start
        s == IF s0 < 0 THEN 0 ELSE s0
        e == IF end < 0 THEN n + end ELSE end
    IN  IF s > e \/ s >= n THEN [first |-> 0, last |-> -1]
        ELSE [first |-> s, last |-> IF e >= n THEN n - 1 ELSE e]

(* What those indexes mean: position p of n is in the range.              *)
InIndexRange(p, start, end, n) ==
    /\ p >= IF start < 0 THEN n + start ELSE start
    /\ p <= IF end < 0 THEN n + end ELSE end
Indexed(s, start, end) ==
    LET n == Len(s)
        at == SelectSeq([i \in 1 .. n |-> i],
                        LAMBDA i : InIndexRange(i - 1, start, end, n))
    IN  [j \in DOMAIN at |-> s[at[j]]]
=============================================================================
