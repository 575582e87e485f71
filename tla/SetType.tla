------------------------------- MODULE SetType -------------------------------
(* t_set.c: sets, as an intset while they hold few integers and nothing   *)
(* else, as a hash table (here a set) afterwards.                         *)
EXTENDS Objects

CONSTANTS
    SetValue,             \* the members given to commands
    SetMaxIntsetEntries   \* set-max-intset-entries

Members(o) == IF o.enc = "intset" THEN ToSet(o.ptr.c) ELSE o.ptr

(* setTypeCreate: the first value decides what the set starts as.         *)
setTypeCreate(v) ==
    IF IsNumber(v) THEN Object("set", "intset", intsetNew)
    ELSE Object("set", "hashtable", {})

setTypeConvert(o) == Object("set", "hashtable", Members(o))

setTypeIsMember(o, v) ==
    IF o.enc = "intset" THEN IsNumber(v) /\ intsetFind(o.ptr, v) ELSE v \in o.ptr

setTypeSize(o) == IF o.enc = "intset" THEN Len(o.ptr.c) ELSE Cardinality(o.ptr)

(* setTypeAdd: an intset that got a member is converted when it has too   *)
(* many; a member that is no integer converts it before it goes in.       *)
setTypeAdd(o, v) ==
    IF o.enc = "hashtable" THEN [o EXCEPT !.ptr = @ \union {v}]
    ELSE IF IsNumber(v)
    THEN LET put == [o EXCEPT !.ptr = intsetAdd(@, v)]
         IN  IF put # o /\ setTypeSize(put) > SetMaxIntsetEntries
             THEN setTypeConvert(put) ELSE put
    ELSE [setTypeConvert(o) EXCEPT !.ptr = @ \union {v}]

setTypeRemove(o, v) ==
    IF o.enc = "hashtable" THEN [o EXCEPT !.ptr = @ \ {v}]
    ELSE IF IsNumber(v) THEN [o EXCEPT !.ptr = intsetRemove(@, v)] ELSE o

AddAll(o, S) == FoldLeft(setTypeAdd, o, SetToSeq(S))
RemoveAll(o, S) == FoldLeft(setTypeRemove, o, SetToSeq(S))

SetObjectOf(k) == IF Has(k, "set") THEN Members(db[k]) ELSE {}
SetOf(k) == IF Has(k, "set") THEN val[k].v ELSE {}

----------------------------------------------------------------------------
(* SADD with its arguments vs.                                            *)
SAdd(k, vs) ==
    /\ Fits(k, "set") /\ Room("set", Len(vs))
    /\ LET o == FoldLeft(setTypeAdd,
                         IF Has(k, "set") THEN db[k] ELSE setTypeCreate(vs[1]), vs)
           added == \E i \in DOMAIN vs : vs[i] \notin SetObjectOf(k)
       IN  /\ db' = [db EXCEPT ![k] = o]
           /\ Signal(added, IF added THEN {k} ELSE {})
    /\ val' = [val EXCEPT ![k] = Value("set", SetOf(k) \union ToSet(vs))]

(* SREM: the loop over the arguments ends when the set is empty.          *)
SRem(k, vs) ==
    /\ Has(k, "set")
    /\ LET o == FoldLeft(setTypeRemove, db[k], vs)
           deleted == \E i \in DOMAIN vs : setTypeIsMember(db[k], vs[i])
       IN  /\ db' = Keep(db, k, o, setTypeSize(o) = 0)
           /\ Signal(deleted, IF deleted THEN {k} ELSE {})
    /\ val' = KeepValue(val, k, Value("set", val[k].v \ ToSet(vs)))

(* SPOP, which is propagated as an SREM of the member it took.            *)
SPop(k) ==
    /\ Has(k, "set")
    /\ \E v \in Members(db[k]) :
          LET o == setTypeRemove(db[k], v)
          IN  /\ db' = Keep(db, k, o, setTypeSize(o) = 0)
              /\ val' = KeepValue(val, k, Value("set", val[k].v \ {v}))
    /\ Signal(TRUE, {k})

(* SMOVE: nothing happens when the keys are the same one or the member is *)
(* not there.                                                             *)
SMove(src, dst, v) ==
    /\ Has(src, "set") /\ Fits(dst, "set")
    /\ src # dst /\ setTypeIsMember(db[src], v)
    /\ LET o == setTypeRemove(db[src], v)
           d == Keep(db, src, o, setTypeSize(o) = 0)
           to == IF Has(dst, "set") THEN db[dst] ELSE setTypeCreate(v)
       IN  db' = [d EXCEPT ![dst] = setTypeAdd(to, v)]
    /\ val' = KeepValue([val EXCEPT ![dst] = Value("set", SetOf(dst) \union {v})],
                        src, Value("set", val[src].v \ {v}))
    /\ Signal(TRUE, {src, dst})

(* sinterGenericCommand: the members of the smallest set that each other  *)
(* set has.                                                               *)
Inter(keys) ==
    LET size(i) == setTypeSize(db[keys[i]])
        least == CHOOSE i \in DOMAIN keys : \A j \in DOMAIN keys : size(i) <= size(j)
    IN  {v \in Members(db[keys[least]]) :
            \A j \in DOMAIN keys :
               keys[j] # keys[least] => setTypeIsMember(db[keys[j]], v)}

(* sunionDiffGenericCommand: the result as it grows, or as the sets after *)
(* the first one take members from it.                                    *)
UnionDiff(keys, op) ==
    FoldLeft(LAMBDA o, j :
               IF op = "union" \/ j = 1 THEN AddAll(o, SetObjectOf(keys[j]))
               ELSE RemoveAll(o, SetObjectOf(keys[j])),
             Object("set", "intset", intsetNew), [j \in DOMAIN keys |-> j])

(* The result takes the place of whatever dst held, of any type.          *)
StoreSet(dst, o, S) ==
    /\ db' = Keep(db, dst, o, setTypeSize(o) = 0)
    /\ val' = KeepValue(val, dst, Value("set", S))
    /\ Signal(TRUE, {dst})

(* SINTERSTORE: the first source that does not exist ends it.             *)
SInterStore(dst, keys) ==
    \/ /\ \A j \in DOMAIN keys : Has(keys[j], "set")
       /\ LET S == Inter(keys)
          IN  Room("set", Cardinality(S)) /\
              StoreSet(dst, AddAll(Object("set", "intset", intsetNew), S),
                       {v \in SetValue : \A j \in DOMAIN keys : v \in SetOf(keys[j])})
    \/ /\ \E j \in DOMAIN keys :
             /\ Has(keys[j], "none")
             /\ \A i \in 1 .. j - 1 : Has(keys[i], "set")
       /\ db' = [db EXCEPT ![dst] = NoKey]
       /\ val' = [val EXCEPT ![dst] = NoValue]
       /\ Signal(db[dst] # NoKey, IF db[dst] # NoKey THEN {dst} ELSE {})

(* SUNIONSTORE, SDIFFSTORE: a source that does not exist is empty.        *)
SUnionDiffStore(dst, keys, op) ==
    /\ \A j \in DOMAIN keys : Fits(keys[j], "set")
    /\ LET o == UnionDiff(keys, op)
           rest == UNION {SetOf(keys[j]) : j \in DOMAIN keys \ {1}}
       IN  /\ Room("set", setTypeSize(o))
           /\ StoreSet(dst, o, IF op = "union" THEN SetOf(keys[1]) \union rest
                               ELSE SetOf(keys[1]) \ rest)

SetNext ==
    \E k \in Key :
      \/ \E v \in SetValue :
            \/ SAdd(k, <<v>>)
            \/ \E w \in SetValue : SAdd(k, <<v, w>>) \/ SRem(k, <<v, w>>)
            \/ \E d \in Key : SMove(k, d, v)
      \/ SPop(k)
      \/ \E s, t \in Key :
            \/ SInterStore(k, <<s, t>>)
            \/ \E op \in {"union", "diff"} : SUnionDiffStore(k, <<s, t>>, op)

----------------------------------------------------------------------------
(* srandmemberWithCountCommand: what it may reply, each reply a set.  All *)
(* the members, or most of them, when members are taken at random from a  *)
(* copy of the set until count are left, or few of them, when members are *)
(* added at random until there are count.                                 *)
srandmember(o, count) ==
    LET all == Members(o)
        size == setTypeSize(o)
        taken == FoldLeft(LAMBDA R, i : UNION {{S \ {x} : x \in S} : S \in R},
                          {all}, [i \in 1 .. size - count |-> i])
        added == FoldLeft(LAMBDA R, i :
                            UNION {{S \union {x} : x \in all \ S} : S \in R},
                          {{}}, [i \in 1 .. count |-> i])
    IN  CASE count >= size -> {all}
          [] count < size /\ count * 3 > size -> taken
          [] OTHER -> added

SetReadsAgree(k) ==
    /\ \A v \in SetValue : setTypeIsMember(db[k], v) <=> v \in val[k].v
    /\ setTypeSize(db[k]) = Cardinality(val[k].v)
    /\ \A count \in 0 .. 3 : srandmember(db[k], count) =
          {S \in SUBSET val[k].v :
             Cardinality(S) = IF count < Cardinality(val[k].v) THEN count
                              ELSE Cardinality(val[k].v)}
=============================================================================
