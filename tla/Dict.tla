-------------------------------- MODULE Dict --------------------------------
(***************************************************************************)
(* The hash table of dict.c: chaining, two tables while an incremental     *)
(* rehash is under way, resizing, and iterators that pause the rehash.     *)
(*                                                                         *)
(* A chain is the set of its entries.  New entries go to the head of a     *)
(* chain and are never reordered in it, so the only thing the order        *)
(* decides is which entry an iterator meets next; DictNext chooses it.     *)
(* Memory for an entry is an Entry that is linked nowhere: what a general  *)
(* allocator promises.  PagePool models the allocator of this fork.        *)
(***************************************************************************)
EXTENDS Integers, FiniteSets

CONSTANTS Key, Val, Entry, Null,
          Hash,            \* dictHashKey: a function from Key to Nat
          Sizes,           \* the table sizes: DICT_HT_INITIAL_SIZE doubled
          InitialSize,     \* DICT_HT_INITIAL_SIZE
          MaxSize,         \* where _dictNextPower saturates
          ForceRatio,      \* dict_force_resize_ratio
          MinFill          \* REDIS_HT_MINFILL

ASSUME DictConstants ==
    /\ IsFiniteSet(Entry)
    /\ Null \notin Key /\ Null \notin Val /\ Null \notin Entry
    /\ Hash \in [Key -> Nat]
    /\ Sizes \subseteq Nat \ {0}
    /\ InitialSize \in Sizes /\ MaxSize \in Sizes
    /\ \A s \in Sizes : InitialSize <= s /\ s <= MaxSize
    /\ ForceRatio \in Nat /\ MinFill \in Nat

Slot == 0..(MaxSize - 1)

VARIABLES d,          \* the struct dict with the entries it links
          iterators,  \* d->iterators: how many safe iterators are running
          canResize,  \* dict_can_resize
          iter,       \* the iterator in use
          seen,       \* history: keys returned and not deleted since
          must,       \* history: keys present since the iteration began
          ret         \* the reply of the last operation

vars == <<d, iterators, canResize, iter, seen, must, ret>>

\* struct dictht.  Slots at or past size do not exist and stay empty.
HashTable == [size : Nat, used : Nat, table : [Slot -> SUBSET Entry]]

NoTable == [size |-> 0, used |-> 0, table |-> [i \in Slot |-> {}]]

DictType ==
    [ht0 : HashTable, ht1 : HashTable, rehashidx : Int,
     key : [Entry -> Key \cup {Null}], val : [Entry -> Val \cup {Null}]]

-----------------------------------------------------------------------------
(* Reading the tables *)

IsRehashing(s) == s.rehashidx # -1

\* h & sizemask: the sizes are powers of two.
Index(k, size) == Hash[k] % size

InTable(ht) == UNION {ht.table[i] : i \in Slot}

Linked(s) == InTable(s.ht0) \cup InTable(s.ht1)

\* The entries for k in the one chain of ht where k belongs.
Search(s, ht, k) ==
    IF ht.size = 0 THEN {}
    ELSE {e \in ht.table[Index(k, ht.size)] : s.key[e] = k}

\* The search loop of dictFind, _dictKeyIndex and dictGenericDelete: the
\* second table is looked at only while rehashing.
Lookup(s, k) ==
    IF Search(s, s.ht0, k) # {} THEN Search(s, s.ht0, k)
    ELSE IF IsRehashing(s) THEN Search(s, s.ht1, k) ELSE {}

TheEntry(S) == CHOOSE e \in S : TRUE

-----------------------------------------------------------------------------
(* Rehashing and resizing *)

\* The first bucket at or after rehashidx that is not empty.
NextBucket(s) ==
    CHOOSE i \in Slot :
        /\ s.rehashidx <= i
        /\ s.ht0.table[i] # {}
        /\ \A j \in Slot : s.rehashidx <= j /\ j < i => s.ht0.table[j] = {}

\* One turn of the loop in dictRehash: finish, or move one bucket.
FinishRehash(s) ==
    [ht0 |-> s.ht1, ht1 |-> NoTable, rehashidx |-> -1,
     key |-> s.key, val |-> s.val]

\* Mutant of MoveBucket: ht[0].used is not decremented.
MoveBucketKeepUsed(s, i) ==
    [ht0 |-> [size |-> s.ht0.size, used |-> s.ht0.used,
              table |-> [s.ht0.table EXCEPT ![i] = {}]],
     ht1 |-> [size |-> s.ht1.size,
              used |-> s.ht1.used + Cardinality(s.ht0.table[i]),
              table |-> [j \in Slot |-> s.ht1.table[j] \cup
                  {e \in s.ht0.table[i] : Index(s.key[e], s.ht1.size) = j}]],
     rehashidx |-> i + 1,
     key |-> s.key, val |-> s.val]

MoveBucket(s, i) ==
    LET moved == s.ht0.table[i]
        n     == Cardinality(moved)
    IN [ht0 |-> [size |-> s.ht0.size, used |-> s.ht0.used - n,
                 table |-> [s.ht0.table EXCEPT ![i] = {}]],
        ht1 |-> [size |-> s.ht1.size, used |-> s.ht1.used + n,
                 table |-> [j \in Slot |-> s.ht1.table[j] \cup
                     {e \in moved : Index(s.key[e], s.ht1.size) = j}]],
        rehashidx |-> i + 1,
        key |-> s.key, val |-> s.val]

RehashOne(s) ==
    IF s.ht0.used = 0 THEN FinishRehash(s) ELSE MoveBucket(s, NextBucket(s))

\* Mutant of RehashStep: the running iterators are ignored.
RehashStepUnguarded(s) == IF IsRehashing(s) THEN RehashOne(s) ELSE s

\* _dictRehashStep: nothing moves while a safe iterator is running.
RehashStep(s) ==
    IF IsRehashing(s) /\ iterators = 0 THEN RehashOne(s) ELSE s

\* _dictNextPower
NextPower(n) ==
    IF n >= MaxSize THEN MaxSize
    ELSE CHOOSE p \in Sizes : n <= p /\ \A q \in Sizes : n <= q => p <= q

\* dictExpand: the first table of an empty dict, or the target of a rehash.
ExpandTo(s, n) ==
    LET new == [size |-> NextPower(n), used |-> 0, table |-> NoTable.table]
    IN IF IsRehashing(s) \/ s.ht0.used > n THEN s
       ELSE IF s.ht0.size = 0
       THEN [ht0 |-> new, ht1 |-> s.ht1, rehashidx |-> s.rehashidx,
             key |-> s.key, val |-> s.val]
       ELSE [ht0 |-> s.ht0, ht1 |-> new, rehashidx |-> 0,
             key |-> s.key, val |-> s.val]

\* _dictExpandIfNeeded
ExpandIfNeeded(s) ==
    IF IsRehashing(s) THEN s
    ELSE IF s.ht0.size = 0 THEN ExpandTo(s, InitialSize)
    ELSE IF /\ s.ht0.used >= s.ht0.size
            /\ canResize \/ s.ht0.used \div s.ht0.size > ForceRatio
         THEN ExpandTo(s, 2 * s.ht0.used)
         ELSE s

-----------------------------------------------------------------------------
(* Linking and unlinking entries *)

LinkInto(ht, e, k) ==
    [size |-> ht.size, used |-> ht.used + 1,
     table |-> [ht.table EXCEPT ![Index(k, ht.size)] = @ \cup {e}]]

\* Mutant of Link: the new entry always goes to the first table.
LinkOldTable(s, e, k, v) ==
    [ht0 |-> LinkInto(s.ht0, e, k), ht1 |-> s.ht1,
     rehashidx |-> s.rehashidx,
     key |-> [s.key EXCEPT ![e] = k], val |-> [s.val EXCEPT ![e] = v]]

\* A new entry goes to the second table while rehashing.
Link(s, e, k, v) ==
    [ht0 |-> IF IsRehashing(s) THEN s.ht0 ELSE LinkInto(s.ht0, e, k),
     ht1 |-> IF IsRehashing(s) THEN LinkInto(s.ht1, e, k) ELSE s.ht1,
     rehashidx |-> s.rehashidx,
     key |-> [s.key EXCEPT ![e] = k], val |-> [s.val EXCEPT ![e] = v]]

UnlinkFrom(ht, e) ==
    IF e \in InTable(ht)
    THEN [size |-> ht.size, used |-> ht.used - 1,
          table |-> [i \in Slot |-> ht.table[i] \ {e}]]
    ELSE ht

Unlink(s, e) ==
    [ht0 |-> UnlinkFrom(s.ht0, e), ht1 |-> UnlinkFrom(s.ht1, e),
     rehashidx |-> s.rehashidx,
     key |-> [s.key EXCEPT ![e] = Null], val |-> [s.val EXCEPT ![e] = Null]]

SetVal(s, e, v) ==
    [ht0 |-> s.ht0, ht1 |-> s.ht1, rehashidx |-> s.rehashidx,
     key |-> s.key, val |-> [s.val EXCEPT ![e] = v]]

\* The state dictAddRaw searches: after the rehash step and the expansion.
BeforeAdd(s) == ExpandIfNeeded(RehashStep(s))

-----------------------------------------------------------------------------
(* Operations.  While an iterator is open only its user runs.  The user of *)
(* a safe one may operate on the dict and delete the entry it was just     *)
(* given (keysCommand); that of an unsafe one only calls dictNext, which   *)
(* is a special case of the former.                                        *)

NoIter == [open |-> FALSE, done |-> FALSE, table |-> 0, index |-> -1,
           entry |-> Null, next |-> Null, ahead |-> {}]

\* The same for every operation that is not part of an iteration.
IterUnchanged == UNCHANGED <<iterators, canResize, iter, seen, must>>

\* An entry is fresh memory.
AddNew(s, k, v) == \E e \in Entry \ Linked(s) : d' = Link(s, e, k, v)

\* Mutant of DictAdd: the second table is not searched for the key.
DictAddOldOnly(k, v) ==
    /\ LET s == BeforeAdd(d)
       IN \/ Search(s, s.ht0, k) # {} /\ d' = s /\ ret' = "err"
          \/ Search(s, s.ht0, k) = {} /\ AddNew(s, k, v) /\ ret' = "ok"
    /\ IterUnchanged

DictAdd(k, v) ==
    /\ LET s == BeforeAdd(d)
       IN \/ Lookup(s, k) # {} /\ d' = s /\ ret' = "err"
          \/ Lookup(s, k) = {} /\ AddNew(s, k, v) /\ ret' = "ok"
    /\ IterUnchanged

\* dictAdd, and on failure dictFind (which may rehash again) and a new value.
DictReplace(k, v) ==
    /\ LET s == BeforeAdd(d)
           r == RehashStep(s)
       IN \/ /\ Lookup(s, k) # {}
             /\ d' = SetVal(r, TheEntry(Lookup(r, k)), v)
             /\ ret' = "updated"
          \/ Lookup(s, k) = {} /\ AddNew(s, k, v) /\ ret' = "added"
    /\ IterUnchanged

\* dictFind, and on failure dictAddRaw; the caller then sets the value.
DictReplaceRaw(k, v) ==
    /\ LET f == RehashStep(d)
           s == BeforeAdd(f)
       IN \/ /\ Lookup(f, k) # {}
             /\ d' = SetVal(f, TheEntry(Lookup(f, k)), v)
             /\ ret' = "updated"
          \/ Lookup(f, k) = {} /\ AddNew(s, k, v) /\ ret' = "added"
    /\ IterUnchanged

\* dictGenericDelete
DeleteEntry(k) ==
    /\ LET s == RehashStep(d)
       IN \/ /\ Lookup(s, k) # {}
             /\ d' = Unlink(s, TheEntry(Lookup(s, k)))
             /\ ret' = "ok"
          \/ Lookup(s, k) = {} /\ d' = s /\ ret' = "err"
    /\ seen' = seen \ {k}
    /\ must' = must \ {k}
    /\ UNCHANGED <<iterators, canResize, iter>>

DictDelete(k) ==
    /\ iter.open => iter.entry # Null /\ d.key[iter.entry] = k
    /\ DeleteEntry(k)

DictFind(k) ==
    /\ d' = RehashStep(d)
    /\ ret' = LET f == Lookup(d', k)
              IN IF f = {} THEN Null ELSE d'.val[TheEntry(f)]
    /\ IterUnchanged

\* dictGetRandomKey: any entry of any bucket that is not empty.
DictGetRandomKey ==
    /\ \/ /\ d.ht0.used + d.ht1.used = 0
          /\ ret' = Null
          /\ UNCHANGED d
       \/ /\ d.ht0.used + d.ht1.used # 0
          /\ d' = RehashStep(d)
          /\ \E e \in Linked(d') : ret' = d'.key[e]
    /\ IterUnchanged

Cleared == [ht0 |-> NoTable, ht1 |-> NoTable, rehashidx |-> -1,
            key |-> [e \in Entry |-> Null], val |-> [e \in Entry |-> Null]]

DictEmpty ==
    /\ ~iter.open
    /\ d' = Cleared
    /\ iterators' = 0
    /\ ret' = Null
    /\ UNCHANGED <<canResize, iter, seen, must>>

\* dictExpand with a size hint: for a new dict, and for one that was converted
\* from an intset and holds elements already.
DictExpand(n) ==
    /\ ~iter.open
    /\ d' = ExpandTo(d, n)
    /\ UNCHANGED ret
    /\ IterUnchanged

\* dictResize behind htNeedsResize: from serverCron, and after deletions.
NeedsResize(s) ==
    LET slots == s.ht0.size + s.ht1.size
        used  == s.ht0.used + s.ht1.used
    IN /\ slots # 0 /\ used # 0
       /\ slots > InitialSize
       /\ (used * 100) \div slots < MinFill

DictResize ==
    /\ ~iter.open
    /\ NeedsResize(d)
    /\ canResize /\ ~IsRehashing(d)
    /\ d' = ExpandTo(d, IF d.ht0.used < InitialSize THEN InitialSize
                                                    ELSE d.ht0.used)
    /\ UNCHANGED ret
    /\ IterUnchanged

\* Mutant of CronRehash: an emptied old table is not replaced by the new one.
CronRehashUnfinished ==
    /\ ~iter.open
    /\ canResize
    /\ IsRehashing(d)
    /\ d' = IF d.ht0.used = 0 THEN d ELSE RehashOne(d)
    /\ UNCHANGED ret
    /\ IterUnchanged

\* A turn of the loop of dictRehashMilliseconds, called by databasesCron when
\* there is no child process, which is when resizing is enabled.  It does not
\* look at iterators: none is open when the event loop calls serverCron.
CronRehash ==
    /\ ~iter.open
    /\ canResize
    /\ IsRehashing(d)
    /\ d' = RehashOne(d)
    /\ UNCHANGED ret
    /\ IterUnchanged

\* updateDictResizePolicy, as child processes start and end.
DictEnableResize ==
    /\ ~iter.open /\ ~canResize
    /\ canResize' = TRUE
    /\ UNCHANGED <<d, iterators, iter, seen, must, ret>>

DictDisableResize ==
    /\ ~iter.open /\ canResize
    /\ canResize' = FALSE
    /\ UNCHANGED <<d, iterators, iter, seen, must, ret>>

-----------------------------------------------------------------------------
(* Iterators *)

PresentKeys(s) == {s.key[e] : e \in Linked(s)}

DictGetSafeIterator ==
    /\ ~iter.open
    /\ iter' = [NoIter EXCEPT !.open = TRUE]
    /\ seen' = {}
    /\ must' = PresentKeys(d)
    /\ UNCHANGED <<d, iterators, canResize, ret>>

\* The buckets after the iterator's, in the order dictNext visits them.
Later(t, i) ==
    (t > iter.table \/ (t = iter.table /\ i > iter.index))
    /\ (t = 1 => IsRehashing(d))

Chain(t, i) == IF t = 0 THEN d.ht0.table[i] ELSE d.ht1.table[i]

Before(t, i, u, j) == t < u \/ (t = u /\ i < j)

FirstLater(t, i) ==
    /\ Later(t, i) /\ Chain(t, i) # {}
    /\ \A u \in 0..1, j \in Slot :
          Later(u, j) /\ Chain(u, j) # {} => ~Before(u, j, t, i)

\* Return e, remember the entry behind it and what follows in the chain.
Return(t, i, e, rest) ==
    /\ \/ rest = {} /\ iter' = [iter EXCEPT !.table = t, !.index = i,
                           !.entry = e, !.next = Null, !.ahead = {}]
       \/ \E n \in rest : iter' = [iter EXCEPT !.table = t, !.index = i,
                           !.entry = e, !.next = n, !.ahead = rest \ {n}]
    /\ seen' = seen \cup {d.key[e]}

DictNext ==
    /\ iter.open /\ ~iter.done
    /\ iterators' = IF iter.index = -1 /\ iter.table = 0
                    THEN iterators + 1 ELSE iterators
    /\ \/ /\ iter.next # Null
          /\ Return(iter.table, iter.index, iter.next,
                    iter.ahead \cap Chain(iter.table, iter.index))
       \/ /\ iter.next = Null
          /\ \E t \in 0..1, i \in Slot : FirstLater(t, i) /\
               \E e \in Chain(t, i) : Return(t, i, e, Chain(t, i) \ {e})
       \/ /\ iter.next = Null
          /\ \A t \in 0..1, i \in Slot : ~FirstLater(t, i)
          /\ iter' = [iter EXCEPT !.done = TRUE, !.entry = Null,
                                  !.index = MaxSize]
          /\ UNCHANGED seen
    /\ UNCHANGED <<d, canResize, must, ret>>

\* Mutant of DictReleaseIterator: the counter is always decremented.
ReleaseAlways ==
    /\ iter.open
    /\ iterators' = iterators - 1
    /\ iter' = NoIter
    /\ seen' = {} /\ must' = {}
    /\ UNCHANGED <<d, canResize, ret>>

\* Only an iterator that was advanced gives up its share of the counter.
DictReleaseIterator ==
    /\ iter.open
    /\ iterators' = IF ~(iter.index = -1 /\ iter.table = 0)
                    THEN iterators - 1 ELSE iterators
    /\ iter' = NoIter
    /\ seen' = {} /\ must' = {}
    /\ UNCHANGED <<d, canResize, ret>>

-----------------------------------------------------------------------------
Init ==
    /\ d = Cleared
    /\ iterators = 0
    /\ canResize = TRUE
    /\ iter = NoIter
    /\ seen = {} /\ must = {}
    /\ ret = Null

Operation ==
    \/ \E k \in Key, v \in Val :
          DictAdd(k, v) \/ DictReplace(k, v) \/ DictReplaceRaw(k, v)
    \/ \E k \in Key : DictFind(k)
    \/ DictGetRandomKey
    \/ DictEmpty
    \/ \E n \in Slot : DictExpand(n)
    \/ DictResize \/ CronRehash
    \/ DictEnableResize \/ DictDisableResize
    \/ DictGetSafeIterator \/ DictNext \/ DictReleaseIterator

Next == Operation \/ \E k \in Key : DictDelete(k)

\* serverCron runs for ever between commands, the child process behind a
\* disabled resize exits, and a command's loop over an iterator ends.
Fairness ==
    /\ SF_vars(CronRehash)
    /\ SF_vars(DictEnableResize)
    /\ WF_vars(DictNext)
    /\ WF_vars(DictReleaseIterator)

Spec == Init /\ [][Next]_vars

FairSpec == Spec /\ Fairness

-----------------------------------------------------------------------------
(* Properties *)

TypeOK ==
    /\ d \in DictType
    /\ iterators \in 0..1
    /\ canResize \in BOOLEAN
    /\ iter \in [open : BOOLEAN, done : BOOLEAN,
                 table : 0..1, index : -1..MaxSize,
                 entry : Entry \cup {Null}, next : Entry \cup {Null},
                 ahead : SUBSET Entry]
    /\ seen \subseteq Key /\ must \subseteq Key
    /\ ret \in Key \cup Val \cup {Null, "ok", "err", "added", "updated"}

\* Every entry is in the chain its key hashes to, in a slot that exists.
PlacedIn(s, ht) ==
    \A i \in Slot : \A e \in ht.table[i] :
        /\ s.key[e] \in Key /\ s.val[e] \in Val
        /\ i < ht.size
        /\ i = Index(s.key[e], ht.size)

Placed(s) == PlacedIn(s, s.ht0) /\ PlacedIn(s, s.ht1)

\* No key is linked twice, in one table or in both.
UniqueKeys(s) ==
    /\ InTable(s.ht0) \cap InTable(s.ht1) = {}
    /\ \A e, f \in Linked(s) : s.key[e] = s.key[f] => e = f

\* used is the number of entries, although it is only ever adjusted.
UsedCounts(s) ==
    /\ s.ht0.used = Cardinality(InTable(s.ht0))
    /\ s.ht1.used = Cardinality(InTable(s.ht1))

\* The buckets before rehashidx are done; without a rehash there is no
\* second table.
RehashPosition(s) ==
    /\ s.rehashidx >= -1
    /\ IsRehashing(s) =>
         /\ s.ht0.size \in Sizes /\ s.ht1.size \in Sizes
         /\ \A i \in Slot : i < s.rehashidx => s.ht0.table[i] = {}
    /\ ~IsRehashing(s) =>
         s.ht1 = NoTable /\ s.ht0.size \in Sizes \cup {0}

\* The structure every operation of dict.c relies on: entries in the right
\* chain of the right table, no duplicate key, exact used counters, and a
\* rehash position before which the old table is empty.
Structure ==
    Placed(d) /\ UniqueKeys(d) /\ UsedCounts(d) /\ RehashPosition(d)

\* dictRehash: "rehashidx can't overflow as we are sure there are more
\* elements because ht[0].used != 0": the scan for the next bucket to move
\* starts inside the table and meets a bucket that is not empty.
RehashScanStops ==
    IsRehashing(d) /\ d.ht0.used # 0 =>
        /\ d.rehashidx < d.ht0.size
        /\ \E i \in Slot : d.rehashidx <= i /\ i < d.ht0.size
                           /\ d.ht0.table[i] # {}

\* An iterator that ran to its end returned every key that was in the dict
\* during the whole iteration, whatever was added, replaced, looked up or
\* deleted meanwhile.
IterationComplete == iter.done => must \subseteq seen

\* dictNext never returns a key twice in one iteration, unless its user
\* deleted it and added it again in between.
IterationOnce ==
    [][DictNext /\ iter'.entry # Null => d.key[iter'.entry] \notin seen]_vars

\* The entry dictNext saved for its next call is still linked (dict.h: with
\* a safe iterator "you can call dictAdd, dictFind, and other functions
\* against the dictionary even while iterating").
SavedNextLinked == iter.next # Null => iter.next \in Linked(d)

\* An incremental rehash comes to an end.
RehashEnds == IsRehashing(d) ~> ~IsRehashing(d)

\* The dict is a map: with this abstraction every operation is one step of
\* DictMap with the same reply, and rehashing, resizing and iterating are
\* invisible.
Value(s, k) ==
    LET E == {e \in Linked(s) : s.key[e] = k}
    IN IF E = {} THEN Null ELSE s.val[TheEntry(E)]

Map == INSTANCE DictMap WITH map <- [k \in Key |-> Value(d, k)]

ImplementsMap == Map!MapSpec
=============================================================================
