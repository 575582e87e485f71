----------------------------- MODULE DictProofs -----------------------------
(***************************************************************************)
(* Proofs about Dict for every set of keys, values and entries, every hash *)
(* function and every set of table sizes.                                  *)
(***************************************************************************)
EXTENDS Dict, FiniteSetTheorems, TLAPS

\* The inductive invariant: the typed dict and its structure.
Good(s) ==
    /\ s \in DictType
    /\ Placed(s) /\ UniqueKeys(s) /\ UsedCounts(s) /\ RehashPosition(s)

\* r holds the entries of s, with their keys and values.
SameEntries(s, r) ==
    r.key = s.key /\ r.val = s.val /\ Linked(r) = Linked(s)

-----------------------------------------------------------------------------
(* Numbers *)

\* Every set of natural numbers that is not empty has a least element.
LEMMA LeastNat ==
    ASSUME NEW S \in SUBSET Nat, S # {}
    PROVE  \E m \in S : \A x \in S : m <= x
<1>1. PICK m \in S : \A x \in S : ~ (<<x, m>> \in OpToRel(<, Nat))
  BY WFMin, NatLessThanWellFounded
<1>2. \A x \in S : ~ (x < m)
  BY <1>1 DEF OpToRel
<1> QED BY <1>2

\* A key's slot exists in every table that has slots.
LEMMA IndexRange ==
    ASSUME NEW k \in Key, NEW n \in Nat \ {0}
    PROVE  Index(k, n) \in 0..(n - 1)
BY DictConstants DEF Index

\* _dictNextPower returns a table size, however large the request.
LEMMA NextPowerType ==
    ASSUME NEW n \in Nat
    PROVE  NextPower(n) \in Sizes
<1>1. CASE n >= MaxSize
  BY <1>1, DictConstants DEF NextPower
<1>2. CASE ~(n >= MaxSize)
  <2> DEFINE S == {p \in Sizes : n <= p}
  <2>0. MaxSize \in Nat /\ MaxSize \in Sizes /\ S \subseteq Nat
    BY DictConstants
  <2>1. MaxSize \in S
    BY <1>2, <2>0
  <2>2. PICK m \in S : \A x \in S : m <= x
    BY <2>0, <2>1, LeastNat
  <2>3. \E p \in Sizes : n <= p /\ \A q \in Sizes : n <= q => p <= q
    BY <2>2
  <2> QED BY <1>2, <2>3 DEF NextPower
<1> QED BY <1>1, <1>2

-----------------------------------------------------------------------------
(* Rehashing *)

\* A rehash with entries left in the old table has a next bucket to move,
\* and every bucket before it is empty.
LEMMA NextBucketExists ==
    ASSUME NEW s, Good(s), IsRehashing(s), s.ht0.used # 0
    PROVE  /\ NextBucket(s) \in Slot
           /\ s.rehashidx <= NextBucket(s)
           /\ s.ht0.table[NextBucket(s)] # {}
           /\ \A j \in Slot : j < NextBucket(s) => s.ht0.table[j] = {}
<1> DEFINE S == {i \in Slot : s.ht0.table[i] # {}}
<1>0. Slot \subseteq Nat /\ s.rehashidx \in Int
  BY DictConstants DEF Slot, Good, DictType
<1>1. InTable(s.ht0) # {}
  BY FS_EmptySet DEF Good, UsedCounts
<1>2. S \in SUBSET Nat /\ S # {}
  BY <1>0, <1>1 DEF InTable
<1>3. PICK m \in S : \A x \in S : m <= x
  BY <1>2, LeastNat
<1>4. \A j \in Slot : j < m => s.ht0.table[j] = {}
  <2>1. SUFFICES ASSUME NEW j \in Slot, j < m, s.ht0.table[j] # {} PROVE FALSE
    OBVIOUS
  <2>2. j \in Nat /\ m \in Nat BY <1>0, <1>2, <2>1
  <2>3. m <= j BY <1>3, <2>1
  <2> QED BY <2>1, <2>2, <2>3
<1>5. s.rehashidx <= m
  BY <1>0, <1>3 DEF Good, RehashPosition
<1>6. \E i \in Slot :
        /\ s.rehashidx <= i
        /\ s.ht0.table[i] # {}
        /\ \A j \in Slot : s.rehashidx <= j /\ j < i => s.ht0.table[j] = {}
  BY <1>3, <1>4, <1>5
<1>7. /\ NextBucket(s) \in Slot
      /\ s.rehashidx <= NextBucket(s)
      /\ s.ht0.table[NextBucket(s)] # {}
      /\ \A j \in Slot : s.rehashidx <= j /\ j < NextBucket(s)
                            => s.ht0.table[j] = {}
  BY <1>6 DEF NextBucket
<1>8. \A j \in Slot : j < s.rehashidx => s.ht0.table[j] = {}
  BY DEF Good, RehashPosition
<1> QED BY <1>0, <1>7, <1>8

\* A table of entries is finite, and so is each of its chains.
LEMMA TablesFinite ==
    ASSUME NEW s, Good(s)
    PROVE  /\ IsFiniteSet(InTable(s.ht0)) /\ IsFiniteSet(InTable(s.ht1))
           /\ InTable(s.ht0) \subseteq Entry /\ InTable(s.ht1) \subseteq Entry
           /\ \A i \in Slot : IsFiniteSet(s.ht0.table[i])
<1>1. InTable(s.ht0) \subseteq Entry /\ InTable(s.ht1) \subseteq Entry
  BY DEF Good, DictType, HashTable, InTable
<1>2. \A i \in Slot : s.ht0.table[i] \subseteq Entry
  BY DEF Good, DictType, HashTable
<1> QED BY <1>1, <1>2, FS_Subset, DictConstants

\* The sizes that occur are positive and within the slots.
LEMMA SizeRange ==
    ASSUME NEW n \in Sizes
    PROVE  n \in Nat \ {0} /\ n <= MaxSize /\ MaxSize \in Nat \ {0}
BY DictConstants

\* Ending a rehash keeps the structure: the old table is empty by then.
LEMMA FinishGood ==
    ASSUME NEW s, Good(s), IsRehashing(s), s.ht0.used = 0
    PROVE  Good(FinishRehash(s)) /\ SameEntries(s, FinishRehash(s))
<1> DEFINE r == FinishRehash(s)
<1>1. s \in DictType BY DEF Good
<1>2. /\ r = [ht0 |-> s.ht1, ht1 |-> NoTable, rehashidx |-> -1,
              key |-> s.key, val |-> s.val]
  BY <1>1 DEF FinishRehash, DictType
<1>3. NoTable \in HashTable /\ InTable(NoTable) = {}
  BY DEF NoTable, HashTable, InTable
<1>4. InTable(s.ht0) = {}
  BY TablesFinite, FS_EmptySet DEF Good, UsedCounts
<1>5. Linked(r) = Linked(s)
  BY <1>2, <1>3, <1>4 DEF Linked
<1>6. r \in DictType
  BY <1>1, <1>2, <1>3 DEF DictType
<1>7. Placed(r)
  <2>1. PlacedIn(s, s.ht1) BY DEF Good, Placed
  <2>2. PlacedIn(r, r.ht0) BY <1>2, <2>1 DEF PlacedIn
  <2>3. PlacedIn(r, NoTable) BY DEF PlacedIn, NoTable
  <2> QED BY <1>2, <2>2, <2>3 DEF Placed
<1>8. UniqueKeys(r)
  BY <1>2, <1>3, <1>5 DEF Good, UniqueKeys
<1>9. UsedCounts(r)
  <2>1. r.ht0.used = Cardinality(InTable(r.ht0))
    BY <1>2 DEF Good, UsedCounts
  <2>2. r.ht1 = NoTable /\ NoTable.used = 0
    BY <1>2 DEF NoTable
  <2> HIDE DEF r
  <2> QED BY <1>3, <2>1, <2>2, FS_EmptySet DEF UsedCounts
<1>10. RehashPosition(r)
  BY <1>2, SMTT(30) DEF Good, RehashPosition, IsRehashing
<1> QED BY <1>2, <1>5, <1>6, <1>7, <1>8, <1>9, <1>10 DEF Good, SameEntries

\* Moving the next bucket keeps the structure: its entries leave the old
\* table and arrive in the chains of the new one where their keys belong.
LEMMA MoveGood ==
    ASSUME NEW s, Good(s), IsRehashing(s), NEW i \in Slot,
           s.rehashidx <= i,
           \A j \in Slot : j < i => s.ht0.table[j] = {}
    PROVE  Good(MoveBucket(s, i)) /\ SameEntries(s, MoveBucket(s, i))
<1> DEFINE r == MoveBucket(s, i)
           moved == s.ht0.table[i]
           n == Cardinality(moved)
           t0 == [s.ht0.table EXCEPT ![i] = {}]
           t1 == [j \in Slot |-> s.ht1.table[j] \cup
                     {e \in moved : Index(s.key[e], s.ht1.size) = j}]
           h0 == [size |-> s.ht0.size, used |-> s.ht0.used - n, table |-> t0]
           h1 == [size |-> s.ht1.size, used |-> s.ht1.used + n, table |-> t1]
<1>1. s \in DictType BY DEF Good
<1>2. r = [ht0 |-> h0, ht1 |-> h1, rehashidx |-> i + 1,
           key |-> s.key, val |-> s.val]
  BY <1>1 DEF MoveBucket, DictType
<1>3. /\ s.ht0.table \in [Slot -> SUBSET Entry]
      /\ s.ht1.table \in [Slot -> SUBSET Entry]
      /\ s.ht0.size \in Sizes /\ s.ht1.size \in Sizes
      /\ s.ht0.used \in Nat /\ s.ht1.used \in Nat
      /\ s.rehashidx \in Int /\ s.rehashidx >= -1
  BY <1>1 DEF Good, DictType, HashTable, RehashPosition
<1>4. moved \subseteq Entry /\ IsFiniteSet(moved) /\ n \in Nat
      /\ moved \subseteq InTable(s.ht0)
  BY <1>3, TablesFinite, FS_CardinalityType DEF InTable
<1>5. \A e \in moved :
        /\ s.key[e] \in Key /\ s.val[e] \in Val
        /\ i = Index(s.key[e], s.ht0.size)
        /\ Index(s.key[e], s.ht1.size) \in Slot
        /\ Index(s.key[e], s.ht1.size) < s.ht1.size
  <2> SUFFICES ASSUME NEW e \in moved
               PROVE  /\ s.key[e] \in Key /\ s.val[e] \in Val
                      /\ i = Index(s.key[e], s.ht0.size)
                      /\ Index(s.key[e], s.ht1.size) \in Slot
                      /\ Index(s.key[e], s.ht1.size) < s.ht1.size
    OBVIOUS
  <2>1. s.key[e] \in Key /\ s.val[e] \in Val
        /\ i = Index(s.key[e], s.ht0.size)
    BY DEF Good, Placed, PlacedIn
  <2>2. s.ht1.size \in Nat \ {0} /\ s.ht1.size <= MaxSize
        /\ MaxSize \in Nat
    BY <1>3, SizeRange
  <2>3. Index(s.key[e], s.ht1.size) \in 0..(s.ht1.size - 1)
    BY <2>1, <2>2, IndexRange
  <2> QED BY <2>1, <2>2, <2>3 DEF Slot
<1>6. InTable(h0) = InTable(s.ht0) \ moved
  <2>1. \A j \in Slot : j # i => s.ht0.table[j] \cap moved = {}
    BY <1>5 DEF Good, Placed, PlacedIn
  <2>2. \A j \in Slot : t0[j] = IF j = i THEN {} ELSE s.ht0.table[j]
    BY <1>3
  <2> HIDE DEF t0, moved
  <2>3. InTable(h0) = UNION {t0[j] : j \in Slot}
    BY DEF InTable
  <2>4. ASSUME NEW e PROVE e \in InTable(h0) <=> e \in InTable(s.ht0) \ moved
    <3>1. e \in InTable(h0) => e \in InTable(s.ht0) \ moved
      BY <2>1, <2>2, <2>3 DEF InTable
    <3>2. e \in InTable(s.ht0) \ moved => e \in InTable(h0)
      BY <2>2, <2>3 DEF InTable, moved
    <3> QED BY <3>1, <3>2
  <2> QED BY <2>4
<1>7. InTable(h1) = InTable(s.ht1) \cup moved
  <2>1. \A j \in Slot : t1[j] = s.ht1.table[j] \cup
                     {e \in moved : Index(s.key[e], s.ht1.size) = j}
    OBVIOUS
  <2>2. InTable(h1) = UNION {t1[j] : j \in Slot}
    BY DEF InTable
  <2>3. \A e \in moved : Index(s.key[e], s.ht1.size) \in Slot
    BY <1>5
  <2> HIDE DEF t1, moved
  <2>4. ASSUME NEW e PROVE e \in InTable(h1) <=> e \in InTable(s.ht1) \cup moved
    <3>1. e \in InTable(h1) => e \in InTable(s.ht1) \cup moved
      BY <2>1, <2>2 DEF InTable
    <3>2. e \in InTable(s.ht1) => e \in InTable(h1)
      BY <2>1, <2>2 DEF InTable
    <3>3. e \in moved => e \in InTable(h1)
      BY <2>1, <2>2, <2>3
    <3> QED BY <3>1, <3>2, <3>3
  <2> QED BY <2>4
<1>8. Linked(r) = Linked(s)
  <2>1. Linked(r) = InTable(h0) \cup InTable(h1)
    BY <1>2 DEF Linked
  <2> HIDE DEF h0, h1, moved
  <2> QED BY <1>4, <1>6, <1>7, <2>1 DEF Linked
<1>9. /\ h0.used \in Nat /\ h0.used = Cardinality(InTable(h0))
      /\ h1.used \in Nat /\ h1.used = Cardinality(InTable(h1))
  <2>1. /\ IsFiniteSet(InTable(s.ht0)) /\ IsFiniteSet(InTable(s.ht1))
        /\ s.ht0.used = Cardinality(InTable(s.ht0))
        /\ s.ht1.used = Cardinality(InTable(s.ht1))
        /\ InTable(s.ht0) \cap InTable(s.ht1) = {}
    BY TablesFinite DEF Good, UsedCounts, UniqueKeys
  <2>2. InTable(s.ht0) \cap moved = moved /\ InTable(s.ht1) \cap moved = {}
    BY <1>4, <2>1
  <2>3. Cardinality(InTable(h0)) = s.ht0.used - n
    <3> HIDE DEF h0, moved
    <3>1. Cardinality(InTable(s.ht0) \ moved)
            = Cardinality(InTable(s.ht0))
              - Cardinality(InTable(s.ht0) \cap moved)
      BY <2>1, FS_Difference
    <3> QED BY <1>6, <2>1, <2>2, <3>1
  <2>4. Cardinality(InTable(h1)) = s.ht1.used + n - Cardinality({})
    BY <1>4, <1>7, <2>1, <2>2, FS_Union
  <2>5. n <= s.ht0.used
    BY <1>4, <2>1, FS_Subset
  <2> QED BY <1>3, <1>4, <2>3, <2>4, <2>5, FS_EmptySet
<1>10. r \in DictType
  <2>1. t0 \in [Slot -> SUBSET Entry] /\ t1 \in [Slot -> SUBSET Entry]
    BY <1>3, <1>4
  <2>2. s.ht0.size \in Nat /\ s.ht1.size \in Nat
    BY <1>3, SizeRange
  <2>3. i + 1 \in Int
    BY DictConstants DEF Slot
  <2>4. h0 \in HashTable /\ h1 \in HashTable
    BY <1>9, <2>1, <2>2 DEF HashTable
  <2> HIDE DEF h0, h1
  <2> QED BY <1>1, <1>2, <2>3, <2>4 DEF DictType
<1>11. Placed(r)
  <2>1. PlacedIn(s, s.ht0) /\ PlacedIn(s, s.ht1)
    BY DEF Good, Placed
  <2>2. PlacedIn(r, h0)
    BY <1>2, <1>3, <2>1 DEF PlacedIn
  <2>3. PlacedIn(r, h1)
    BY <1>2, <1>5, <2>1 DEF PlacedIn
  <2> QED BY <1>2, <2>2, <2>3 DEF Placed
<1>12. UniqueKeys(r)
  <2>1. InTable(h0) \cap InTable(h1) = {}
    <3>1. InTable(s.ht0) \cap InTable(s.ht1) = {}
      BY DEF Good, UniqueKeys
    <3> HIDE DEF h0, h1, moved
    <3> QED BY <1>6, <1>7, <3>1
  <2>2. r.ht0 = h0 /\ r.ht1 = h1 /\ r.key = s.key
    BY <1>2
  <2> HIDE DEF r, h0, h1
  <2> QED BY <1>8, <2>1, <2>2 DEF Good, UniqueKeys
<1>13. UsedCounts(r)
  BY <1>2, <1>9 DEF UsedCounts
<1>14. RehashPosition(r)
  <2>1. i \in Nat /\ i + 1 # -1
    BY DictConstants DEF Slot
  <2>2. \A j \in Slot : j < i + 1 => t0[j] = {}
    BY <1>3, <2>1, DictConstants DEF Slot
  <2> QED BY <1>2, <1>3, <2>1, <2>2 DEF RehashPosition, IsRehashing
<1> QED BY <1>2, <1>8, <1>10, <1>11, <1>12, <1>13, <1>14
        DEF Good, SameEntries

\* One turn of dictRehash's loop keeps the structure and the entries.
LEMMA RehashOneGood ==
    ASSUME NEW s, Good(s), IsRehashing(s)
    PROVE  Good(RehashOne(s)) /\ SameEntries(s, RehashOne(s))
<1>1. CASE s.ht0.used = 0
  BY <1>1, FinishGood DEF RehashOne
<1>2. CASE s.ht0.used # 0
  BY <1>2, NextBucketExists, MoveGood DEF RehashOne
<1> QED BY <1>1, <1>2

LEMMA RehashStepGood ==
    ASSUME NEW s, Good(s)
    PROVE  Good(RehashStep(s)) /\ SameEntries(s, RehashStep(s))
BY RehashOneGood DEF RehashStep, SameEntries

\* Expanding links nothing and unlinks nothing, and leaves a table.
LEMMA ExpandGood ==
    ASSUME NEW s, Good(s), NEW n \in Nat
    PROVE  /\ Good(ExpandTo(s, n)) /\ SameEntries(s, ExpandTo(s, n))
           /\ s.ht0.size # 0 => ExpandTo(s, n).ht0.size # 0
           /\ s.ht0.used <= n => ExpandTo(s, n).ht0.size # 0
<1> DEFINE new == [size |-> NextPower(n), used |-> 0,
                   table |-> NoTable.table]
<1>1. s \in DictType BY DEF Good
<1>2. new.size \in Sizes /\ new.size \in Nat \ {0}
  BY NextPowerType, SizeRange
<1>3. NoTable.table \in [Slot -> SUBSET Entry]
      /\ \A i \in Slot : NoTable.table[i] = {}
  BY DEF NoTable
<1>4. new \in HashTable /\ new.used = 0 /\ new.table = NoTable.table
  BY <1>2, <1>3 DEF HashTable
<1>5. InTable(new) = {}
  BY <1>3, <1>4 DEF InTable
<1>6. \A r : PlacedIn(r, new)
  BY <1>3, <1>4 DEF PlacedIn
<1> HIDE DEF new
<1>7. CASE IsRehashing(s) \/ s.ht0.used > n
  <2>1. ExpandTo(s, n) = s BY <1>7 DEF ExpandTo
  <2>2. s.ht0.used <= n => s.ht0.size # 0
    BY <1>1, <1>7, SizeRange DEF Good, RehashPosition, DictType, HashTable
  <2> QED BY <2>1, <2>2 DEF SameEntries
<1>8. CASE ~(IsRehashing(s) \/ s.ht0.used > n) /\ s.ht0.size = 0
  <2> DEFINE r == [ht0 |-> new, ht1 |-> s.ht1, rehashidx |-> s.rehashidx,
                   key |-> s.key, val |-> s.val]
  <2>1. ExpandTo(s, n) = r BY <1>8 DEF ExpandTo, new
  <2>2. /\ r.ht0 = new /\ r.ht1 = s.ht1 /\ r.rehashidx = s.rehashidx
        /\ r.key = s.key /\ r.val = s.val
    OBVIOUS
  <2>3. r \in DictType
    BY <1>1, <1>4 DEF DictType
  <2> HIDE DEF r
  <2>4. InTable(s.ht0) = {}
    <3>1. \A i \in Slot : s.ht0.table[i] = {}
      BY <1>8, DictConstants DEF Good, Placed, PlacedIn, Slot
    <3> QED BY <3>1 DEF InTable
  <2>5. Linked(r) = Linked(s)
    BY <1>5, <2>2, <2>4 DEF Linked
  <2>6. Placed(r)
    BY <1>6, <2>2 DEF Good, Placed, PlacedIn
  <2>7. UniqueKeys(r)
    BY <1>5, <2>2, <2>5 DEF Good, UniqueKeys
  <2>8. UsedCounts(r)
    BY <1>4, <1>5, <2>2, FS_EmptySet DEF Good, UsedCounts
  <2>9. RehashPosition(r)
    BY <1>2, <1>8, <2>2 DEF Good, RehashPosition, IsRehashing
  <2> QED BY <1>2, <2>1, <2>2, <2>3, <2>5, <2>6, <2>7, <2>8, <2>9
          DEF Good, SameEntries
<1>9. CASE ~(IsRehashing(s) \/ s.ht0.used > n) /\ s.ht0.size # 0
  <2> DEFINE r == [ht0 |-> s.ht0, ht1 |-> new, rehashidx |-> 0,
                   key |-> s.key, val |-> s.val]
  <2>1. ExpandTo(s, n) = r BY <1>9 DEF ExpandTo, new
  <2>2. /\ r.ht0 = s.ht0 /\ r.ht1 = new /\ r.rehashidx = 0
        /\ r.key = s.key /\ r.val = s.val
    OBVIOUS
  <2>3. r \in DictType
    BY <1>1, <1>4 DEF DictType
  <2> HIDE DEF r
  <2>4. s.ht1 = NoTable /\ InTable(s.ht1) = {}
    BY <1>3, <1>9 DEF Good, RehashPosition, InTable
  <2>5. Linked(r) = Linked(s)
    BY <1>5, <2>2, <2>4 DEF Linked
  <2>6. Placed(r)
    BY <1>6, <2>2, ZenonT(40) DEF Good, Placed, PlacedIn
  <2>7. UniqueKeys(r)
    BY <1>5, <2>2, <2>5 DEF Good, UniqueKeys
  <2>8. UsedCounts(r)
    BY <1>4, <1>5, <2>2, FS_EmptySet DEF Good, UsedCounts
  <2>9. RehashPosition(r)
    <3>1. s.ht0.size \in Sizes
      BY <1>9 DEF Good, RehashPosition
    <3>2. \A i \in Slot : ~(i < 0)
      BY DictConstants DEF Slot
    <3> QED BY <1>2, <2>2, <3>1, <3>2 DEF RehashPosition, IsRehashing
  <2> QED BY <1>9, <2>1, <2>2, <2>3, <2>5, <2>6, <2>7, <2>8, <2>9
          DEF Good, SameEntries
<1> QED BY <1>7, <1>8, <1>9

\* dictAddRaw searches a dict that has a table and the same entries.
LEMMA BeforeAddGood ==
    ASSUME NEW s, Good(s)
    PROVE  /\ Good(BeforeAdd(s)) /\ SameEntries(s, BeforeAdd(s))
           /\ BeforeAdd(s).ht0.size # 0
<1> DEFINE r == RehashStep(s)
<1>1. Good(r) /\ SameEntries(s, r) BY RehashStepGood
<1>2. r.ht0.size \in Nat /\ r.ht0.used \in Nat
  BY <1>1 DEF Good, DictType, HashTable
<1> HIDE DEF r
<1>3. Good(ExpandIfNeeded(r)) /\ SameEntries(r, ExpandIfNeeded(r))
      /\ ExpandIfNeeded(r).ht0.size # 0
  <2>1. CASE IsRehashing(r)
    <3>1. r.ht0.size # 0
      BY <1>1, <2>1, SizeRange DEF Good, RehashPosition
    <3> QED BY <1>1, <2>1, <3>1 DEF ExpandIfNeeded, SameEntries
  <2>2. CASE ~IsRehashing(r) /\ r.ht0.size = 0
    <3>1. InitialSize \in Nat BY DictConstants
    <3>2. InTable(r.ht0) = {}
      <4>1. \A i \in Slot : r.ht0.table[i] = {}
        BY <1>1, <2>2, DictConstants DEF Good, Placed, PlacedIn, Slot
      <4> QED BY <4>1 DEF InTable
    <3>3. r.ht0.used <= InitialSize
      BY <1>1, <3>1, <3>2, FS_EmptySet DEF Good, UsedCounts
    <3> QED BY <1>1, <2>2, <3>1, <3>3, ExpandGood DEF ExpandIfNeeded
  <2>3. CASE ~IsRehashing(r) /\ r.ht0.size # 0
    <3>1. 2 * r.ht0.used \in Nat BY <1>2
    <3> QED BY <1>1, <2>3, <3>1, ExpandGood DEF ExpandIfNeeded, SameEntries
  <2> QED BY <2>1, <2>2, <2>3
<1> QED BY <1>1, <1>3 DEF BeforeAdd, SameEntries, r

-----------------------------------------------------------------------------
(* Searching, linking and unlinking *)

\* Searching the one chain of a table finds what the whole table holds.
LEMMA SearchCorrect ==
    ASSUME NEW s, NEW ht, PlacedIn(s, ht), ht.size \in Sizes \cup {0},
           NEW k \in Key
    PROVE  Search(s, ht, k) = {e \in InTable(ht) : s.key[e] = k}
<1>1. CASE ht.size = 0
  <2>1. \A i \in Slot : ht.table[i] = {}
    BY <1>1, DictConstants DEF PlacedIn, Slot
  <2> QED BY <1>1, <2>1 DEF Search, InTable
<1>2. CASE ht.size # 0
  <2>1. ht.size \in Nat \ {0} /\ ht.size <= MaxSize /\ MaxSize \in Nat
    BY <1>2, SizeRange
  <2>2. Index(k, ht.size) \in Slot
    BY <2>1, IndexRange DEF Slot
  <2> DEFINE A == {e \in ht.table[Index(k, ht.size)] : s.key[e] = k}
             B == {e \in InTable(ht) : s.key[e] = k}
  <2>3. A \subseteq B
    BY <2>2 DEF InTable
  <2>4. ASSUME NEW e \in B PROVE e \in A
    <3>1. PICK i \in Slot : e \in ht.table[i] BY <2>4 DEF InTable
    <3>2. i = Index(k, ht.size) BY <2>4, <3>1 DEF PlacedIn
    <3> QED BY <2>4, <3>1, <3>2
  <2> QED BY <1>2, <2>3, <2>4 DEF Search
<1> QED BY <1>1, <1>2

\* The search of both tables finds the entry of a key exactly when one is
\* linked, at every moment of a rehash.
LEMMA LookupCorrect ==
    ASSUME NEW s, Good(s), NEW k \in Key
    PROVE  Lookup(s, k) = {e \in Linked(s) : s.key[e] = k}
<1>1. /\ s.ht0.size \in Sizes \cup {0}
      /\ IsRehashing(s) => s.ht1.size \in Sizes
      /\ ~IsRehashing(s) => InTable(s.ht1) = {}
  <2>1. InTable(NoTable) = {} BY DEF NoTable, InTable
  <2> QED BY <2>1 DEF Good, RehashPosition
<1>2. PlacedIn(s, s.ht0) /\ PlacedIn(s, s.ht1)
  BY DEF Good, Placed
<1>3. Search(s, s.ht0, k) = {e \in InTable(s.ht0) : s.key[e] = k}
  BY <1>1, <1>2, SearchCorrect
<1>4. IsRehashing(s) =>
        Search(s, s.ht1, k) = {e \in InTable(s.ht1) : s.key[e] = k}
  BY <1>1, <1>2, SearchCorrect
<1>5. CASE Search(s, s.ht0, k) # {}
  <2>1. PICK f \in InTable(s.ht0) : s.key[f] = k BY <1>3, <1>5
  <2>2. \A e \in Linked(s) : s.key[e] = k => e = f
    BY <2>1 DEF Good, UniqueKeys, Linked
  <2>3. Lookup(s, k) = Search(s, s.ht0, k) BY <1>5 DEF Lookup
  <2> QED BY <1>3, <2>1, <2>2, <2>3 DEF Linked
<1>6. CASE Search(s, s.ht0, k) = {}
  BY <1>1, <1>3, <1>4, <1>6 DEF Lookup, Linked
<1> QED BY <1>5, <1>6

\* At most one entry is found.
LEMMA LookupUnique ==
    ASSUME NEW s, Good(s), NEW k \in Key, Lookup(s, k) # {}
    PROVE  /\ TheEntry(Lookup(s, k)) \in Linked(s)
           /\ s.key[TheEntry(Lookup(s, k))] = k
           /\ \A e \in Linked(s) : s.key[e] = k => e = TheEntry(Lookup(s, k))
<1>1. TheEntry(Lookup(s, k)) \in Lookup(s, k) BY DEF TheEntry
<1> QED BY <1>1, LookupCorrect DEF Good, UniqueKeys

LEMMA LinkIntoTable ==
    ASSUME NEW ht, ht \in HashTable, ht.size \in Sizes,
           NEW e \in Entry, e \notin InTable(ht), NEW k \in Key,
           ht.used = Cardinality(InTable(ht))
    PROVE  /\ LinkInto(ht, e, k) \in HashTable
           /\ LinkInto(ht, e, k).size = ht.size
           /\ InTable(LinkInto(ht, e, k)) = InTable(ht) \cup {e}
           /\ LinkInto(ht, e, k).used = Cardinality(InTable(LinkInto(ht, e, k)))
           /\ \A i \in Slot : LinkInto(ht, e, k).table[i] =
                 IF i = Index(k, ht.size) THEN ht.table[i] \cup {e}
                                          ELSE ht.table[i]
<1> DEFINE r == LinkInto(ht, e, k)
<1>1. ht.size \in Nat \ {0} /\ ht.size <= MaxSize /\ MaxSize \in Nat
  BY SizeRange
<1>2. Index(k, ht.size) \in Slot
  BY <1>1, IndexRange DEF Slot
<1>3. ht.table \in [Slot -> SUBSET Entry] /\ ht.used \in Nat
  BY DEF HashTable
<1>4. /\ r.size = ht.size /\ r.used = ht.used + 1
      /\ r.table = [ht.table EXCEPT ![Index(k, ht.size)] = @ \cup {e}]
      /\ r = [size |-> r.size, used |-> r.used, table |-> r.table]
  BY DEF LinkInto
<1> HIDE DEF r
<1>5. \A i \in Slot : r.table[i] =
        IF i = Index(k, ht.size) THEN ht.table[i] \cup {e} ELSE ht.table[i]
  BY <1>3, <1>4
<1>6. InTable(r) = InTable(ht) \cup {e}
  BY <1>2, <1>5, ZenonT(40) DEF InTable
<1>7. r.table \in [Slot -> SUBSET Entry]
  BY <1>3, <1>4
<1>8. r \in HashTable
  BY <1>1, <1>3, <1>4, <1>7 DEF HashTable
<1>9. IsFiniteSet(InTable(ht))
  <2>1. InTable(ht) \subseteq Entry BY <1>3 DEF InTable
  <2> QED BY <2>1, FS_Subset, DictConstants
<1>10. Cardinality(InTable(r)) = Cardinality(InTable(ht)) + 1
  BY <1>6, <1>9, FS_AddElement
<1> QED BY <1>4, <1>5, <1>6, <1>8, <1>10 DEF r

\* Linking fresh memory for a key that is not there keeps the structure.
LEMMA LinkGood ==
    ASSUME NEW s, Good(s), s.ht0.size # 0,
           NEW e \in Entry \ Linked(s), NEW k \in Key, NEW v \in Val,
           Lookup(s, k) = {}
    PROVE  /\ Good(Link(s, e, k, v))
           /\ Linked(Link(s, e, k, v)) = Linked(s) \cup {e}
<1> DEFINE r == Link(s, e, k, v)
<1>1. s \in DictType BY DEF Good
<1>2. /\ r.ht0 = IF IsRehashing(s) THEN s.ht0 ELSE LinkInto(s.ht0, e, k)
      /\ r.ht1 = IF IsRehashing(s) THEN LinkInto(s.ht1, e, k) ELSE s.ht1
      /\ r.rehashidx = s.rehashidx
      /\ r.key = [s.key EXCEPT ![e] = k] /\ r.val = [s.val EXCEPT ![e] = v]
      /\ r = [ht0 |-> r.ht0, ht1 |-> r.ht1, rehashidx |-> r.rehashidx,
              key |-> r.key, val |-> r.val]
  BY DEF Link
<1> HIDE DEF r
<1>3. /\ s.ht0 \in HashTable /\ s.ht1 \in HashTable /\ s.rehashidx \in Int
      /\ s.key \in [Entry -> Key \cup {Null}]
      /\ s.val \in [Entry -> Val \cup {Null}]
      /\ e \in Entry /\ e \notin InTable(s.ht0) /\ e \notin InTable(s.ht1)
      /\ s.ht0.used = Cardinality(InTable(s.ht0))
      /\ s.ht1.used = Cardinality(InTable(s.ht1))
  BY <1>1 DEF Good, DictType, Linked, UsedCounts
<1>4. s.ht0.size \in Sizes /\ (IsRehashing(s) => s.ht1.size \in Sizes)
  BY DEF Good, RehashPosition
<1>5. /\ r.ht0 \in HashTable /\ r.ht1 \in HashTable
      /\ r.ht0.size = s.ht0.size /\ r.ht1.size = s.ht1.size
      /\ InTable(r.ht0) = InTable(s.ht0) \cup (IF IsRehashing(s) THEN {} ELSE {e})
      /\ InTable(r.ht1) = InTable(s.ht1) \cup (IF IsRehashing(s) THEN {e} ELSE {})
      /\ r.ht0.used = Cardinality(InTable(r.ht0))
      /\ r.ht1.used = Cardinality(InTable(r.ht1))
  <2>1. CASE IsRehashing(s)
    BY <1>2, <1>3, <1>4, <2>1, LinkIntoTable
  <2>2. CASE ~IsRehashing(s)
    BY <1>2, <1>3, <1>4, <2>2, LinkIntoTable
  <2> QED BY <2>1, <2>2
<1>6. Linked(r) = Linked(s) \cup {e}
  BY <1>5 DEF Linked
<1>7. /\ r.key[e] = k /\ r.val[e] = v
      /\ \A f \in Entry : f # e => r.key[f] = s.key[f] /\ r.val[f] = s.val[f]
  BY <1>2, <1>3
<1>8. r \in DictType
  BY <1>2, <1>3, <1>5 DEF DictType
<1>9. Placed(r)
  <2>1. PlacedIn(s, s.ht0) /\ PlacedIn(s, s.ht1) BY DEF Good, Placed
  <2>2. ASSUME NEW ht \in HashTable, PlacedIn(s, ht), e \notin InTable(ht)
        PROVE  PlacedIn(r, ht)
    <3>1. \A i \in Slot : \A f \in ht.table[i] : f \in Entry /\ f # e
      BY <2>2 DEF HashTable, InTable
    <3> QED BY <1>7, <2>2, <3>1 DEF PlacedIn
  <2>3. ASSUME NEW ht \in HashTable, PlacedIn(s, ht), e \notin InTable(ht),
               ht.size \in Sizes, ht.used = Cardinality(InTable(ht))
        PROVE  PlacedIn(r, LinkInto(ht, e, k))
    <3>1. PlacedIn(r, ht) BY <2>2, <2>3
    <3>2. ht.size \in Nat \ {0} BY <2>3, SizeRange
    <3>3. Index(k, ht.size) \in 0..(ht.size - 1) BY <3>2, IndexRange
    <3>4. Index(k, ht.size) < ht.size BY <3>2, <3>3
    <3>5. /\ LinkInto(ht, e, k).size = ht.size
          /\ \A i \in Slot : LinkInto(ht, e, k).table[i] =
                 IF i = Index(k, ht.size) THEN ht.table[i] \cup {e}
                                          ELSE ht.table[i]
      BY <2>3, LinkIntoTable
    <3> DEFINE L == LinkInto(ht, e, k)
    <3> HIDE DEF L
    <3>6. ASSUME NEW i \in Slot, NEW f \in L.table[i]
          PROVE  /\ r.key[f] \in Key /\ r.val[f] \in Val
                 /\ i < L.size /\ i = Index(r.key[f], L.size)
      <4>1. CASE f \in ht.table[i]
        BY <3>1, <3>5, <4>1 DEF PlacedIn, L
      <4>2. CASE f \notin ht.table[i]
        <5>1. f = e /\ i = Index(k, ht.size) BY <3>5, <3>6, <4>2 DEF L
        <5> QED BY <1>7, <3>4, <3>5, <5>1 DEF L
      <4> QED BY <4>1, <4>2
    <3> QED BY <3>6 DEF PlacedIn, L
  <2>4. CASE IsRehashing(s)
    <3>1. PlacedIn(r, s.ht0) BY <1>3, <2>1, <2>2
    <3>2. PlacedIn(r, LinkInto(s.ht1, e, k)) BY <1>3, <1>4, <2>1, <2>3, <2>4
    <3> QED BY <1>2, <2>4, <3>1, <3>2 DEF Placed
  <2>5. CASE ~IsRehashing(s)
    <3>1. PlacedIn(r, s.ht1) BY <1>3, <2>1, <2>2
    <3>2. PlacedIn(r, LinkInto(s.ht0, e, k)) BY <1>3, <1>4, <2>1, <2>3
    <3> QED BY <1>2, <2>5, <3>1, <3>2 DEF Placed
  <2> QED BY <2>4, <2>5
<1>10. UniqueKeys(r)
  <2>1. \A f \in Linked(s) : s.key[f] # k
    BY LookupCorrect
  <2>2. Linked(s) \subseteq Entry
    BY TablesFinite DEF Linked
  <2>3. \A f, g \in Linked(s) : s.key[f] = s.key[g] => f = g
    BY DEF Good, UniqueKeys
  <2>4. \A f, g \in Linked(r) : r.key[f] = r.key[g] => f = g
    BY <1>3, <1>6, <1>7, <2>1, <2>2, <2>3
  <2>5. InTable(r.ht0) \cap InTable(r.ht1) = {}
    BY <1>3, <1>5 DEF Good, UniqueKeys
  <2> QED BY <2>4, <2>5 DEF UniqueKeys
<1>11. UsedCounts(r)
  BY <1>5 DEF UsedCounts
<1>12. RehashPosition(r)
  <2>1. CASE IsRehashing(s)
    BY <1>2, <1>5, <2>1 DEF Good, RehashPosition, IsRehashing
  <2>2. CASE ~IsRehashing(s)
    BY <1>2, <1>5, <2>2 DEF Good, RehashPosition, IsRehashing
  <2> QED BY <2>1, <2>2
<1> QED BY <1>6, <1>8, <1>9, <1>10, <1>11, <1>12 DEF Good, r

LEMMA UnlinkFromTable ==
    ASSUME NEW ht, ht \in HashTable, NEW e,
           ht.used = Cardinality(InTable(ht))
    PROVE  /\ UnlinkFrom(ht, e) \in HashTable
           /\ UnlinkFrom(ht, e).size = ht.size
           /\ InTable(UnlinkFrom(ht, e)) = InTable(ht) \ {e}
           /\ UnlinkFrom(ht, e).used = Cardinality(InTable(UnlinkFrom(ht, e)))
           /\ \A i \in Slot : UnlinkFrom(ht, e).table[i] = ht.table[i] \ {e}
           /\ e \notin InTable(ht) => UnlinkFrom(ht, e) = ht
<1> DEFINE r == UnlinkFrom(ht, e)
<1>1. CASE e \notin InTable(ht)
  <2>1. r = ht BY <1>1 DEF UnlinkFrom
  <2>2. \A i \in Slot : e \notin ht.table[i] BY <1>1 DEF InTable
  <2> QED BY <1>1, <2>1, <2>2
<1>2. CASE e \in InTable(ht)
  <2>1. ht.table \in [Slot -> SUBSET Entry] /\ ht.used \in Nat /\ ht.size \in Nat
    BY DEF HashTable
  <2>2. /\ r.size = ht.size /\ r.used = ht.used - 1
        /\ r.table = [i \in Slot |-> ht.table[i] \ {e}]
        /\ r = [size |-> r.size, used |-> r.used, table |-> r.table]
    BY <1>2 DEF UnlinkFrom
  <2> HIDE DEF r
  <2>3. \A i \in Slot : r.table[i] = ht.table[i] \ {e}
    BY <2>2
  <2>4. InTable(r) = InTable(ht) \ {e}
    BY <2>3 DEF InTable
  <2>5. IsFiniteSet(InTable(ht))
    <3>1. InTable(ht) \subseteq Entry BY <2>1 DEF InTable
    <3> QED BY <3>1, FS_Subset, DictConstants
  <2>6. IsFiniteSet(InTable(r)) /\ Cardinality(InTable(r)) = Cardinality(InTable(ht)) - 1
    BY <1>2, <2>4, <2>5, FS_RemoveElement
  <2>7. r.used \in Nat
    BY <2>2, <2>6, FS_CardinalityType
  <2>8. r.table \in [Slot -> SUBSET Entry]
    BY <2>1, <2>2
  <2>9. r \in HashTable
    BY <2>1, <2>2, <2>7, <2>8 DEF HashTable
  <2> QED BY <1>2, <2>2, <2>3, <2>4, <2>6, <2>9 DEF r
<1> QED BY <1>1, <1>2

\* Unlinking an entry keeps the structure.
LEMMA UnlinkGood ==
    ASSUME NEW s, Good(s), NEW e \in Entry
    PROVE  /\ Good(Unlink(s, e))
           /\ Linked(Unlink(s, e)) = Linked(s) \ {e}
<1> DEFINE r == Unlink(s, e)
<1>1. s \in DictType BY DEF Good
<1>2. /\ r.ht0 = UnlinkFrom(s.ht0, e) /\ r.ht1 = UnlinkFrom(s.ht1, e)
      /\ r.rehashidx = s.rehashidx
      /\ r.key = [s.key EXCEPT ![e] = Null] /\ r.val = [s.val EXCEPT ![e] = Null]
      /\ r = [ht0 |-> r.ht0, ht1 |-> r.ht1, rehashidx |-> r.rehashidx,
              key |-> r.key, val |-> r.val]
  BY DEF Unlink
<1> HIDE DEF r
<1>3. /\ s.ht0 \in HashTable /\ s.ht1 \in HashTable /\ s.rehashidx \in Int
      /\ s.key \in [Entry -> Key \cup {Null}]
      /\ s.val \in [Entry -> Val \cup {Null}]
      /\ s.ht0.used = Cardinality(InTable(s.ht0))
      /\ s.ht1.used = Cardinality(InTable(s.ht1))
  BY <1>1 DEF Good, DictType, UsedCounts
<1>4. /\ r.ht0 \in HashTable /\ r.ht1 \in HashTable
      /\ r.ht0.size = s.ht0.size /\ r.ht1.size = s.ht1.size
      /\ InTable(r.ht0) = InTable(s.ht0) \ {e}
      /\ InTable(r.ht1) = InTable(s.ht1) \ {e}
      /\ r.ht0.used = Cardinality(InTable(r.ht0))
      /\ r.ht1.used = Cardinality(InTable(r.ht1))
      /\ \A i \in Slot : r.ht0.table[i] = s.ht0.table[i] \ {e}
      /\ \A i \in Slot : r.ht1.table[i] = s.ht1.table[i] \ {e}
      /\ e \notin InTable(s.ht1) => r.ht1 = s.ht1
  BY <1>2, <1>3, UnlinkFromTable
<1>5. Linked(r) = Linked(s) \ {e}
  BY <1>4 DEF Linked
<1>6. \A f \in Entry : f # e => r.key[f] = s.key[f] /\ r.val[f] = s.val[f]
  BY <1>2, <1>3
<1>7. r \in DictType
  BY <1>2, <1>3, <1>4 DEF DictType
<1>8. Placed(r)
  <2>1. PlacedIn(s, s.ht0) /\ PlacedIn(s, s.ht1) BY DEF Good, Placed
  <2>2. \A i \in Slot : s.ht0.table[i] \subseteq Entry /\ s.ht1.table[i] \subseteq Entry
    BY <1>3 DEF HashTable
  <2>3. PlacedIn(r, r.ht0)
    BY <1>4, <1>6, <2>1, <2>2 DEF PlacedIn
  <2>4. PlacedIn(r, r.ht1)
    BY <1>4, <1>6, <2>1, <2>2 DEF PlacedIn
  <2> QED BY <2>3, <2>4 DEF Placed
<1>9. UniqueKeys(r)
  <2>1. Linked(s) \subseteq Entry BY TablesFinite DEF Linked
  <2>2. \A f, g \in Linked(s) : s.key[f] = s.key[g] => f = g
    BY DEF Good, UniqueKeys
  <2>3. \A f, g \in Linked(r) : r.key[f] = r.key[g] => f = g
    BY <1>5, <1>6, <2>1, <2>2
  <2>4. InTable(r.ht0) \cap InTable(r.ht1) = {}
    BY <1>4 DEF Good, UniqueKeys
  <2> QED BY <2>3, <2>4 DEF UniqueKeys
<1>10. UsedCounts(r) BY <1>4 DEF UsedCounts
<1>11. RehashPosition(r)
  <2>1. CASE IsRehashing(s)
    BY <1>2, <1>4, <2>1 DEF Good, RehashPosition, IsRehashing
  <2>2. CASE ~IsRehashing(s)
    <3>1. s.ht1 = NoTable /\ InTable(NoTable) = {}
      BY <2>2 DEF Good, RehashPosition, NoTable, InTable
    <3> QED BY <1>2, <1>4, <2>2, <3>1 DEF Good, RehashPosition, IsRehashing
  <2> QED BY <2>1, <2>2
<1> QED BY <1>5, <1>7, <1>8, <1>9, <1>10, <1>11 DEF Good, r

\* A new value for a linked entry keeps the structure.
LEMMA SetValGood ==
    ASSUME NEW s, Good(s), NEW e \in Linked(s), NEW v \in Val
    PROVE  Good(SetVal(s, e, v)) /\ Linked(SetVal(s, e, v)) = Linked(s)
<1> DEFINE r == SetVal(s, e, v)
<1>1. s \in DictType BY DEF Good
<1>2. /\ r.ht0 = s.ht0 /\ r.ht1 = s.ht1 /\ r.rehashidx = s.rehashidx
      /\ r.key = s.key /\ r.val = [s.val EXCEPT ![e] = v]
      /\ r = [ht0 |-> r.ht0, ht1 |-> r.ht1, rehashidx |-> r.rehashidx,
              key |-> r.key, val |-> r.val]
  BY DEF SetVal
<1> HIDE DEF r
<1>3. Linked(r) = Linked(s) BY <1>2 DEF Linked
<1>4. e \in Entry /\ Linked(s) \subseteq Entry BY TablesFinite DEF Linked
<1>5. s.val \in [Entry -> Val \cup {Null}] BY <1>1 DEF DictType
<1>6. r \in DictType
  BY <1>1, <1>2, <1>4, <1>5 DEF DictType
<1>7. \A f \in Entry : s.val[f] \in Val => r.val[f] \in Val
  BY <1>2, <1>5
<1>8. Placed(r)
  <2>1. \A i \in Slot : s.ht0.table[i] \subseteq Entry /\ s.ht1.table[i] \subseteq Entry
    BY <1>1 DEF DictType, HashTable
  <2> QED BY <1>2, <1>7, <2>1 DEF Good, Placed, PlacedIn
<1>9. UniqueKeys(r) /\ UsedCounts(r) /\ RehashPosition(r)
  BY <1>2, <1>3 DEF Good, UniqueKeys, UsedCounts, RehashPosition, IsRehashing
<1> QED BY <1>3, <1>6, <1>8, <1>9 DEF Good, r

-----------------------------------------------------------------------------
(* The inductive invariant *)

\* Memory that is not linked holds no key.
FreeBlank(s) == \A e \in Entry \ Linked(s) : s.key[e] = Null

\* The counter of running iterators is the one iterator that was advanced;
\* the entry saved for the next call is linked and is neither the entry
\* returned last nor among the ones behind it.
IterInv ==
    /\ iter \in [open : BOOLEAN, done : BOOLEAN,
                 table : 0..1, index : -1..MaxSize,
                 entry : Entry \cup {Null}, next : Entry \cup {Null},
                 ahead : SUBSET Entry]
    /\ iterators = IF iter.index = -1 THEN 0 ELSE 1
    /\ iter.index = -1 => iter.table = 0 /\ iter.next = Null
    /\ ~iter.open => iter = NoIter
    /\ iter.next # Null => /\ iter.next # iter.entry
                           /\ iter.next \notin iter.ahead
                           /\ iter.index \in Slot

RetType == Key \cup Val \cup {Null, "ok", "err", "added", "updated"}

IInv ==
    /\ Good(d) /\ FreeBlank(d)
    /\ canResize \in BOOLEAN
    /\ IterInv
    /\ iter.next # Null => iter.next \in Linked(d)
    /\ seen \subseteq Key /\ must \subseteq Key
    /\ ret \in RetType

LEMMA SameBlank ==
    ASSUME NEW s, NEW r, SameEntries(s, r), FreeBlank(s)
    PROVE  FreeBlank(r)
BY DEF SameEntries, FreeBlank

LEMMA ClearedGood == Good(Cleared) /\ Linked(Cleared) = {} /\ FreeBlank(Cleared)
<1>1. /\ NoTable \in HashTable /\ InTable(NoTable) = {}
      /\ NoTable.used = 0 /\ NoTable.size = 0
      /\ \A i \in Slot : NoTable.table[i] = {}
  BY DEF NoTable, HashTable, InTable
<1>2. /\ Cleared.ht0 = NoTable /\ Cleared.ht1 = NoTable
      /\ Cleared.rehashidx = -1
      /\ Cleared.key = [e \in Entry |-> Null]
      /\ Cleared \in DictType
  BY <1>1 DEF Cleared, DictType
<1>3. Linked(Cleared) = {} BY <1>1, <1>2 DEF Linked
<1>4. Placed(Cleared) BY <1>1, <1>2 DEF Placed, PlacedIn
<1>5. UniqueKeys(Cleared) BY <1>1, <1>2, <1>3 DEF UniqueKeys
<1>6. UsedCounts(Cleared) BY <1>1, <1>2, FS_EmptySet DEF UsedCounts
<1>7. RehashPosition(Cleared) BY <1>1, <1>2 DEF RehashPosition, IsRehashing
<1>8. FreeBlank(Cleared) BY <1>2 DEF FreeBlank
<1> QED BY <1>2, <1>3, <1>4, <1>5, <1>6, <1>7, <1>8 DEF Good

\* Linking a new entry for an absent key, as dictAddRaw does.
LEMMA AddNewInv ==
    ASSUME NEW s, Good(s), FreeBlank(s), s.ht0.size # 0,
           NEW k \in Key, NEW v \in Val, Lookup(s, k) = {}, AddNew(s, k, v)
    PROVE  Good(d') /\ FreeBlank(d') /\ Linked(s) \subseteq Linked(d')
<1>1. PICK e \in Entry \ Linked(s) : d' = Link(s, e, k, v)
  BY DEF AddNew
<1>2. Good(d') /\ Linked(d') = Linked(s) \cup {e}
  BY <1>1, LinkGood
<1>3. s.key \in [Entry -> Key \cup {Null}] BY DEF Good, DictType
<1>4. d'.key = [s.key EXCEPT ![e] = k] BY <1>1 DEF Link
<1>5. FreeBlank(d') BY <1>2, <1>3, <1>4 DEF FreeBlank
<1> QED BY <1>2, <1>5

LEMMA SetValInv ==
    ASSUME NEW s, Good(s), FreeBlank(s), NEW e \in Linked(s), NEW v \in Val
    PROVE  /\ Good(SetVal(s, e, v)) /\ FreeBlank(SetVal(s, e, v))
           /\ Linked(SetVal(s, e, v)) = Linked(s)
<1>1. Good(SetVal(s, e, v)) /\ Linked(SetVal(s, e, v)) = Linked(s)
  BY SetValGood
<1>2. SetVal(s, e, v).key = s.key BY DEF SetVal
<1> QED BY <1>1, <1>2 DEF FreeBlank

\* A step that leaves the iterator alone and unlinks nothing.
LEMMA QuietStep ==
    ASSUME IInv, IterUnchanged, Good(d'), FreeBlank(d'),
           Linked(d) \subseteq Linked(d'), ret' \in RetType
    PROVE  IInv'
<1>1. /\ iterators' = iterators /\ canResize' = canResize /\ iter' = iter
      /\ seen' = seen /\ must' = must
  BY DEF IterUnchanged
<1>2. IterInv'
  BY <1>1 DEF IInv, IterInv
<1> QED BY <1>1, <1>2 DEF IInv

\* What the operations search and change, as facts about the current state.
LEMMA Searched ==
    ASSUME IInv
    PROVE  /\ Good(RehashStep(d)) /\ FreeBlank(RehashStep(d))
           /\ Linked(RehashStep(d)) = Linked(d)
           /\ Good(BeforeAdd(d)) /\ FreeBlank(BeforeAdd(d))
           /\ Linked(BeforeAdd(d)) = Linked(d)
           /\ BeforeAdd(d).ht0.size # 0
<1>1. Good(d) /\ FreeBlank(d) BY DEF IInv
<1>2. Good(RehashStep(d)) /\ SameEntries(d, RehashStep(d))
  BY <1>1, RehashStepGood
<1>3. Good(BeforeAdd(d)) /\ SameEntries(d, BeforeAdd(d))
      /\ BeforeAdd(d).ht0.size # 0
  BY <1>1, BeforeAddGood
<1> QED BY <1>1, <1>2, <1>3, SameBlank DEF SameEntries

LEMMA AddInv ==
    ASSUME IInv, NEW k \in Key, NEW v \in Val, DictAdd(k, v)
    PROVE  IInv'
<1> DEFINE s == BeforeAdd(d)
<1>1. Good(s) /\ FreeBlank(s) /\ Linked(s) = Linked(d) /\ s.ht0.size # 0
  BY Searched
<1> HIDE DEF s
<1>2. CASE Lookup(s, k) # {} /\ d' = s /\ ret' = "err"
  BY <1>1, <1>2, QuietStep DEF DictAdd, RetType
<1>3. CASE Lookup(s, k) = {} /\ AddNew(s, k, v) /\ ret' = "ok"
  <2>1. Good(d') /\ FreeBlank(d') /\ Linked(s) \subseteq Linked(d')
    BY <1>1, <1>3, AddNewInv
  <2> QED BY <1>1, <1>3, <2>1, QuietStep DEF DictAdd, RetType
<1> QED BY <1>2, <1>3 DEF DictAdd, s

LEMMA ReplaceInv ==
    ASSUME IInv, NEW k \in Key, NEW v \in Val, DictReplace(k, v)
    PROVE  IInv'
<1> DEFINE s == BeforeAdd(d)
           r == RehashStep(s)
<1>1. Good(s) /\ FreeBlank(s) /\ Linked(s) = Linked(d) /\ s.ht0.size # 0
  BY Searched
<1>2. Good(r) /\ SameEntries(s, r)
  BY <1>1, RehashStepGood
<1>3. FreeBlank(r) /\ Linked(r) = Linked(d)
  BY <1>1, <1>2, SameBlank DEF SameEntries
<1> HIDE DEF s, r
<1>4. CASE /\ Lookup(s, k) # {}
           /\ d' = SetVal(r, TheEntry(Lookup(r, k)), v)
           /\ ret' = "updated"
  <2>1. Lookup(r, k) # {}
    BY <1>1, <1>2, <1>4, LookupCorrect DEF SameEntries
  <2>2. TheEntry(Lookup(r, k)) \in Linked(r)
    BY <1>2, <2>1, LookupUnique
  <2>3. Good(d') /\ FreeBlank(d') /\ Linked(d') = Linked(r)
    BY <1>2, <1>3, <1>4, <2>2, SetValInv
  <2> QED BY <1>3, <1>4, <2>3, QuietStep DEF DictReplace, RetType
<1>5. CASE Lookup(s, k) = {} /\ AddNew(s, k, v) /\ ret' = "added"
  <2>1. Good(d') /\ FreeBlank(d') /\ Linked(s) \subseteq Linked(d')
    BY <1>1, <1>5, AddNewInv
  <2> QED BY <1>1, <1>5, <2>1, QuietStep DEF DictReplace, RetType
<1> QED BY <1>4, <1>5 DEF DictReplace, s, r

LEMMA ReplaceRawInv ==
    ASSUME IInv, NEW k \in Key, NEW v \in Val, DictReplaceRaw(k, v)
    PROVE  IInv'
<1> DEFINE f == RehashStep(d)
           s == BeforeAdd(f)
<1>1. Good(f) /\ FreeBlank(f) /\ Linked(f) = Linked(d)
  BY Searched
<1>2. Good(s) /\ SameEntries(f, s) /\ s.ht0.size # 0
  BY <1>1, BeforeAddGood
<1>3. FreeBlank(s) /\ Linked(s) = Linked(d)
  BY <1>1, <1>2, SameBlank DEF SameEntries
<1> HIDE DEF s, f
<1>4. CASE /\ Lookup(f, k) # {}
           /\ d' = SetVal(f, TheEntry(Lookup(f, k)), v)
           /\ ret' = "updated"
  <2>1. TheEntry(Lookup(f, k)) \in Linked(f)
    BY <1>1, <1>4, LookupUnique
  <2>2. Good(d') /\ FreeBlank(d') /\ Linked(d') = Linked(f)
    BY <1>1, <1>4, <2>1, SetValInv
  <2> QED BY <1>1, <1>4, <2>2, QuietStep DEF DictReplaceRaw, RetType
<1>5. CASE Lookup(f, k) = {} /\ AddNew(s, k, v) /\ ret' = "added"
  <2>1. Lookup(s, k) = {}
    BY <1>1, <1>2, <1>5, LookupCorrect DEF SameEntries
  <2>2. Good(d') /\ FreeBlank(d') /\ Linked(s) \subseteq Linked(d')
    BY <1>2, <1>3, <1>5, <2>1, AddNewInv
  <2> QED BY <1>3, <1>5, <2>2, QuietStep DEF DictReplaceRaw, RetType
<1> QED BY <1>4, <1>5 DEF DictReplaceRaw, s, f

\* The user of an iterator may delete the entry it was given: the saved
\* entry is another one.
LEMMA DeleteInv ==
    ASSUME IInv, NEW k \in Key, DictDelete(k)
    PROVE  IInv'
<1> DEFINE s == RehashStep(d)
<1>1. Good(s) /\ FreeBlank(s) /\ Linked(s) = Linked(d)
  BY Searched
<1>2. SameEntries(d, s) BY RehashStepGood DEF IInv
<1> HIDE DEF s
<1>3. /\ iterators' = iterators /\ canResize' = canResize /\ iter' = iter
      /\ seen' \subseteq Key /\ must' \subseteq Key
  BY DEF DictDelete, DeleteEntry, IInv
<1>4. IterInv' BY <1>3 DEF IInv, IterInv
<1>5. CASE Lookup(s, k) = {} /\ d' = s /\ ret' = "err"
  BY <1>1, <1>3, <1>4, <1>5 DEF IInv, RetType
<1>6. CASE /\ Lookup(s, k) # {}
           /\ d' = Unlink(s, TheEntry(Lookup(s, k)))
           /\ ret' = "ok"
  <2> DEFINE e == TheEntry(Lookup(s, k))
  <2>1. e \in Linked(s) /\ s.key[e] = k
        /\ \A g \in Linked(s) : s.key[g] = k => g = e
    BY <1>1, <1>6, LookupUnique
  <2>2. e \in Entry BY <1>1, <2>1, TablesFinite DEF Linked
  <2>3. Good(d') /\ Linked(d') = Linked(s) \ {e}
    BY <1>1, <1>6, <2>2, UnlinkGood
  <2>4. s.key \in [Entry -> Key \cup {Null}] BY <1>1 DEF Good, DictType
  <2>5. d'.key = [s.key EXCEPT ![e] = Null] BY <1>6 DEF Unlink
  <2> HIDE DEF e
  <2>6. FreeBlank(d')
    BY <1>1, <2>2, <2>3, <2>4, <2>5 DEF FreeBlank
  <2>7. ASSUME iter.next # Null PROVE iter.next # e
    <3>1. iter.open BY <2>7 DEF IInv, IterInv, NoIter
    <3>2. iter.entry # Null /\ d.key[iter.entry] = k
      BY <3>1 DEF DictDelete
    <3>3. iter.entry \in Entry BY <3>2 DEF IInv, IterInv
    <3>4. s.key[iter.entry] = k BY <1>2, <3>2 DEF SameEntries
    <3>5. iter.entry \in Linked(s)
      BY <1>1, <3>3, <3>4, DictConstants DEF FreeBlank
    <3>6. iter.entry = e BY <2>1, <3>4, <3>5
    <3> QED BY <2>7, <3>6 DEF IInv, IterInv
  <2>8. iter.next # Null => iter.next \in Linked(d')
    BY <1>1, <2>3, <2>7 DEF IInv
  <2> QED BY <1>3, <1>4, <1>6, <2>3, <2>6, <2>8 DEF IInv, RetType
<1> QED BY <1>5, <1>6 DEF DictDelete, DeleteEntry, s

\* A linked entry has a key and a value.
LEMMA LinkedTyped ==
    ASSUME NEW s, Good(s), NEW e \in Linked(s)
    PROVE  e \in Entry /\ s.key[e] \in Key /\ s.val[e] \in Val
BY DEF Good, DictType, HashTable, Linked, InTable, Placed, PlacedIn

LEMMA FindInv ==
    ASSUME IInv, NEW k \in Key, DictFind(k)
    PROVE  IInv'
<1>1. Good(d') /\ FreeBlank(d') /\ Linked(d') = Linked(d)
  BY Searched DEF DictFind
<1>2. CASE Lookup(d', k) = {}
  <2>1. ret' = Null BY <1>2 DEF DictFind
  <2> QED BY <1>1, <2>1, QuietStep DEF DictFind, RetType
<1>3. CASE Lookup(d', k) # {}
  <2>1. TheEntry(Lookup(d', k)) \in Linked(d') BY <1>1, <1>3, LookupUnique
  <2>2. ret' = d'.val[TheEntry(Lookup(d', k))] BY <1>3 DEF DictFind
  <2>3. ret' \in RetType BY <1>1, <2>1, <2>2, LinkedTyped DEF RetType
  <2> QED BY <1>1, <2>3, QuietStep DEF DictFind
<1> QED BY <1>2, <1>3

LEMMA RandomInv ==
    ASSUME IInv, DictGetRandomKey
    PROVE  IInv'
<1>1. CASE d.ht0.used + d.ht1.used = 0 /\ ret' = Null /\ UNCHANGED d
  BY <1>1, QuietStep DEF DictGetRandomKey, RetType, IInv
<1>2. CASE /\ d.ht0.used + d.ht1.used # 0
           /\ d' = RehashStep(d)
           /\ \E e \in Linked(d') : ret' = d'.key[e]
  <2>1. Good(d') /\ FreeBlank(d') /\ Linked(d') = Linked(d)
    BY <1>2, Searched
  <2>2. ret' \in RetType BY <1>2, <2>1, LinkedTyped DEF RetType
  <2> QED BY <2>1, <2>2, QuietStep DEF DictGetRandomKey
<1> QED BY <1>1, <1>2 DEF DictGetRandomKey

\* Steps between commands, when no iterator is open.
LEMMA ServerInv ==
    ASSUME IInv,
           \/ DictEmpty \/ (\E n \in Slot : DictExpand(n))
           \/ DictResize \/ CronRehash
           \/ DictEnableResize \/ DictDisableResize
    PROVE  IInv'
<1>1. Good(d) /\ FreeBlank(d) /\ ret \in RetType BY DEF IInv
<1>2. CASE DictEmpty
  <2>1. iter' = iter /\ iter = NoIter /\ iterators' = 0
        /\ canResize' = canResize /\ seen' = seen /\ must' = must /\ ret' = Null
    BY <1>2 DEF DictEmpty, IInv, IterInv
  <2>2. IterInv' BY <2>1 DEF IInv, IterInv, NoIter
  <2>3. Good(d') /\ FreeBlank(d') BY <1>2, ClearedGood DEF DictEmpty
  <2>4. iter'.next = Null BY <2>1 DEF NoIter
  <2> QED BY <2>1, <2>2, <2>3, <2>4 DEF IInv, RetType
<1>3. ASSUME NEW n \in Slot, DictExpand(n) PROVE IInv'
  <2>1. n \in Nat BY DictConstants DEF Slot
  <2>2. Good(d') /\ SameEntries(d, d')
    BY <1>1, <1>3, <2>1, ExpandGood DEF DictExpand
  <2> QED BY <1>1, <1>3, <2>2, SameBlank, QuietStep DEF DictExpand, SameEntries
<1>4. CASE DictResize
  <2>1. d.ht0.used \in Nat /\ InitialSize \in Nat
    BY <1>1, DictConstants DEF Good, DictType, HashTable
  <2>2. Good(d') /\ SameEntries(d, d')
    BY <1>1, <1>4, <2>1, ExpandGood DEF DictResize
  <2> QED BY <1>1, <1>4, <2>2, SameBlank, QuietStep DEF DictResize, SameEntries
<1>5. CASE CronRehash
  <2>1. Good(d') /\ SameEntries(d, d')
    BY <1>1, <1>5, RehashOneGood DEF CronRehash
  <2> QED BY <1>1, <1>5, <2>1, SameBlank, QuietStep DEF CronRehash, SameEntries
<1>6. CASE DictEnableResize \/ DictDisableResize
  <2>1. /\ d' = d /\ iterators' = iterators /\ iter' = iter /\ seen' = seen
        /\ must' = must /\ ret' = ret /\ canResize' \in BOOLEAN
    BY <1>6 DEF DictEnableResize, DictDisableResize
  <2>2. IterInv' BY <2>1 DEF IInv, IterInv
  <2> QED BY <2>1, <2>2 DEF IInv
<1> QED BY <1>2, <1>3, <1>4, <1>5, <1>6

\* The entries of a chain are linked.
LEMMA ChainLinked ==
    ASSUME Good(d), NEW t \in 0..1, NEW i \in Slot
    PROVE  Chain(t, i) \subseteq Linked(d) /\ Chain(t, i) \subseteq Entry
BY DEF Chain, Linked, InTable, Good, DictType, HashTable

\* Returning an entry of the dict and saving another one behind it.
LEMMA ReturnInv ==
    ASSUME IInv, NEW t \in 0..1, NEW i \in Slot, NEW e \in Linked(d),
           NEW rest \in SUBSET Linked(d), e \notin rest,
           Return(t, i, e, rest), iter.open, iterators' = 1,
           UNCHANGED <<d, canResize, must, ret>>
    PROVE  IInv'
<1>1. Good(d) /\ e \in Entry /\ d.key[e] \in Key /\ Linked(d) \subseteq Entry
  BY LinkedTyped DEF IInv
<1>2. MaxSize \in Nat BY DictConstants
<1>3. iter \in [open : BOOLEAN, done : BOOLEAN,
                table : 0..1, index : -1..MaxSize,
                entry : Entry \cup {Null}, next : Entry \cup {Null},
                ahead : SUBSET Entry]
  BY DEF IInv, IterInv
<1>4. d' = d /\ canResize' = canResize /\ must' = must /\ ret' = ret
      /\ seen' \subseteq Key
  BY <1>1 DEF Return, IInv
<1>5. i # -1 /\ i \in -1..MaxSize BY <1>2 DEF Slot
<1>6. CASE rest = {} /\ iter' = [iter EXCEPT !.table = t, !.index = i,
                           !.entry = e, !.next = Null, !.ahead = {}]
  <2>1. /\ iter'.open /\ iter'.index = i /\ iter'.next = Null
        /\ iter' \in [open : BOOLEAN, done : BOOLEAN,
                table : 0..1, index : -1..MaxSize,
                entry : Entry \cup {Null}, next : Entry \cup {Null},
                ahead : SUBSET Entry]
    BY <1>1, <1>3, <1>5, <1>6
  <2>2. IterInv' BY <1>5, <2>1 DEF IterInv
  <2> QED BY <1>4, <2>1, <2>2 DEF IInv
<1>7. ASSUME NEW n \in rest,
             iter' = [iter EXCEPT !.table = t, !.index = i,
                           !.entry = e, !.next = n, !.ahead = rest \ {n}]
      PROVE  IInv'
  <2>1. n \in Entry /\ n # e /\ n \in Linked(d) /\ rest \ {n} \in SUBSET Entry
    BY <1>1, <1>7
  <2>2. /\ iter'.open /\ iter'.index = i /\ iter'.next = n
        /\ iter'.entry = e /\ iter'.ahead = rest \ {n}
        /\ iter' \in [open : BOOLEAN, done : BOOLEAN,
                table : 0..1, index : -1..MaxSize,
                entry : Entry \cup {Null}, next : Entry \cup {Null},
                ahead : SUBSET Entry]
    BY <1>1, <1>3, <1>5, <1>7, <2>1
  <2>3. IterInv' BY <1>5, <2>1, <2>2 DEF IterInv
  <2> QED BY <1>4, <2>1, <2>2, <2>3 DEF IInv
<1> QED BY <1>6, <1>7 DEF Return

LEMMA IteratorInv ==
    ASSUME IInv, DictGetSafeIterator \/ DictNext \/ DictReleaseIterator
    PROVE  IInv'
<1>1. Good(d) /\ IterInv BY DEF IInv
<1>2. iter.index \in -1..MaxSize /\ iter.table \in 0..1 /\ MaxSize \in Nat \ {0}
      /\ (iter.next # Null => iter.next \in Entry) /\ iter.ahead \subseteq Entry
      /\ NoIter.index = -1 /\ NoIter.next = Null
  BY <1>1, DictConstants DEF IterInv, NoIter
<1>3. CASE DictGetSafeIterator
  <2>1. /\ iter' = [NoIter EXCEPT !.open = TRUE] /\ seen' = {}
        /\ must' = PresentKeys(d) /\ d' = d /\ iterators' = iterators
        /\ canResize' = canResize /\ ret' = ret
    BY <1>3 DEF DictGetSafeIterator
  <2>2. iterators = 0
    BY <1>1, <1>3 DEF DictGetSafeIterator, IterInv, NoIter
  <2>3. iter' = [open |-> TRUE, done |-> FALSE, table |-> 0, index |-> -1,
                 entry |-> Null, next |-> Null, ahead |-> {}]
    BY <2>1 DEF NoIter
  <2>4. -1 \in -1..MaxSize BY <1>2
  <2>5. IterInv'
    <3>1. /\ iter'.open /\ iter'.index = -1 /\ iter'.table = 0
          /\ iter'.next = Null
      BY <2>3
    <3>2. iter' \in [open : BOOLEAN, done : BOOLEAN,
                table : 0..1, index : -1..MaxSize,
                entry : Entry \cup {Null}, next : Entry \cup {Null},
                ahead : SUBSET Entry]
      BY <2>3, <2>4
    <3> QED BY <2>1, <2>2, <3>1, <3>2 DEF IterInv
  <2>6. iter'.next = Null BY <2>3
  <2>7. PresentKeys(d) \subseteq Key BY <1>1, LinkedTyped DEF PresentKeys
  <2> QED BY <2>1, <2>5, <2>6, <2>7 DEF IInv
<1>4. CASE DictNext
  <2>1. iter.open /\ iterators' = 1 /\ UNCHANGED <<d, canResize, must, ret>>
    BY <1>1, <1>2, <1>4 DEF DictNext, IterInv
  <2>2. CASE /\ iter.next # Null
             /\ Return(iter.table, iter.index, iter.next,
                       iter.ahead \cap Chain(iter.table, iter.index))
    <3> DEFINE rest == iter.ahead \cap Chain(iter.table, iter.index)
    <3>1. iter.next \in Linked(d) /\ iter.index \in Slot
          /\ iter.next \notin rest
      BY <1>2, <2>2 DEF IInv, IterInv
    <3>2. rest \subseteq Linked(d)
      BY <1>1, <1>2, <3>1, ChainLinked
    <3> QED BY <1>2, <2>1, <2>2, <3>1, <3>2, ReturnInv
  <2>3. ASSUME NEW t \in 0..1, NEW i \in Slot, NEW e \in Chain(t, i),
               Return(t, i, e, Chain(t, i) \ {e})
        PROVE  IInv'
    <3>1. Chain(t, i) \subseteq Linked(d) BY <1>1, ChainLinked
    <3> QED BY <2>1, <2>3, <3>1, ReturnInv
  <2>4. CASE /\ iter.next = Null
             /\ iter' = [iter EXCEPT !.done = TRUE, !.entry = Null,
                                     !.index = MaxSize]
             /\ UNCHANGED seen
    <3>0. MaxSize \in -1..MaxSize /\ MaxSize # -1 BY <1>2
    <3>1. /\ iter'.open /\ iter'.next = Null /\ iter'.index = MaxSize
          /\ iter' \in [open : BOOLEAN, done : BOOLEAN,
                table : 0..1, index : -1..MaxSize,
                entry : Entry \cup {Null}, next : Entry \cup {Null},
                ahead : SUBSET Entry]
      BY <1>1, <2>1, <2>4, <3>0 DEF IterInv
    <3>2. IterInv' BY <2>1, <3>0, <3>1 DEF IterInv
    <3> QED BY <2>1, <2>4, <3>1, <3>2 DEF IInv
  <2> QED BY <1>4, <2>2, <2>3, <2>4 DEF DictNext
<1>5. CASE DictReleaseIterator
  <2>1. /\ iter' = NoIter /\ seen' = {} /\ must' = {} /\ d' = d
        /\ canResize' = canResize /\ ret' = ret
    BY <1>5 DEF DictReleaseIterator
  <2>2. iterators' = 0
    BY <1>1, <1>2, <1>5 DEF DictReleaseIterator, IterInv
  <2>3. IterInv'
    BY <1>2, <2>1, <2>2 DEF IterInv, NoIter
  <2>4. iter'.next = Null BY <1>2, <2>1
  <2> QED BY <2>1, <2>3, <2>4 DEF IInv
<1> QED BY <1>3, <1>4, <1>5

LEMMA InitInv == Init => IInv
<1> SUFFICES ASSUME Init PROVE IInv OBVIOUS
<1>1. Good(d) /\ FreeBlank(d) BY ClearedGood DEF Init
<1>2. -1 \in -1..MaxSize BY DictConstants
<1>3. IterInv BY <1>2 DEF Init, IterInv, NoIter
<1>4. iter.next = Null BY DEF Init, NoIter
<1> QED BY <1>1, <1>3, <1>4 DEF Init, IInv, RetType

LEMMA StepInv == IInv /\ [Next]_vars => IInv'
<1> SUFFICES ASSUME IInv, [Next]_vars PROVE IInv' OBVIOUS
<1>1. ASSUME NEW k \in Key, NEW v \in Val,
             DictAdd(k, v) \/ DictReplace(k, v) \/ DictReplaceRaw(k, v)
      PROVE  IInv'
  BY <1>1, AddInv, ReplaceInv, ReplaceRawInv
<1>2. ASSUME NEW k \in Key, DictFind(k) \/ DictDelete(k) PROVE IInv'
  BY <1>2, FindInv, DeleteInv
<1>3. CASE DictGetRandomKey BY <1>3, RandomInv
<1>4. CASE \/ DictEmpty \/ (\E n \in Slot : DictExpand(n))
           \/ DictResize \/ CronRehash
           \/ DictEnableResize \/ DictDisableResize
  BY <1>4, ServerInv
<1>5. CASE DictGetSafeIterator \/ DictNext \/ DictReleaseIterator
  BY <1>5, IteratorInv
<1>6. CASE UNCHANGED vars
  <2>1. IterInv' BY <1>6 DEF vars, IInv, IterInv
  <2> QED BY <1>6, <2>1 DEF vars, IInv
<1> QED BY <1>1, <1>2, <1>3, <1>4, <1>5, <1>6 DEF Next, Operation

LEMMA Inductive == Spec => []IInv
BY InitInv, StepInv, PTL DEF Spec

-----------------------------------------------------------------------------
(* Theorems *)

\* The variables of the dict and of its iterator keep their types; that the
\* keys an iteration saw are keys rests on its saved entry being linked.
THEOREM TypeCorrect == Spec => []TypeOK
<1>1. IInv => TypeOK
  BY DEF IInv, TypeOK, Good, IterInv, RetType
<1> QED BY <1>1, Inductive, PTL

\* In every reachable state of every dict each entry is in the chain its key
\* hashes to, no key is linked twice, used counts the entries and the old
\* table is empty before the rehash position.
THEOREM StructureHolds == Spec => []Structure
<1>1. IInv => Structure
  BY DEF IInv, Structure, Good
<1> QED BY <1>1, Inductive, PTL

\* The scan of dictRehash for the next bucket stops inside the old table, as
\* its assertion and its comment claim.
THEOREM RehashScanSafe == Spec => []RehashScanStops
<1>1. IInv => RehashScanStops
  <2> SUFFICES ASSUME IInv, IsRehashing(d), d.ht0.used # 0
               PROVE  /\ d.rehashidx < d.ht0.size
                      /\ \E i \in Slot : d.rehashidx <= i /\ i < d.ht0.size
                                         /\ d.ht0.table[i] # {}
    BY DEF RehashScanStops
  <2> DEFINE b == NextBucket(d)
  <2>1. Good(d) BY DEF IInv
  <2>2. b \in Slot /\ d.rehashidx <= b /\ d.ht0.table[b] # {}
    BY <2>1, NextBucketExists
  <2>3. b < d.ht0.size
    BY <2>1, <2>2 DEF Good, Placed, PlacedIn
  <2>4. b \in Int /\ d.ht0.size \in Int /\ d.rehashidx \in Int
    BY <2>1, <2>2, DictConstants DEF Good, DictType, HashTable, Slot
  <2> HIDE DEF b
  <2> QED BY <2>2, <2>3, <2>4
<1> QED BY <1>1, Inductive, PTL

\* The entry an iterator saved for its next call is never freed under it by
\* a user that deletes no other entry than the one it was given.
THEOREM SavedNextSafe == Spec => []SavedNextLinked
<1>1. IInv => SavedNextLinked
  BY DEF IInv, SavedNextLinked
<1> QED BY <1>1, Inductive, PTL

-----------------------------------------------------------------------------
(* The dict implements the map *)

LEMMA ValueSame ==
    ASSUME NEW s, NEW r, SameEntries(s, r), NEW k
    PROVE  Value(r, k) = Value(s, k)
BY DEF SameEntries, Value

\* A key has a value exactly when the search finds it, and it is the value
\* of the entry found.
LEMMA ValueLookup ==
    ASSUME NEW s, Good(s), NEW k \in Key
    PROVE  /\ Lookup(s, k) = {} => Value(s, k) = Null
           /\ Lookup(s, k) # {} =>
                /\ Value(s, k) = s.val[TheEntry(Lookup(s, k))]
                /\ Value(s, k) \in Val /\ Value(s, k) # Null
<1>1. Value(s, k) = IF Lookup(s, k) = {} THEN Null
                    ELSE s.val[TheEntry(Lookup(s, k))]
  BY LookupCorrect DEF Value
<1>2. Lookup(s, k) # {} => s.val[TheEntry(Lookup(s, k))] \in Val
  BY LookupUnique, LinkedTyped
<1> QED BY <1>1, <1>2, DictConstants

\* An entry's value is the value of its key.
LEMMA ValueEntry ==
    ASSUME NEW s, Good(s), NEW e \in Linked(s)
    PROVE  Value(s, s.key[e]) = s.val[e]
<1>1. {f \in Linked(s) : s.key[f] = s.key[e]} = {e}
  BY DEF Good, UniqueKeys
<1> QED BY <1>1 DEF Value, TheEntry

\* Two dicts with the same entries for a key give it the same value.
LEMMA ValueFrame ==
    ASSUME NEW s, NEW r, NEW k,
           {e \in Linked(r) : r.key[e] = k} = {e \in Linked(s) : s.key[e] = k},
           \A e \in Linked(s) : s.key[e] = k => r.val[e] = s.val[e]
    PROVE  Value(r, k) = Value(s, k)
<1> DEFINE E == {e \in Linked(s) : s.key[e] = k}
<1>1. CASE E = {} BY <1>1 DEF Value
<1>2. CASE E # {}
  <2>1. TheEntry(E) \in E BY <1>2 DEF TheEntry
  <2> QED BY <1>2, <2>1 DEF Value
<1> QED BY <1>1, <1>2

LEMMA LinkValue ==
    ASSUME NEW s, Good(s), s.ht0.size # 0, NEW k \in Key, NEW v \in Val,
           Lookup(s, k) = {}, NEW e \in Entry \ Linked(s)
    PROVE  \A j \in Key : Value(Link(s, e, k, v), j) =
                             IF j = k THEN v ELSE Value(s, j)
<1> DEFINE r == Link(s, e, k, v)
<1>1. Good(r) /\ Linked(r) = Linked(s) \cup {e} BY LinkGood
<1>2. s.key \in [Entry -> Key \cup {Null}] /\ s.val \in [Entry -> Val \cup {Null}]
      /\ Linked(s) \subseteq Entry
  BY TablesFinite DEF Good, DictType, Linked
<1>3. r.key = [s.key EXCEPT ![e] = k] /\ r.val = [s.val EXCEPT ![e] = v]
  BY DEF Link
<1>4. r.key[e] = k /\ r.val[e] = v
      /\ \A f \in Linked(s) : f # e /\ r.key[f] = s.key[f] /\ r.val[f] = s.val[f]
  BY <1>2, <1>3
<1> HIDE DEF r
<1>5. Value(r, k) = v BY <1>1, <1>4, ValueEntry
<1>6. ASSUME NEW j \in Key, j # k PROVE Value(r, j) = Value(s, j)
  BY <1>1, <1>4, <1>6, ValueFrame
<1> QED BY <1>5, <1>6 DEF r

LEMMA SetValValue ==
    ASSUME NEW s, Good(s), NEW e \in Linked(s), NEW v \in Val
    PROVE  \A j \in Key : Value(SetVal(s, e, v), j) =
                             IF j = s.key[e] THEN v ELSE Value(s, j)
<1> DEFINE r == SetVal(s, e, v)
<1>1. Good(r) /\ Linked(r) = Linked(s) BY SetValGood
<1>2. s.val \in [Entry -> Val \cup {Null}] /\ Linked(s) \subseteq Entry
  BY TablesFinite DEF Good, DictType, Linked
<1>3. r.key = s.key /\ r.val = [s.val EXCEPT ![e] = v] BY DEF SetVal
<1>4. r.val[e] = v /\ \A f \in Linked(s) : f # e => r.val[f] = s.val[f]
  BY <1>2, <1>3
<1> HIDE DEF r
<1>5. Value(r, s.key[e]) = v
  <2>1. e \in Linked(r) /\ r.key[e] = s.key[e] BY <1>1, <1>3
  <2>2. Value(r, r.key[e]) = r.val[e] BY <1>1, <2>1, ValueEntry
  <2> QED BY <1>4, <2>1, <2>2
<1>6. ASSUME NEW j \in Key, j # s.key[e] PROVE Value(r, j) = Value(s, j)
  <2>1. {f \in Linked(r) : r.key[f] = j} = {f \in Linked(s) : s.key[f] = j}
    BY <1>1, <1>3
  <2>2. \A f \in Linked(s) : s.key[f] = j => r.val[f] = s.val[f]
    BY <1>4, <1>6
  <2> QED BY <2>1, <2>2, ValueFrame
<1> QED BY <1>5, <1>6 DEF r

LEMMA UnlinkValue ==
    ASSUME NEW s, Good(s), NEW e \in Linked(s)
    PROVE  \A j \in Key : Value(Unlink(s, e), j) =
                             IF j = s.key[e] THEN Null ELSE Value(s, j)
<1> DEFINE r == Unlink(s, e)
<1>1. Linked(s) \subseteq Entry BY TablesFinite DEF Linked
<1>2. Good(r) /\ Linked(r) = Linked(s) \ {e} BY <1>1, UnlinkGood
<1>3. s.key \in [Entry -> Key \cup {Null}] /\ s.val \in [Entry -> Val \cup {Null}]
  BY DEF Good, DictType
<1>4. r.key = [s.key EXCEPT ![e] = Null] /\ r.val = [s.val EXCEPT ![e] = Null]
  BY DEF Unlink
<1>5. \A f \in Linked(s) \ {e} : r.key[f] = s.key[f] /\ r.val[f] = s.val[f]
  BY <1>1, <1>3, <1>4
<1> HIDE DEF r
<1>6. \A f \in Linked(s) : s.key[f] = s.key[e] => f = e
  BY DEF Good, UniqueKeys
<1>7. Value(r, s.key[e]) = Null
  <2>1. {f \in Linked(r) : r.key[f] = s.key[e]} = {} BY <1>2, <1>5, <1>6
  <2> QED BY <2>1 DEF Value
<1>8. ASSUME NEW j \in Key, j # s.key[e] PROVE Value(r, j) = Value(s, j)
  BY <1>2, <1>5, <1>8, ValueFrame
<1> QED BY <1>7, <1>8 DEF r

\* The abstraction of a dict.
MapOf(s) == [k \in Key |-> Value(s, k)]

LEMMA MapSame ==
    ASSUME NEW s, NEW r, SameEntries(s, r)
    PROVE  MapOf(r) = MapOf(s)
BY ValueSame DEF MapOf

\* Adding through dictAddRaw is a step that sets a value that was Null.
LEMMA AddNewMap ==
    ASSUME NEW s, Good(s), s.ht0.size # 0, NEW k \in Key, NEW v \in Val,
           Lookup(s, k) = {}, AddNew(s, k, v)
    PROVE  MapOf(s)[k] = Null /\ MapOf(d') = [MapOf(s) EXCEPT ![k] = v]
<1>1. PICK e \in Entry \ Linked(s) : d' = Link(s, e, k, v) BY DEF AddNew
<1>2. \A j \in Key : Value(d', j) = IF j = k THEN v ELSE Value(s, j)
  BY <1>1, LinkValue
<1>3. Value(s, k) = Null BY ValueLookup
<1> QED BY <1>2, <1>3 DEF MapOf

LEMMA SetValMap ==
    ASSUME NEW s, Good(s), NEW k \in Key, NEW v \in Val, Lookup(s, k) # {},
           d' = SetVal(s, TheEntry(Lookup(s, k)), v)
    PROVE  MapOf(s)[k] # Null /\ MapOf(d') = [MapOf(s) EXCEPT ![k] = v]
<1> DEFINE e == TheEntry(Lookup(s, k))
<1>1. e \in Linked(s) /\ s.key[e] = k BY LookupUnique
<1>2. \A j \in Key : Value(d', j) = IF j = k THEN v ELSE Value(s, j)
  BY <1>1, SetValValue
<1>3. Value(s, k) # Null BY ValueLookup
<1> QED BY <1>2, <1>3 DEF MapOf

LEMMA SearchedMap ==
    ASSUME IInv
    PROVE  /\ MapOf(RehashStep(d)) = MapOf(d)
           /\ MapOf(BeforeAdd(d)) = MapOf(d)
           /\ MapOf(RehashStep(BeforeAdd(d))) = MapOf(d)
           /\ MapOf(BeforeAdd(RehashStep(d))) = MapOf(d)
           /\ Good(RehashStep(BeforeAdd(d)))
           /\ Good(BeforeAdd(RehashStep(d)))
           /\ BeforeAdd(RehashStep(d)).ht0.size # 0
           /\ SameEntries(BeforeAdd(d), RehashStep(BeforeAdd(d)))
           /\ SameEntries(RehashStep(d), BeforeAdd(RehashStep(d)))
<1>1. Good(d) BY DEF IInv
<1>2. Good(RehashStep(d)) /\ SameEntries(d, RehashStep(d))
  BY <1>1, RehashStepGood
<1>3. Good(BeforeAdd(d)) /\ SameEntries(d, BeforeAdd(d))
  BY <1>1, BeforeAddGood
<1>4. Good(RehashStep(BeforeAdd(d)))
      /\ SameEntries(BeforeAdd(d), RehashStep(BeforeAdd(d)))
  BY <1>3, RehashStepGood
<1>5. Good(BeforeAdd(RehashStep(d)))
      /\ SameEntries(RehashStep(d), BeforeAdd(RehashStep(d)))
      /\ BeforeAdd(RehashStep(d)).ht0.size # 0
  BY <1>2, BeforeAddGood
<1> QED BY <1>2, <1>3, <1>4, <1>5, MapSame

LEMMA MapStep ==
    ASSUME IInv, [Next]_vars
    PROVE  [Map!MapNext]_(Map!mapVars)
<1> USE DEF Map!mapVars
<1> DEFINE m == [k \in Key |-> Value(d, k)]
           n == [k \in Key |-> Value(d', k)]
<1>0. m = MapOf(d) /\ n = MapOf(d') BY DEF MapOf
<1> SUFFICES ASSUME ~(n = m /\ ret' = ret)
             PROVE  Map!MapNext
  OBVIOUS
<1>a. Good(d) BY DEF IInv
<1>s. m = MapOf(RehashStep(d)) /\ m = MapOf(BeforeAdd(d))
      /\ m = MapOf(RehashStep(BeforeAdd(d))) /\ m = MapOf(BeforeAdd(RehashStep(d)))
  BY <1>0, SearchedMap
<1>b. Good(RehashStep(d)) /\ Good(BeforeAdd(d)) /\ BeforeAdd(d).ht0.size # 0
  BY Searched
<1>1. ASSUME NEW k \in Key, NEW v \in Val, DictAdd(k, v)
      PROVE  Map!MapAdd(k, v)
  <2> DEFINE s == BeforeAdd(d)
  <2>1. CASE Lookup(s, k) # {} /\ d' = s /\ ret' = "err"
    <3>1. Value(s, k) # Null BY <1>b, <2>1, ValueLookup
    <3>2. n = m BY <1>0, <1>s, <2>1
    <3>3. m[k] # Null BY <1>s, <3>1 DEF MapOf
    <3> HIDE DEF m, n
    <3> QED BY <2>1, <3>2, <3>3 DEF Map!MapAdd, m, n
  <2>2. CASE Lookup(s, k) = {} /\ AddNew(s, k, v) /\ ret' = "ok"
    <3>1. m[k] = Null /\ n = [m EXCEPT ![k] = v]
      BY <1>0, <1>b, <1>s, <2>2, AddNewMap
    <3> HIDE DEF m, n
    <3> QED BY <2>2, <3>1 DEF Map!MapAdd, m, n
  <2> QED BY <1>1, <2>1, <2>2 DEF DictAdd
<1>2. ASSUME NEW k \in Key, NEW v \in Val, DictReplace(k, v)
      PROVE  Map!MapReplace(k, v)
  <2> DEFINE s == BeforeAdd(d)
             r == RehashStep(s)
  <2>1. CASE /\ Lookup(s, k) # {}
             /\ d' = SetVal(r, TheEntry(Lookup(r, k)), v)
             /\ ret' = "updated"
    <3>1. Good(r) /\ SameEntries(s, r) BY SearchedMap
    <3>2. Lookup(r, k) # {}
      BY <1>b, <2>1, <3>1, LookupCorrect DEF SameEntries
    <3>3. m[k] # Null /\ n = [m EXCEPT ![k] = v]
      BY <1>0, <1>s, <2>1, <3>1, <3>2, SetValMap
    <3> HIDE DEF m, n
    <3> QED BY <2>1, <3>3 DEF Map!MapReplace, m, n
  <2>2. CASE Lookup(s, k) = {} /\ AddNew(s, k, v) /\ ret' = "added"
    <3>1. m[k] = Null /\ n = [m EXCEPT ![k] = v]
      BY <1>0, <1>b, <1>s, <2>2, AddNewMap
    <3> HIDE DEF m, n
    <3> QED BY <2>2, <3>1 DEF Map!MapReplace, m, n
  <2> QED BY <1>2, <2>1, <2>2 DEF DictReplace
<1>3. ASSUME NEW k \in Key, NEW v \in Val, DictReplaceRaw(k, v)
      PROVE  Map!MapReplace(k, v)
  <2> DEFINE f == RehashStep(d)
             s == BeforeAdd(f)
  <2>1. CASE /\ Lookup(f, k) # {}
             /\ d' = SetVal(f, TheEntry(Lookup(f, k)), v)
             /\ ret' = "updated"
    <3>1. m[k] # Null /\ n = [m EXCEPT ![k] = v]
      BY <1>0, <1>b, <1>s, <2>1, SetValMap
    <3> HIDE DEF m, n
    <3> QED BY <2>1, <3>1 DEF Map!MapReplace, m, n
  <2>2. CASE Lookup(f, k) = {} /\ AddNew(s, k, v) /\ ret' = "added"
    <3>1. Good(s) /\ SameEntries(f, s) /\ s.ht0.size # 0 BY SearchedMap
    <3>2. Lookup(s, k) = {}
      BY <1>b, <2>2, <3>1, LookupCorrect DEF SameEntries
    <3>3. m[k] = Null /\ n = [m EXCEPT ![k] = v]
      BY <1>0, <1>s, <2>2, <3>1, <3>2, AddNewMap
    <3> HIDE DEF m, n
    <3> QED BY <2>2, <3>3 DEF Map!MapReplace, m, n
  <2> QED BY <1>3, <2>1, <2>2 DEF DictReplaceRaw
<1>4. ASSUME NEW k \in Key, DictDelete(k)
      PROVE  Map!MapDelete(k)
  <2> DEFINE s == RehashStep(d)
  <2>1. CASE Lookup(s, k) = {} /\ d' = s /\ ret' = "err"
    <3>1. m[k] = Null BY <1>b, <1>s, <2>1, ValueLookup DEF MapOf
    <3>2. n = m BY <1>0, <1>s, <2>1
    <3>3. n = [m EXCEPT ![k] = Null] BY <3>1, <3>2
    <3> HIDE DEF m, n
    <3> QED BY <2>1, <3>1, <3>3 DEF Map!MapDelete, m, n
  <2>2. CASE /\ Lookup(s, k) # {}
             /\ d' = Unlink(s, TheEntry(Lookup(s, k)))
             /\ ret' = "ok"
    <3> DEFINE e == TheEntry(Lookup(s, k))
    <3>1. e \in Linked(s) /\ s.key[e] = k BY <1>b, <2>2, LookupUnique
    <3>2. \A j \in Key : Value(d', j) = IF j = k THEN Null ELSE Value(s, j)
      BY <1>b, <2>2, <3>1, UnlinkValue
    <3>3. n = [m EXCEPT ![k] = Null] BY <1>s, <3>2 DEF MapOf
    <3>4. m[k] # Null BY <1>b, <1>s, <2>2, ValueLookup DEF MapOf
    <3> HIDE DEF m, n
    <3> QED BY <2>2, <3>3, <3>4 DEF Map!MapDelete, m, n
  <2> QED BY <1>4, <2>1, <2>2 DEF DictDelete, DeleteEntry
<1>5. ASSUME NEW k \in Key, DictFind(k)
      PROVE  Map!MapFind(k)
  <2>1. d' = RehashStep(d) BY <1>5 DEF DictFind
  <2>2. n = m BY <1>0, <1>s, <2>1
  <2>3. Good(d') BY <1>b, <2>1
  <2>4. ret' = Value(d', k) BY <1>5, <2>3, ValueLookup DEF DictFind
  <2>5. ret' = m[k] BY <2>2, <2>4
  <2> HIDE DEF m, n
  <2> QED BY <2>2, <2>5 DEF Map!MapFind, m, n
<1>6. CASE DictGetRandomKey
  <2>1. CASE d.ht0.used + d.ht1.used = 0 /\ ret' = Null /\ UNCHANGED d
    <3>1. d.ht0.used = 0 /\ d.ht1.used = 0
      BY <1>a, <2>1 DEF Good, DictType, HashTable
    <3>2. InTable(d.ht0) = {} /\ InTable(d.ht1) = {}
      BY <1>a, <3>1, TablesFinite, FS_EmptySet DEF Good, UsedCounts
    <3>3. \A k \in Key : m[k] = Null BY <3>2 DEF Value, Linked
    <3>4. n = m BY <2>1
    <3> HIDE DEF m, n
    <3> QED BY <2>1, <3>3, <3>4 DEF Map!MapNext, Map!MapRandom, m, n
  <2>2. CASE d' = RehashStep(d) /\ \E e \in Linked(d') : ret' = d'.key[e]
    <3>1. Good(d') BY <1>b, <2>2
    <3>2. PICK e \in Linked(d') : ret' = d'.key[e] BY <2>2
    <3>3. Value(d', d'.key[e]) = d'.val[e] /\ d'.key[e] \in Key /\ d'.val[e] # Null
      BY <3>1, ValueEntry, LinkedTyped, DictConstants
    <3>4. n = m BY <1>0, <1>s, <2>2
    <3>5. ret' \in Key /\ m[ret'] # Null BY <3>2, <3>3, <3>4
    <3> HIDE DEF m, n
    <3> QED BY <3>4, <3>5 DEF Map!MapNext, Map!MapRandom, m, n
  <2> QED BY <1>6, <2>1, <2>2 DEF DictGetRandomKey
<1>7. CASE DictEmpty
  <2>1. Linked(d') = {} /\ ret' = Null BY <1>7, ClearedGood DEF DictEmpty
  <2>2. n = [k \in Key |-> Null] BY <2>1 DEF Value
  <2> HIDE DEF m, n
  <2> QED BY <2>1, <2>2 DEF Map!MapNext, Map!MapEmpty, m, n
<1>8. ASSUME ret' = ret, SameEntries(d, d') PROVE FALSE
  <2>1. n = m BY <1>0, <1>8, MapSame
  <2> QED BY <1>8, <2>1
<1>9. CASE \/ (\E j \in Slot : DictExpand(j)) \/ DictResize \/ CronRehash
  <2>1. \A j \in Slot : j \in Nat BY DictConstants DEF Slot
  <2>2. d.ht0.used \in Nat /\ InitialSize \in Nat
    BY <1>a, DictConstants DEF Good, DictType, HashTable
  <2>3. SameEntries(d, d') /\ ret' = ret
    BY <1>9, <1>a, <2>1, <2>2, ExpandGood, RehashOneGood
       DEF DictExpand, DictResize, CronRehash
  <2> QED BY <1>8, <2>3
<1>10. CASE \/ DictEnableResize \/ DictDisableResize
            \/ DictGetSafeIterator \/ DictNext \/ DictReleaseIterator
            \/ UNCHANGED vars
  <2>1. d' = d /\ ret' = ret
    BY <1>10 DEF DictEnableResize, DictDisableResize, DictGetSafeIterator,
                 DictNext, DictReleaseIterator, vars
  <2> QED BY <1>8, <2>1 DEF SameEntries
<1> QED BY <1>1, <1>2, <1>3, <1>4, <1>5, <1>6, <1>7, <1>9, <1>10
        DEF Next, Operation, Map!MapNext

\* The hash table implements the abstract map: whatever the state of a
\* rehash or of an iteration, every operation takes effect and replies as
\* the same operation on a map.
THEOREM Refinement == Spec => ImplementsMap
<1>1. Init => Map!MapInit
  <2> SUFFICES ASSUME Init PROVE Map!MapInit OBVIOUS
  <2>1. Linked(d) = {} /\ ret = Null BY ClearedGood DEF Init
  <2>2. [k \in Key |-> Value(d, k)] = [k \in Key |-> Null] BY <2>1 DEF Value
  <2> QED BY <2>1, <2>2 DEF Map!MapInit
<1>2. IInv /\ [Next]_vars => [Map!MapNext]_(Map!mapVars)
  BY MapStep
<1> QED BY <1>1, <1>2, Inductive, PTL DEF Spec, ImplementsMap, Map!MapSpec


-----------------------------------------------------------------------------
(* Iterating.  The state is passed as parameters: the dict s, the iterator *)
(* it, the keys S it returned and the keys M it must return.               *)

Bucket(s, t, i) == IF t = 0 THEN s.ht0.table[i] ELSE s.ht1.table[i]

Follows(s, it, t, i) ==
    /\ t > it.table \/ (t = it.table /\ i > it.index)
    /\ t = 1 => IsRehashing(s)

\* dictNext will still come to e: it is saved for the next call, behind the
\* saved one in its chain, or in a later bucket.
Pending(s, it, e) ==
    \/ e = it.next
    \/ it.next # Null /\ e \in it.ahead /\ e \in Bucket(s, it.table, it.index)
    \/ \E t \in 0..1, i \in Slot : Follows(s, it, t, i) /\ e \in Bucket(s, t, i)

\* What was returned is never ahead of the iterator, and what it must return
\* and has not returned always is.
Walk(s, it, S, M) ==
    /\ S \cup M \subseteq PresentKeys(s)
    /\ it.index = -1 => S = {}
    /\ it.next # Null => it.next \in Bucket(s, it.table, it.index)
    /\ it.done => M \subseteq S
    /\ ~it.done => \A e \in Linked(s) :
          /\ Pending(s, it, e) => s.key[e] \notin S
          /\ s.key[e] \in M \ S => Pending(s, it, e)

Iterating == iter.open => Walk(d, iter, seen, must)

\* Every linked entry is in one bucket, which dictNext visits.
LEMMA BucketsPartition ==
    ASSUME NEW s, Good(s)
    PROVE  /\ \A t \in 0..1, i \in Slot : Bucket(s, t, i) \subseteq Linked(s)
           /\ \A e \in Linked(s) : \E t \in 0..1, i \in Slot :
                e \in Bucket(s, t, i) /\ (t = 1 => IsRehashing(s))
           /\ \A t, u \in 0..1, i, j \in Slot : \A e :
                e \in Bucket(s, t, i) /\ e \in Bucket(s, u, j) => t = u /\ i = j
<1>1. \A i \in Slot : /\ s.ht0.table[i] \subseteq InTable(s.ht0)
                      /\ s.ht1.table[i] \subseteq InTable(s.ht1)
  BY DEF InTable
<1>2. \A t \in 0..1, i \in Slot : Bucket(s, t, i) \subseteq Linked(s)
  BY <1>1 DEF Bucket, Linked
<1>3. ~IsRehashing(s) => \A i \in Slot : s.ht1.table[i] = {}
  <2>1. \A i \in Slot : NoTable.table[i] = {} BY DEF NoTable
  <2> QED BY <2>1 DEF Good, RehashPosition
<1>4. ASSUME NEW e \in Linked(s)
      PROVE  \E t \in 0..1, i \in Slot :
                e \in Bucket(s, t, i) /\ (t = 1 => IsRehashing(s))
  <2>1. CASE e \in InTable(s.ht0)
    <3>1. PICK i \in Slot : e \in s.ht0.table[i] BY <2>1 DEF InTable
    <3>2. e \in Bucket(s, 0, i) BY <3>1 DEF Bucket
    <3> QED BY <3>2
  <2>2. CASE e \in InTable(s.ht1)
    <3>1. PICK i \in Slot : e \in s.ht1.table[i] BY <2>2 DEF InTable
    <3>2. e \in Bucket(s, 1, i) BY <3>1 DEF Bucket
    <3>3. IsRehashing(s) BY <1>3, <3>1
    <3> QED BY <3>2, <3>3
  <2> QED BY <2>1, <2>2 DEF Linked
<1>5. ASSUME NEW t \in 0..1, NEW u \in 0..1, NEW i \in Slot, NEW j \in Slot, NEW e,
             e \in Bucket(s, t, i), e \in Bucket(s, u, j)
      PROVE  t = u /\ i = j
  <2>1. /\ \A p \in Slot : \A f \in s.ht0.table[p] : p = Index(s.key[f], s.ht0.size)
        /\ \A p \in Slot : \A f \in s.ht1.table[p] : p = Index(s.key[f], s.ht1.size)
        /\ InTable(s.ht0) \cap InTable(s.ht1) = {}
    BY DEF Good, Placed, PlacedIn, UniqueKeys
  <2>2. CASE t = 0 /\ u = 0 BY <1>5, <2>1, <2>2 DEF Bucket
  <2>3. CASE t = 1 /\ u = 1
    <3>1. e \in s.ht1.table[i] /\ e \in s.ht1.table[j] BY <1>5, <2>3 DEF Bucket
    <3> QED BY <2>1, <2>3, <3>1
  <2>4. CASE t # u
    <3>1. e \in InTable(s.ht0) /\ e \in InTable(s.ht1)
      BY <1>1, <1>5, <2>4 DEF Bucket
    <3> QED BY <2>1, <3>1
  <2> QED BY <2>2, <2>3, <2>4
<1> QED BY <1>2, <1>4, <1>5

\* Before the first dictNext everything is ahead.
LEMMA WalkStarts ==
    ASSUME NEW s, Good(s), NEW it, it.index = -1, it.table = 0, it.next = Null,
           NEW M, M \subseteq PresentKeys(s), it.done => M = {}
    PROVE  Walk(s, it, {}, M)
<1>1. \A e \in Linked(s) : Pending(s, it, e)
  <2> SUFFICES ASSUME NEW e \in Linked(s) PROVE Pending(s, it, e) OBVIOUS
  <2>1. PICK t \in 0..1, i \in Slot :
          e \in Bucket(s, t, i) /\ (t = 1 => IsRehashing(s))
    BY BucketsPartition
  <2>2. i > -1 BY DictConstants DEF Slot
  <2>3. Follows(s, it, t, i) BY <2>1, <2>2 DEF Follows
  <2> QED BY <2>1, <2>3 DEF Pending
<1> QED BY <1>1 DEF Walk

\* r is s with further keys; under an iterator that was advanced no entry
\* changes its bucket.
Adds(s, r) ==
    /\ \A e \in Linked(s) : e \in Linked(r) /\ r.key[e] = s.key[e]
    /\ \A e \in Linked(r) \ Linked(s) : r.key[e] \notin PresentKeys(s)
    /\ iterators # 0 =>
         /\ IsRehashing(s) => IsRehashing(r)
         /\ \A t \in 0..1, i \in Slot : Bucket(s, t, i) = Bucket(r, t, i) \cap Linked(s)

\* New keys do not disturb an iteration.
LEMMA WalkGrows ==
    ASSUME NEW s, Good(s), NEW r, Good(r), Adds(s, r),
           NEW it, NEW S, NEW M, Walk(s, it, S, M),
           it.index = -1 => it.table = 0 /\ it.next = Null,
           it.index # -1 => iterators # 0,
           it.table \in 0..1, it.next # Null => it.index \in Slot
    PROVE  Walk(r, it, S, M)
<1>1. PresentKeys(s) \subseteq PresentKeys(r) BY DEF Adds, PresentKeys
<1>2. S \cup M \subseteq PresentKeys(r) BY <1>1 DEF Walk
<1>3. CASE it.index = -1
  <2>1. S = {} /\ (it.done => M = {}) BY <1>3 DEF Walk
  <2> QED BY <1>2, <1>3, <2>1, WalkStarts
<1>4. CASE it.index # -1
  <2>1. /\ IsRehashing(s) => IsRehashing(r)
        /\ \A t \in 0..1, i \in Slot : Bucket(s, t, i) = Bucket(r, t, i) \cap Linked(s)
    BY <1>4 DEF Adds
  <2>2. it.next # Null => it.next \in Bucket(r, it.table, it.index)
    BY <2>1 DEF Walk
  <2>3. ASSUME NEW e \in Linked(s), Pending(s, it, e) PROVE Pending(r, it, e)
    <3>1. CASE e = it.next BY <3>1 DEF Pending
    <3>2. CASE it.next # Null /\ e \in it.ahead /\ e \in Bucket(s, it.table, it.index)
      BY <2>1, <3>2 DEF Pending
    <3>3. CASE \E t \in 0..1, i \in Slot :
                  Follows(s, it, t, i) /\ e \in Bucket(s, t, i)
      <4>1. PICK t \in 0..1, i \in Slot :
              Follows(s, it, t, i) /\ e \in Bucket(s, t, i)
        BY <3>3
      <4>2. Follows(r, it, t, i) BY <2>1, <4>1 DEF Follows
      <4>3. e \in Bucket(r, t, i) BY <2>1, <4>1
      <4> QED BY <4>2, <4>3 DEF Pending
    <3> QED BY <2>3, <3>1, <3>2, <3>3 DEF Pending
  <2>4. ASSUME NEW e \in Linked(s), Pending(r, it, e) PROVE Pending(s, it, e)
    <3>1. CASE e = it.next BY <3>1 DEF Pending
    <3>2. CASE it.next # Null /\ e \in it.ahead /\ e \in Bucket(r, it.table, it.index)
      BY <2>1, <3>2 DEF Pending
    <3>3. CASE \E t \in 0..1, i \in Slot :
                  Follows(r, it, t, i) /\ e \in Bucket(r, t, i)
      <4>1. PICK t \in 0..1, i \in Slot :
              Follows(r, it, t, i) /\ e \in Bucket(r, t, i)
        BY <3>3
      <4>2. e \in Bucket(s, t, i) BY <2>1, <4>1
      <4>3. PICK u \in 0..1, j \in Slot :
              e \in Bucket(s, u, j) /\ (u = 1 => IsRehashing(s))
        BY BucketsPartition
      <4>4. t = u BY <4>2, <4>3, BucketsPartition
      <4>5. Follows(s, it, t, i) BY <4>1, <4>3, <4>4 DEF Follows
      <4> QED BY <4>2, <4>5 DEF Pending
    <3> QED BY <2>4, <3>1, <3>2, <3>3 DEF Pending
  <2>5. ASSUME ~it.done, NEW e \in Linked(r)
        PROVE  /\ Pending(r, it, e) => r.key[e] \notin S
               /\ r.key[e] \in M \ S => Pending(r, it, e)
    <3>1. CASE e \in Linked(s)
      <4>1. r.key[e] = s.key[e] BY <3>1 DEF Adds
      <4>2. /\ Pending(s, it, e) => s.key[e] \notin S
            /\ s.key[e] \in M \ S => Pending(s, it, e)
        BY <2>5, <3>1 DEF Walk
      <4> QED BY <2>3, <2>4, <3>1, <4>1, <4>2
    <3>2. CASE e \notin Linked(s)
      <4>1. r.key[e] \notin PresentKeys(s) BY <3>2 DEF Adds
      <4> QED BY <4>1 DEF Walk
    <3> QED BY <3>1, <3>2
  <2>6. it.done => M \subseteq S BY DEF Walk
  <2> QED BY <1>2, <1>4, <2>2, <2>5, <2>6 DEF Walk
<1> QED BY <1>3, <1>4

LEMMA AddsTrans ==
    ASSUME NEW s, NEW r, NEW q, Adds(s, r), Adds(r, q)
    PROVE  Adds(s, q)
<1>1. /\ \A e \in Linked(s) : e \in Linked(r) /\ r.key[e] = s.key[e]
      /\ \A e \in Linked(r) \ Linked(s) : r.key[e] \notin PresentKeys(s)
      /\ \A e \in Linked(r) : e \in Linked(q) /\ q.key[e] = r.key[e]
      /\ \A e \in Linked(q) \ Linked(r) : q.key[e] \notin PresentKeys(r)
  BY DEF Adds
<1>2. PresentKeys(s) \subseteq PresentKeys(r) BY <1>1 DEF PresentKeys
<1>3. ASSUME NEW e \in Linked(q) \ Linked(s) PROVE q.key[e] \notin PresentKeys(s)
  <2>1. CASE e \in Linked(r) BY <1>1, <2>1
  <2>2. CASE e \notin Linked(r) BY <1>1, <1>2, <2>2
  <2> QED BY <2>1, <2>2
<1>4. ASSUME iterators # 0
      PROVE  /\ IsRehashing(s) => IsRehashing(q)
             /\ \A t \in 0..1, i \in Slot :
                  Bucket(s, t, i) = Bucket(q, t, i) \cap Linked(s)
  <2>1. /\ IsRehashing(s) => IsRehashing(q)
        /\ \A t \in 0..1, i \in Slot :
             /\ Bucket(s, t, i) = Bucket(r, t, i) \cap Linked(s)
             /\ Bucket(r, t, i) = Bucket(q, t, i) \cap Linked(r)
    BY <1>4 DEF Adds
  <2>2. Linked(s) \subseteq Linked(r) BY <1>1
  <2> QED BY <2>1, <2>2
<1> QED BY <1>1, <1>3, <1>4 DEF Adds

LEMMA AddsSelf ==
    ASSUME NEW s, Good(s)
    PROVE  Adds(s, s)
BY BucketsPartition DEF Adds

\* A step of the rehash moves entries only while no iterator runs.
LEMMA RehashStepAdds ==
    ASSUME NEW s, Good(s), iterators \in 0..1
    PROVE  Adds(s, RehashStep(s))
<1>1. SameEntries(s, RehashStep(s)) BY RehashStepGood
<1>2. CASE iterators = 0 BY <1>1, <1>2 DEF Adds, SameEntries
<1>3. CASE iterators # 0
  <2>1. RehashStep(s) = s BY <1>3 DEF RehashStep
  <2> QED BY <2>1, AddsSelf
<1> QED BY <1>2, <1>3

\* A new table is empty: expanding moves nothing.
LEMMA ExpandAdds ==
    ASSUME NEW s, Good(s), NEW n \in Nat
    PROVE  Adds(s, ExpandTo(s, n))
<1> DEFINE new == [size |-> NextPower(n), used |-> 0, table |-> NoTable.table]
           r == ExpandTo(s, n)
<1>1. SameEntries(s, r) BY ExpandGood
<1>2. \A i \in Slot : NoTable.table[i] = {} BY DEF NoTable
<1>3. new.table = NoTable.table OBVIOUS
<1>4. \/ r = s
      \/ s.ht0.size = 0 /\ r.ht0 = new /\ r.ht1 = s.ht1 /\ r.rehashidx = s.rehashidx
      \/ ~IsRehashing(s) /\ r.ht0 = s.ht0 /\ r.ht1 = new /\ r.rehashidx = 0
  BY DEF ExpandTo
<1> HIDE DEF new, r
<1>5. CASE r = s BY <1>5, AddsSelf DEF r
<1>6. CASE s.ht0.size = 0 /\ r.ht0 = new /\ r.ht1 = s.ht1
           /\ r.rehashidx = s.rehashidx
  <2>1. \A i \in Slot : s.ht0.table[i] = {}
    BY <1>6, DictConstants DEF Good, Placed, PlacedIn, Slot
  <2>2. \A t \in 0..1, i \in Slot : Bucket(r, t, i) = Bucket(s, t, i)
    BY <1>2, <1>3, <1>6, <2>1 DEF Bucket
  <2>3. \A t \in 0..1, i \in Slot : Bucket(s, t, i) = Bucket(r, t, i) \cap Linked(s)
    BY <2>2, BucketsPartition
  <2>4. IsRehashing(s) => IsRehashing(r) BY <1>6 DEF IsRehashing
  <2> QED BY <1>1, <2>3, <2>4 DEF Adds, SameEntries, r
<1>7. CASE ~IsRehashing(s) /\ r.ht0 = s.ht0 /\ r.ht1 = new /\ r.rehashidx = 0
  <2>1. \A i \in Slot : s.ht1.table[i] = {}
    BY <1>2, <1>7 DEF Good, RehashPosition
  <2>2. \A t \in 0..1, i \in Slot : Bucket(r, t, i) = Bucket(s, t, i)
    BY <1>2, <1>3, <1>7, <2>1 DEF Bucket
  <2>3. \A t \in 0..1, i \in Slot : Bucket(s, t, i) = Bucket(r, t, i) \cap Linked(s)
    BY <2>2, BucketsPartition
  <2> QED BY <1>1, <1>7, <2>3 DEF Adds, SameEntries, r
<1> QED BY <1>4, <1>5, <1>6, <1>7

LEMMA BeforeAddAdds ==
    ASSUME NEW s, Good(s), iterators \in 0..1
    PROVE  Adds(s, BeforeAdd(s))
<1> DEFINE r == RehashStep(s)
<1>1. Good(r) /\ Adds(s, r) BY RehashStepGood, RehashStepAdds
<1>2. r.ht0.used \in Nat /\ InitialSize \in Nat
  BY <1>1, DictConstants DEF Good, DictType, HashTable
<1>3. 2 * r.ht0.used \in Nat BY <1>2
<1>4. BeforeAdd(s) = ExpandIfNeeded(r) BY DEF BeforeAdd
<1> HIDE DEF r
<1>5. \/ ExpandIfNeeded(r) = r
      \/ ExpandIfNeeded(r) = ExpandTo(r, InitialSize)
      \/ ExpandIfNeeded(r) = ExpandTo(r, 2 * r.ht0.used)
  BY DEF ExpandIfNeeded
<1>6. Adds(r, ExpandIfNeeded(r))
  BY <1>1, <1>2, <1>3, <1>5, AddsSelf, ExpandAdds
<1> QED BY <1>1, <1>4, <1>6, AddsTrans

LEMMA SetValAdds ==
    ASSUME NEW s, Good(s), NEW e \in Linked(s), NEW v \in Val
    PROVE  Adds(s, SetVal(s, e, v))
<1> DEFINE r == SetVal(s, e, v)
<1>1. Linked(r) = Linked(s) BY SetValGood
<1>2. r.ht0 = s.ht0 /\ r.ht1 = s.ht1 /\ r.rehashidx = s.rehashidx /\ r.key = s.key
  BY DEF SetVal
<1> HIDE DEF r
<1>3. \A t \in 0..1, i \in Slot : Bucket(r, t, i) = Bucket(s, t, i)
  BY <1>2 DEF Bucket
<1>4. \A t \in 0..1, i \in Slot : Bucket(s, t, i) = Bucket(r, t, i) \cap Linked(s)
  BY <1>3, BucketsPartition
<1> QED BY <1>1, <1>2, <1>4 DEF Adds, IsRehashing, r

\* Linking a new entry for a key that is not there.
LEMMA AddNewAdds ==
    ASSUME NEW s, Good(s), s.ht0.size # 0,
           NEW k \in Key, NEW v \in Val, Lookup(s, k) = {}, AddNew(s, k, v)
    PROVE  Adds(s, d')
<1>1. PICK e \in Entry \ Linked(s) : d' = Link(s, e, k, v)
  BY DEF AddNew
<1> DEFINE r == Link(s, e, k, v)
<1>2. Good(r) /\ Linked(r) = Linked(s) \cup {e}
  BY LinkGood
<1>3. s.key \in [Entry -> Key \cup {Null}] /\ Linked(s) \subseteq Entry
  BY LinkedTyped DEF Good, DictType
<1>4. /\ r.key = [s.key EXCEPT ![e] = k]
      /\ r.ht0 = IF IsRehashing(s) THEN s.ht0 ELSE LinkInto(s.ht0, e, k)
      /\ r.ht1 = IF IsRehashing(s) THEN LinkInto(s.ht1, e, k) ELSE s.ht1
      /\ r.rehashidx = s.rehashidx
  BY DEF Link
<1> HIDE DEF r
<1>5. k \notin PresentKeys(s) BY LookupCorrect DEF PresentKeys
<1>6. \A f \in Linked(s) : r.key[f] = s.key[f] BY <1>3, <1>4
<1>7. \A f \in Linked(r) \ Linked(s) : r.key[f] = k BY <1>2, <1>3, <1>4
<1>8. \A ht \in HashTable : \A i \in Slot :
        /\ ht.table[i] \subseteq LinkInto(ht, e, k).table[i]
        /\ LinkInto(ht, e, k).table[i] \subseteq ht.table[i] \cup {e}
  BY DEF LinkInto, HashTable
<1>9. s.ht0 \in HashTable /\ s.ht1 \in HashTable BY DEF Good, DictType
<1>10. ASSUME NEW t \in 0..1, NEW i \in Slot
       PROVE  Bucket(s, t, i) = Bucket(r, t, i) \cap Linked(s)
  <2>1. Bucket(s, t, i) \subseteq Bucket(r, t, i)
    BY <1>4, <1>8, <1>9 DEF Bucket
  <2>2. Bucket(r, t, i) \subseteq Bucket(s, t, i) \cup {e}
    BY <1>4, <1>8, <1>9 DEF Bucket
  <2>3. Bucket(s, t, i) \subseteq Linked(s) BY BucketsPartition
  <2> QED BY <2>1, <2>2, <2>3
<1>11. IsRehashing(s) => IsRehashing(r) BY <1>4 DEF IsRehashing
<1>12. Adds(s, r) BY <1>2, <1>5, <1>6, <1>7, <1>10, <1>11 DEF Adds
<1> QED BY <1>1, <1>12 DEF r

\* What the user of an open iterator may do between two calls of dictNext.
LEMMA WalkKept ==
    ASSUME IInv, Iterating, IterUnchanged, Good(d'), Adds(d, d')
    PROVE  Iterating'
<1>1. iter' = iter /\ seen' = seen /\ must' = must BY DEF IterUnchanged
<1>2. SUFFICES ASSUME iter.open PROVE Walk(d', iter, seen, must)
  <2>1. iter.open => Walk(d', iter', seen', must') BY <1>1, <1>2
  <2> QED BY <1>1, <2>1 DEF Iterating, Walk
<1>3. Good(d) /\ Walk(d, iter, seen, must) BY <1>2 DEF IInv, Iterating
<1>4. /\ iter.index = -1 => iter.table = 0 /\ iter.next = Null
      /\ iter.index # -1 => iterators # 0
      /\ iter.table \in 0..1
      /\ iter.next # Null => iter.index \in Slot
  BY DEF IInv, IterInv
<1> QED BY <1>3, <1>4, WalkGrows

LEMMA OperationWalk ==
    ASSUME IInv, Iterating, NEW k \in Key, NEW v \in Val,
           DictAdd(k, v) \/ DictReplace(k, v) \/ DictReplaceRaw(k, v)
    PROVE  Iterating'
<1>1. Good(d) /\ iterators \in 0..1 BY DEF IInv, IterInv
<1>2. SUFFICES Adds(d, d')
  <2>1. IterUnchanged
    BY DEF DictAdd, DictReplace, DictReplaceRaw
  <2>2. IInv' BY AddInv, ReplaceInv, ReplaceRawInv
  <2>3. Good(d') BY <2>2 DEF IInv
  <2> QED BY <1>2, <2>1, <2>3, WalkKept
<1> DEFINE f == RehashStep(d)
           s == BeforeAdd(d)
           r == RehashStep(s)
           w == BeforeAdd(f)
<1>3. Good(f) /\ Adds(d, f) /\ SameEntries(d, f)
  BY <1>1, RehashStepGood, RehashStepAdds
<1>4. Good(s) /\ Adds(d, s) /\ s.ht0.size # 0
  BY <1>1, BeforeAddGood, BeforeAddAdds
<1>5. Good(r) /\ Adds(d, r) /\ SameEntries(s, r)
  BY <1>1, <1>4, RehashStepGood, RehashStepAdds, AddsTrans
<1>6. Good(w) /\ Adds(d, w) /\ SameEntries(f, w) /\ w.ht0.size # 0
  BY <1>1, <1>3, BeforeAddGood, BeforeAddAdds, AddsTrans
<1> HIDE DEF f, s, r, w
<1>7. CASE DictAdd(k, v)
  <2>1. CASE d' = s BY <1>4, <2>1
  <2>2. CASE Lookup(s, k) = {} /\ AddNew(s, k, v)
    BY <1>4, <2>2, AddNewAdds, AddsTrans
  <2> QED BY <1>7, <2>1, <2>2 DEF DictAdd, s
<1>8. CASE DictReplace(k, v)
  <2>1. CASE Lookup(s, k) # {} /\ d' = SetVal(r, TheEntry(Lookup(r, k)), v)
    <3>1. Lookup(r, k) # {} BY <1>4, <1>5, <2>1, LookupCorrect DEF SameEntries
    <3>2. TheEntry(Lookup(r, k)) \in Linked(r) BY <1>5, <3>1, LookupUnique
    <3>3. Adds(r, d') BY <1>5, <2>1, <3>2, SetValAdds
    <3> QED BY <1>5, <3>3, AddsTrans
  <2>2. CASE Lookup(s, k) = {} /\ AddNew(s, k, v)
    BY <1>4, <2>2, AddNewAdds, AddsTrans
  <2> QED BY <1>8, <2>1, <2>2 DEF DictReplace, s, r
<1>9. CASE DictReplaceRaw(k, v)
  <2>1. CASE Lookup(f, k) # {} /\ d' = SetVal(f, TheEntry(Lookup(f, k)), v)
    <3>1. TheEntry(Lookup(f, k)) \in Linked(f) BY <1>3, <2>1, LookupUnique
    <3>2. Adds(f, d') BY <1>3, <2>1, <3>1, SetValAdds
    <3> QED BY <1>3, <3>2, AddsTrans
  <2>2. CASE Lookup(f, k) = {} /\ AddNew(w, k, v)
    <3>1. Lookup(w, k) = {} BY <1>3, <1>6, <2>2, LookupCorrect DEF SameEntries
    <3> QED BY <1>6, <2>2, <3>1, AddNewAdds, AddsTrans
  <2> QED BY <1>9, <2>1, <2>2 DEF DictReplaceRaw, f, w
<1> QED BY <1>7, <1>8, <1>9

\* An entry leaves the dict, and with it its key the iteration.
LEMMA WalkShrinks ==
    ASSUME NEW s, Good(s), NEW k \in Key, NEW e \in Linked(s), s.key[e] = k,
           NEW it, NEW S, NEW M, Walk(s, it, S, M),
           it.index = -1 => it.table = 0 /\ it.next = Null,
           it.table \in 0..1, it.next # Null => it.index \in Slot,
           it.next # e
    PROVE  Walk(Unlink(s, e), it, S \ {k}, M \ {k})
<1> DEFINE r == Unlink(s, e)
<1>0. e \in Entry /\ Linked(s) \subseteq Entry BY LinkedTyped
<1>1. Good(r) /\ Linked(r) = Linked(s) \ {e} BY <1>0, UnlinkGood
<1>2. /\ r.ht0 = UnlinkFrom(s.ht0, e) /\ r.ht1 = UnlinkFrom(s.ht1, e)
      /\ r.rehashidx = s.rehashidx /\ r.key = [s.key EXCEPT ![e] = Null]
  BY DEF Unlink
<1> HIDE DEF r
<1>3. s.key \in [Entry -> Key \cup {Null}]
      /\ s.ht0 \in HashTable /\ s.ht1 \in HashTable
      /\ s.ht0.used = Cardinality(InTable(s.ht0))
      /\ s.ht1.used = Cardinality(InTable(s.ht1))
  BY DEF Good, DictType, UsedCounts
<1>4. \A g \in Linked(r) : r.key[g] = s.key[g] /\ s.key[g] # k
  <2>1. \A g \in Linked(s) : s.key[g] = k => g = e BY DEF Good, UniqueKeys
  <2> QED BY <1>0, <1>1, <1>2, <1>3, <2>1
<1>5. \A t \in 0..1, i \in Slot : Bucket(r, t, i) = Bucket(s, t, i) \ {e}
  BY <1>2, <1>3, UnlinkFromTable DEF Bucket
<1>6. IsRehashing(r) = IsRehashing(s) BY <1>2 DEF IsRehashing
<1>7. (S \ {k}) \cup (M \ {k}) \subseteq PresentKeys(r)
  <2> SUFFICES ASSUME NEW x \in S \cup M, x # k PROVE x \in PresentKeys(r) OBVIOUS
  <2>1. PICK g \in Linked(s) : s.key[g] = x BY DEF Walk, PresentKeys
  <2>2. g \in Linked(r) BY <1>1, <2>1
  <2> QED BY <1>4, <2>1, <2>2 DEF PresentKeys
<1>8. it.next # Null => it.next \in Bucket(r, it.table, it.index)
  BY <1>5 DEF Walk
<1>9. ASSUME NEW g \in Linked(r) PROVE Pending(r, it, g) <=> Pending(s, it, g)
  <2>1. g # e /\ g \in Linked(s) BY <1>1
  <2>2. \A t \in 0..1, i \in Slot : Follows(r, it, t, i) <=> Follows(s, it, t, i)
    BY <1>6 DEF Follows
  <2>3. \A t \in 0..1, i \in Slot : g \in Bucket(r, t, i) <=> g \in Bucket(s, t, i)
    BY <1>5, <2>1
  <2>4. it.next # Null => (g \in Bucket(r, it.table, it.index)
                             <=> g \in Bucket(s, it.table, it.index))
    BY <2>3
  <2> QED BY <2>2, <2>3, <2>4 DEF Pending
<1>10. ASSUME ~it.done, NEW g \in Linked(r)
       PROVE  /\ Pending(r, it, g) => r.key[g] \notin S \ {k}
              /\ r.key[g] \in (M \ {k}) \ (S \ {k}) => Pending(r, it, g)
  <2>1. g \in Linked(s) /\ r.key[g] = s.key[g] /\ s.key[g] # k BY <1>1, <1>4
  <2>2. /\ Pending(s, it, g) => s.key[g] \notin S
        /\ s.key[g] \in M \ S => Pending(s, it, g)
    BY <1>10, <2>1 DEF Walk
  <2> QED BY <1>9, <2>1, <2>2
<1>11. it.index = -1 => S \ {k} = {} BY DEF Walk
<1>12. it.done => M \ {k} \subseteq S \ {k} BY DEF Walk
<1> QED BY <1>7, <1>8, <1>10, <1>11, <1>12 DEF Walk, r

LEMMA DeleteWalk ==
    ASSUME IInv, Iterating, NEW k \in Key, DictDelete(k)
    PROVE  Iterating'
<1> DEFINE s == RehashStep(d)
<1>1. iter' = iter /\ seen' = seen \ {k} /\ must' = must \ {k}
  BY DEF DictDelete, DeleteEntry
<1>2. SUFFICES ASSUME iter.open PROVE Walk(d', iter, seen \ {k}, must \ {k})
  <2>1. iter.open => Walk(d', iter', seen', must') BY <1>1, <1>2
  <2> QED BY <1>1, <2>1 DEF Iterating, Walk
<1>3. Good(d) /\ FreeBlank(d) /\ Walk(d, iter, seen, must) /\ iterators \in 0..1
  BY <1>2 DEF IInv, IterInv, Iterating
<1>4. /\ iter.index = -1 => iter.table = 0 /\ iter.next = Null
      /\ iter.index # -1 => iterators # 0
      /\ iter.table \in 0..1
      /\ iter.next # Null => iter.index \in Slot /\ iter.next # iter.entry
  BY DEF IInv, IterInv
<1>5. Good(s) /\ Adds(d, s) /\ SameEntries(d, s) /\ FreeBlank(s)
  BY <1>3, RehashStepGood, RehashStepAdds, SameBlank
<1> HIDE DEF s
<1>6. Walk(s, iter, seen, must) BY <1>3, <1>4, <1>5, WalkGrows
<1>7. CASE Lookup(s, k) = {} /\ d' = s
  <2>1. k \notin PresentKeys(s) BY <1>5, <1>7, LookupCorrect DEF PresentKeys
  <2>2. seen \ {k} = seen /\ must \ {k} = must BY <1>6, <2>1 DEF Walk
  <2> QED BY <1>6, <1>7, <2>2
<1>8. CASE Lookup(s, k) # {} /\ d' = Unlink(s, TheEntry(Lookup(s, k)))
  <2> DEFINE e == TheEntry(Lookup(s, k))
  <2>1. e \in Linked(s) /\ s.key[e] = k
        /\ \A g \in Linked(s) : s.key[g] = k => g = e
    BY <1>5, <1>8, LookupUnique
  <2>2. d' = Unlink(s, e) BY <1>8
  <2> HIDE DEF e
  <2>3. e \in Entry BY <1>5, <2>1, LinkedTyped
  <2>4. iter.next # e
    <3>1. CASE iter.next = Null BY <2>3, <3>1, DictConstants
    <3>2. CASE iter.next # Null
      <4>1. iter.entry # Null /\ d.key[iter.entry] = k BY <1>2 DEF DictDelete
      <4>2. iter.entry \in Entry BY <4>1 DEF IInv, IterInv
      <4>3. s.key[iter.entry] = k BY <1>5, <4>1 DEF SameEntries
      <4>4. iter.entry \in Linked(s)
        BY <1>5, <4>2, <4>3, DictConstants DEF FreeBlank
      <4>5. iter.entry = e BY <2>1, <4>3, <4>4
      <4> QED BY <1>4, <3>2, <4>5
    <3> QED BY <3>1, <3>2
  <2> QED BY <1>4, <1>5, <1>6, <2>1, <2>2, <2>4, WalkShrinks
<1> QED BY <1>7, <1>8 DEF DictDelete, DeleteEntry, s

\* The chains and the order of the buckets are the ones dictNext uses.
LEMMA SameOrder ==
    ASSUME NEW t \in 0..1, NEW i \in Slot
    PROVE  /\ Chain(t, i) = Bucket(d, t, i)
           /\ Later(t, i) <=> Follows(d, iter, t, i)
BY DEF Chain, Bucket, Later, Follows

\* g is in a bucket behind the i-th of table t.
Beyond(t, i, g) ==
    \E u \in 0..1, j \in Slot :
       /\ u > t \/ (u = t /\ j > i)
       /\ u = 1 => IsRehashing(d)
       /\ g \in Bucket(d, u, j)

\* The fields of the iterator after a call.
LEMMA Returned ==
    ASSUME NEW t \in 0..1, NEW i, NEW e, NEW rest, Return(t, i, e, rest),
           iter \in [open : BOOLEAN, done : BOOLEAN,
                table : 0..1, index : -1..MaxSize,
                entry : Entry \cup {Null}, next : Entry \cup {Null},
                ahead : SUBSET Entry]
    PROVE  /\ seen' = seen \cup {d.key[e]}
           /\ iter'.open = iter.open /\ iter'.done = iter.done
           /\ iter'.table = t /\ iter'.index = i /\ iter'.entry = e
           /\ \/ rest = {} /\ iter'.next = Null
              \/ iter'.next \in rest /\ iter'.ahead = rest \ {iter'.next}
<1>1. seen' = seen \cup {d.key[e]} BY Zenon DEF Return
<1>2. CASE rest = {} /\ iter' = [iter EXCEPT !.table = t, !.index = i,
                           !.entry = e, !.next = Null, !.ahead = {}]
  BY <1>1, <1>2
<1>3. ASSUME NEW n \in rest,
             iter' = [iter EXCEPT !.table = t, !.index = i,
                           !.entry = e, !.next = n, !.ahead = rest \ {n}]
      PROVE  /\ iter'.open = iter.open /\ iter'.done = iter.done
             /\ iter'.table = t /\ iter'.index = i /\ iter'.entry = e
             /\ iter'.next \in rest /\ iter'.ahead = rest \ {iter'.next}
  BY <1>3
<1>4. \/ rest = {} /\ iter' = [iter EXCEPT !.table = t, !.index = i,
                           !.entry = e, !.next = Null, !.ahead = {}]
      \/ \E n \in rest : iter' = [iter EXCEPT !.table = t, !.index = i,
                           !.entry = e, !.next = n, !.ahead = rest \ {n}]
  BY Zenon DEF Return
<1> QED BY <1>1, <1>2, <1>3, <1>4, Zenon

\* Returning e and remembering rest, the part of its chain still to come.
LEMMA ReturnWalk ==
    ASSUME IInv, iter.open, ~iter.done, NEW t \in 0..1, NEW i \in Slot,
           NEW e \in Bucket(d, t, i), NEW rest \in SUBSET Bucket(d, t, i),
           e \notin rest, Return(t, i, e, rest),
           UNCHANGED <<d, must>>,
           Walk(d, iter, seen, must), Pending(d, iter, e),
           \A g \in Linked(d) :
              Pending(d, iter, g) <=>
                 g = e \/ g \in rest \/ Beyond(t, i, g)
    PROVE  Iterating'
<1>1. Good(d) BY DEF IInv
<1>2. Bucket(d, t, i) \subseteq Linked(d) /\ Linked(d) \subseteq Entry
  BY <1>1, BucketsPartition, LinkedTyped
<1>3. iter \in [open : BOOLEAN, done : BOOLEAN,
                table : 0..1, index : -1..MaxSize,
                entry : Entry \cup {Null}, next : Entry \cup {Null},
                ahead : SUBSET Entry]
  BY DEF IInv, IterInv
<1>4. d' = d /\ must' = must /\ seen' = seen \cup {d.key[e]}
  BY <1>3, Returned
<1>5. i # -1 BY DictConstants DEF Slot
<1>6. ~Beyond(t, i, e)
  <2> SUFFICES ASSUME NEW u \in 0..1, NEW j \in Slot,
                      u > t \/ (u = t /\ j > i), e \in Bucket(d, u, j)
               PROVE  FALSE
    BY DEF Beyond
  <2>1. u = t /\ j = i BY <1>1, BucketsPartition
  <2>2. t \in Int /\ i \in Int BY DictConstants DEF Slot
  <2> QED BY <2>1, <2>2
<1>7. /\ iter'.open = iter.open /\ iter'.done = iter.done
      /\ iter'.table = t /\ iter'.index = i
      /\ \/ rest = {} /\ iter'.next = Null
         \/ iter'.next \in rest /\ iter'.ahead = rest \ {iter'.next}
  BY <1>2, <1>3, Returned
<1> DEFINE it == iter'
<1>8. \A g \in Linked(d) : Pending(d, it, g) <=> (g \in rest \/ Beyond(t, i, g))
  <2> SUFFICES ASSUME NEW g \in Linked(d)
               PROVE  Pending(d, it, g) <=> (g \in rest \/ Beyond(t, i, g))
    OBVIOUS
  <2>1. (\E u \in 0..1, j \in Slot : Follows(d, it, u, j) /\ g \in Bucket(d, u, j))
          <=> Beyond(t, i, g)
    BY <1>7 DEF Follows, Beyond
  <2>2. g # Null BY <1>2, DictConstants
  <2>3. (\/ g = it.next
         \/ it.next # Null /\ g \in it.ahead /\ g \in Bucket(d, it.table, it.index))
          <=> g \in rest
    BY <1>2, <1>7, <2>2, DictConstants
  <2> HIDE DEF it
  <2> QED BY <2>1, <2>3 DEF Pending
<1>9. \A g \in Linked(d) : g # e => (Pending(d, it, g) <=> Pending(d, iter, g))
  BY <1>8
<1>10. ~Pending(d, it, e) BY <1>2, <1>6, <1>8
<1>11. \A g \in Linked(d) : d.key[g] = d.key[e] => g = e
  BY <1>1, <1>2 DEF Good, UniqueKeys
<1>12. it.next # Null => it.next \in Bucket(d, it.table, it.index)
  BY <1>7
<1> HIDE DEF it
<1>13. ASSUME NEW g \in Linked(d)
       PROVE  /\ Pending(d, it, g) => d.key[g] \notin seen \cup {d.key[e]}
              /\ d.key[g] \in must \ (seen \cup {d.key[e]}) => Pending(d, it, g)
  <2>1. CASE g = e BY <1>10, <2>1
  <2>2. CASE g # e
    <3>1. d.key[g] # d.key[e] BY <1>11, <2>2
    <3>2. /\ Pending(d, iter, g) => d.key[g] \notin seen
          /\ d.key[g] \in must \ seen => Pending(d, iter, g)
      BY DEF Walk
    <3> QED BY <1>9, <2>2, <3>1, <3>2
  <2> QED BY <2>1, <2>2
<1>14. seen \cup {d.key[e]} \cup must \subseteq PresentKeys(d)
  BY <1>2 DEF Walk, PresentKeys
<1>15. it.index # -1 /\ ~it.done BY <1>5, <1>7 DEF it
<1>16. Walk(d, it, seen \cup {d.key[e]}, must)
  BY <1>12, <1>13, <1>14, <1>15 DEF Walk
<1>17. Walk(d', iter', seen', must') BY <1>4, <1>16 DEF it
<1> QED BY <1>17 DEF Iterating, Walk

\* If there is a later bucket that is not empty, there is a first one.
LEMMA FirstExists ==
    ASSUME NEW t \in 0..1, NEW i \in Slot, Later(t, i), Chain(t, i) # {}
    PROVE  \E u \in 0..1, j \in Slot : FirstLater(u, j)
<1> DEFINE Rank(u, j) == IF u = 0 THEN j ELSE MaxSize + j
           Full(u, j) == Later(u, j) /\ Chain(u, j) # {}
           R == {n \in Nat : \E u \in 0..1, j \in Slot : Full(u, j) /\ n = Rank(u, j)}
<1>1. MaxSize \in Nat /\ Slot = 0..(MaxSize - 1) BY DictConstants DEF Slot
<1>2. \A u \in 0..1, j \in Slot : Rank(u, j) \in Nat BY <1>1
<1>3. R # {}
  <2>1. Full(t, i) OBVIOUS
  <2> HIDE DEF Full
  <2> QED BY <1>2, <2>1
<1>4. PICK m \in R : \A x \in R : m <= x BY <1>3, LeastNat
<1> HIDE DEF Full
<1>5. PICK u \in 0..1, j \in Slot : Full(u, j) /\ m = Rank(u, j) BY <1>4
<1>6. ASSUME NEW v \in 0..1, NEW k \in Slot, Full(v, k), Before(v, k, u, j)
      PROVE  FALSE
  <2>1. Rank(v, k) \in R BY <1>2, <1>6
  <2>2. Rank(u, j) <= Rank(v, k) BY <1>4, <1>5, <2>1
  <2>3. CASE v < u
    <3>1. v = 0 /\ u = 1 BY <2>3
    <3>2. MaxSize + j <= k BY <2>2, <3>1
    <3> QED BY <1>1, <3>2
  <2>4. CASE v = u /\ k < j BY <1>1, <2>2, <2>4
  <2> QED BY <1>6, <2>3, <2>4 DEF Before
<1>7. FirstLater(u, j) BY <1>5, <1>6 DEF FirstLater, Full
<1> QED BY <1>7

\* dictNext returns what is pending and nothing twice, and it ends only when
\* nothing is pending.
LEMMA NextWalk ==
    ASSUME IInv, Iterating, DictNext
    PROVE  /\ Iterating'
           /\ iter'.entry # Null => d.key[iter'.entry] \notin seen
<1>1. /\ iter.open /\ ~iter.done /\ d' = d /\ must' = must
      /\ Walk(d, iter, seen, must) /\ Good(d)
  BY DEF DictNext, Iterating, IInv
<1>2. iter \in [open : BOOLEAN, done : BOOLEAN,
                table : 0..1, index : -1..MaxSize,
                entry : Entry \cup {Null}, next : Entry \cup {Null},
                ahead : SUBSET Entry]
  BY DEF IInv, IterInv
<1>3. Linked(d) \subseteq Entry /\ Null \notin Linked(d)
  BY <1>1, LinkedTyped, DictConstants
<1>4. \A g \in Linked(d) : Pending(d, iter, g) => d.key[g] \notin seen
  BY <1>1 DEF Walk
<1>5. CASE /\ iter.next # Null
           /\ Return(iter.table, iter.index, iter.next,
                     iter.ahead \cap Chain(iter.table, iter.index))
  <2> DEFINE t == iter.table
             i == iter.index
             e == iter.next
             rest == iter.ahead \cap Bucket(d, t, i)
  <2>1. t \in 0..1 /\ i \in Slot /\ e \in Bucket(d, t, i) /\ e \notin rest
    BY <1>1, <1>2, <1>5 DEF IInv, IterInv, Walk
  <2>2. Chain(t, i) = Bucket(d, t, i) BY <2>1, SameOrder
  <2>3. Return(t, i, e, rest) BY <1>5, <2>2
  <2>4. Pending(d, iter, e) BY DEF Pending
  <2>5. ASSUME NEW g \in Linked(d)
        PROVE  Pending(d, iter, g) <=> (g = e \/ g \in rest \/ Beyond(t, i, g))
    <3>1. (\E u \in 0..1, j \in Slot : Follows(d, iter, u, j) /\ g \in Bucket(d, u, j))
            <=> Beyond(t, i, g)
      BY DEF Follows, Beyond
    <3> QED BY <1>5, <3>1 DEF Pending
  <2>6. rest \in SUBSET Bucket(d, t, i) OBVIOUS
  <2>7. UNCHANGED <<d, must>> BY <1>1
  <2>8. iter'.entry = e BY <1>2, <2>1, <2>3, Returned
  <2> HIDE DEF t, i, e, rest
  <2>9. Iterating' BY <1>1, <2>1, <2>3, <2>4, <2>5, <2>6, <2>7, ReturnWalk
  <2>10. e \in Linked(d) BY <1>1, <2>1, BucketsPartition
  <2> QED BY <1>4, <2>4, <2>8, <2>9, <2>10
<1>6. ASSUME iter.next = Null, NEW t \in 0..1, NEW i \in Slot, FirstLater(t, i),
             NEW e \in Chain(t, i), Return(t, i, e, Chain(t, i) \ {e})
      PROVE  /\ Iterating'
             /\ iter'.entry # Null => d.key[iter'.entry] \notin seen
  <2> DEFINE rest == Bucket(d, t, i) \ {e}
  <2>1. /\ Chain(t, i) = Bucket(d, t, i) /\ e \in Bucket(d, t, i)
        /\ Follows(d, iter, t, i)
    BY <1>6, SameOrder DEF FirstLater
  <2>2. Return(t, i, e, rest) BY <1>6, <2>1
  <2>3. Pending(d, iter, e) BY <2>1 DEF Pending
  <2>4. ASSUME NEW u \in 0..1, NEW j \in Slot, Bucket(d, u, j) # {}
        PROVE  Follows(d, iter, u, j) <=>
                 \/ u = t /\ j = i
                 \/ (u > t \/ (u = t /\ j > i)) /\ (u = 1 => IsRehashing(d))
    <3>1. /\ t \in Int /\ u \in Int /\ i \in Int /\ j \in Int
          /\ iter.table \in Int /\ iter.index \in Int
      BY <1>2, DictConstants DEF Slot
    <3>2. Follows(d, iter, u, j) => ~Before(u, j, t, i)
      BY <1>6, <2>4, SameOrder DEF FirstLater
    <3>3. ASSUME Follows(d, iter, u, j)
          PROVE  \/ u = t /\ j = i
                 \/ (u > t \/ (u = t /\ j > i)) /\ (u = 1 => IsRehashing(d))
      BY <3>1, <3>2, <3>3 DEF Before, Follows
    <3>4. ASSUME u > t \/ (u = t /\ j > i), u = 1 => IsRehashing(d)
          PROVE  Follows(d, iter, u, j)
      BY <2>1, <3>1, <3>4 DEF Follows
    <3>5. ASSUME u = t, j = i PROVE Follows(d, iter, u, j) BY <2>1, <3>5
    <3> QED BY <3>3, <3>4, <3>5
  <2>5. ASSUME NEW g \in Linked(d)
        PROVE  Pending(d, iter, g) <=> (g = e \/ g \in rest \/ Beyond(t, i, g))
    <3>1. Pending(d, iter, g) <=>
            \E u \in 0..1, j \in Slot : Follows(d, iter, u, j) /\ g \in Bucket(d, u, j)
      BY <1>3, <1>6 DEF Pending
    <3>2. (\E u \in 0..1, j \in Slot : Follows(d, iter, u, j) /\ g \in Bucket(d, u, j))
            <=> (g \in Bucket(d, t, i) \/ Beyond(t, i, g))
      <4>1. ASSUME NEW u \in 0..1, NEW j \in Slot, Follows(d, iter, u, j),
                   g \in Bucket(d, u, j)
            PROVE  g \in Bucket(d, t, i) \/ Beyond(t, i, g)
        <5>1. Bucket(d, u, j) # {} BY <4>1
        <5>2. \/ u = t /\ j = i
              \/ (u > t \/ (u = t /\ j > i)) /\ (u = 1 => IsRehashing(d))
          BY <2>4, <4>1, <5>1
        <5>3. CASE u = t /\ j = i BY <4>1, <5>3
        <5>4. CASE (u > t \/ (u = t /\ j > i)) /\ (u = 1 => IsRehashing(d))
          BY <4>1, <5>4 DEF Beyond
        <5> QED BY <5>2, <5>3, <5>4
      <4>2. ASSUME Beyond(t, i, g)
            PROVE  \E u \in 0..1, j \in Slot :
                      Follows(d, iter, u, j) /\ g \in Bucket(d, u, j)
        <5>1. PICK u \in 0..1, j \in Slot :
                /\ u > t \/ (u = t /\ j > i)
                /\ u = 1 => IsRehashing(d)
                /\ g \in Bucket(d, u, j)
          BY <4>2 DEF Beyond
        <5>2. Bucket(d, u, j) # {} BY <5>1
        <5>3. Follows(d, iter, u, j) BY <2>4, <5>1, <5>2
        <5> QED BY <5>1, <5>3
      <4> QED BY <2>1, <4>1, <4>2
    <3> QED BY <2>1, <3>1, <3>2
  <2>6. rest \in SUBSET Bucket(d, t, i) /\ e \notin rest OBVIOUS
  <2>7. UNCHANGED <<d, must>> BY <1>1
  <2>8. iter'.entry = e BY <1>2, <2>2, Returned
  <2> HIDE DEF rest
  <2>9. Iterating' BY <1>1, <2>1, <2>2, <2>3, <2>5, <2>6, <2>7, ReturnWalk
  <2>10. e \in Linked(d) BY <1>1, <2>1, BucketsPartition
  <2> QED BY <1>4, <2>3, <2>8, <2>9, <2>10
<1>7. CASE /\ iter.next = Null
           /\ \A t \in 0..1, i \in Slot : ~FirstLater(t, i)
           /\ iter' = [iter EXCEPT !.done = TRUE, !.entry = Null,
                                   !.index = MaxSize]
           /\ UNCHANGED seen
  <2> DEFINE it == iter'
  <2>1. it.done /\ it.entry = Null /\ it.index = MaxSize /\ it.next = Null
    BY <1>2, <1>7
  <2>2. MaxSize # -1 BY DictConstants
  <2>3. must \subseteq seen
    <3> SUFFICES ASSUME NEW k \in must, k \notin seen PROVE FALSE OBVIOUS
    <3>1. PICK g \in Linked(d) : d.key[g] = k BY <1>1 DEF Walk, PresentKeys
    <3>2. Pending(d, iter, g) BY <1>1, <3>1 DEF Walk
    <3>3. PICK u \in 0..1, j \in Slot : Follows(d, iter, u, j) /\ g \in Bucket(d, u, j)
      BY <1>3, <1>7, <3>2 DEF Pending
    <3>4. Later(u, j) /\ Chain(u, j) # {} BY <3>3, SameOrder
    <3> QED BY <1>7, <3>4, FirstExists
  <2>4. seen \cup must \subseteq PresentKeys(d) BY <1>1 DEF Walk
  <2>5. Walk(d, it, seen, must)
    <3> HIDE DEF it
    <3> QED BY <2>1, <2>2, <2>3, <2>4 DEF Walk
  <2>6. Walk(d', iter', seen', must') BY <1>1, <1>7, <2>5
  <2>7. Iterating' BY <2>6 DEF Iterating, Walk
  <2> QED BY <2>1, <2>7
<1> QED BY <1>5, <1>6, <1>7 DEF DictNext

\* Whoever opens an iterator starts before the first bucket; nobody else
\* touches the dict before it is released.
LEMMA BoundaryWalk ==
    ASSUME IInv, Iterating,
           \/ DictEmpty \/ (\E n \in Slot : DictExpand(n))
           \/ DictResize \/ CronRehash
           \/ DictEnableResize \/ DictDisableResize
           \/ DictGetSafeIterator \/ DictReleaseIterator
    PROVE  Iterating'
<1>1. CASE DictGetSafeIterator
  <2>1. /\ iter' = [NoIter EXCEPT !.open = TRUE] /\ seen' = {}
        /\ must' = PresentKeys(d) /\ d' = d
    BY <1>1 DEF DictGetSafeIterator
  <2>2. /\ iter'.index = -1 /\ iter'.table = 0 /\ iter'.next = Null
        /\ iter'.done = FALSE
    BY <2>1 DEF NoIter
  <2>3. Good(d) BY DEF IInv
  <2>4. Walk(d, iter', {}, PresentKeys(d)) BY <2>2, <2>3, WalkStarts
  <2>5. Walk(d', iter', seen', must') BY <2>1, <2>4
  <2> QED BY <2>5 DEF Iterating, Walk
<1>2. CASE DictReleaseIterator
  <2>1. iter'.open = FALSE BY <1>2 DEF DictReleaseIterator, NoIter
  <2> QED BY <2>1 DEF Iterating
<1>3. CASE \/ DictEmpty \/ (\E n \in Slot : DictExpand(n))
           \/ DictResize \/ CronRehash
           \/ DictEnableResize \/ DictDisableResize
  <2>1. ~iter.open /\ iter' = iter
    BY <1>3 DEF DictEmpty, DictExpand, DictResize, CronRehash,
                DictEnableResize, DictDisableResize, IterUnchanged
  <2> QED BY <2>1 DEF Iterating
<1> QED BY <1>1, <1>2, <1>3

LEMMA StepWalk == IInv /\ Iterating /\ [Next]_vars => Iterating'
<1> SUFFICES ASSUME IInv, Iterating, [Next]_vars PROVE Iterating' OBVIOUS
<1>1. ASSUME NEW k \in Key, NEW v \in Val,
             DictAdd(k, v) \/ DictReplace(k, v) \/ DictReplaceRaw(k, v)
      PROVE  Iterating'
  BY <1>1, OperationWalk
<1>2. CASE DictGetRandomKey \/ \E k \in Key : DictFind(k)
  <2>1. Good(d) /\ iterators \in 0..1 /\ IInv'
    BY <1>2, FindInv, RandomInv DEF IInv, IterInv
  <2>2. IterUnchanged /\ (d' = d \/ d' = RehashStep(d))
    BY <1>2 DEF DictFind, DictGetRandomKey
  <2>3. Adds(d, d') BY <2>1, <2>2, AddsSelf, RehashStepAdds
  <2>4. Good(d') BY <2>1 DEF IInv
  <2> QED BY <2>2, <2>3, <2>4, WalkKept
<1>3. ASSUME NEW k \in Key, DictDelete(k) PROVE Iterating' BY <1>3, DeleteWalk
<1>4. CASE DictNext BY <1>4, NextWalk
<1>5. CASE \/ DictEmpty \/ (\E n \in Slot : DictExpand(n))
           \/ DictResize \/ CronRehash
           \/ DictEnableResize \/ DictDisableResize
           \/ DictGetSafeIterator \/ DictReleaseIterator
  BY <1>5, BoundaryWalk
<1>6. CASE UNCHANGED vars
  BY <1>6 DEF vars, Iterating, Walk, Pending, Follows, Bucket, PresentKeys,
              Linked, InTable, IsRehashing
<1> QED BY <1>1, <1>2, <1>3, <1>4, <1>5, <1>6 DEF Next, Operation

LEMMA IterationInductive == Spec => [](IInv /\ Iterating)
<1>1. Init => Iterating BY DEF Init, NoIter, Iterating
<1> QED BY <1>1, Inductive, StepWalk, PTL DEF Spec

\* For any hash function, any sizes and any number of keys: an iterator that
\* ran to its end returned every key that stayed in the dict, whatever its
\* user added, replaced, looked up or deleted on the way.
THEOREM IterationCompleteHolds == Spec => []IterationComplete
<1>1. IInv /\ Iterating => IterationComplete
  <2> SUFFICES ASSUME IInv, Iterating, iter.done PROVE must \subseteq seen
    BY DEF IterationComplete
  <2>1. iter.open BY DEF IInv, IterInv, NoIter
  <2> QED BY <2>1 DEF Iterating, Walk
<1> QED BY <1>1, IterationInductive, PTL

\* No call of dictNext returns a key that this iteration returned before and
\* its user did not delete since.
THEOREM IterationOnceHolds == Spec => IterationOnce
<1>1. IInv /\ Iterating /\ [Next]_vars =>
        [DictNext /\ iter'.entry # Null => d.key[iter'.entry] \notin seen]_vars
  BY NextWalk
<1> QED BY <1>1, IterationInductive, PTL DEF Spec, IterationOnce
=============================================================================
