--------------------------- MODULE BlockingProofs ---------------------------
(***************************************************************************)
(* Proofs about Blocking for any clients, keys, key lists and values.      *)
(***************************************************************************)
EXTENDS Blocking, SequenceTheorems, TLAPS

Dataset == [list : [ListKey -> Seq(PushedValue)], str : SUBSET ListKey]

-----------------------------------------------------------------------------
(* Sequences and the sets of their elements *)

\* What is in a sequence is in the set it is over.
LEMMA ElementsType ==
    ASSUME NEW S, NEW s \in Seq(S)
    PROVE  /\ Listed(s) \in SUBSET S
           /\ Listed(s) = {} <=> s = <<>>
<1>1. DOMAIN s = 1..Len(s) /\ Len(s) \in Nat /\ \A i \in 1..Len(s) : s[i] \in S
  BY LenProperties, ElementOfSeq
<1>2. Len(s) = 0 <=> s = <<>> BY EmptySeq
<1>3. s # <<>> => s[1] \in Listed(s) BY <1>1, <1>2 DEF Listed
<1>4. s = <<>> => Listed(s) = {} BY <1>1, <1>2 DEF Listed
<1> QED BY <1>1, <1>3, <1>4 DEF Listed

\* An element appended.
LEMMA AppendElements ==
    ASSUME NEW S, NEW s \in Seq(S), NEW x \in S
    PROVE  /\ Append(s, x) \in Seq(S) /\ Append(s, x) # <<>>
           /\ Listed(Append(s, x)) = Listed(s) \cup {x}
           /\ Distinct(s) /\ x \notin Listed(s) => Distinct(Append(s, x))
<1> DEFINE t == Append(s, x)
<1>1. /\ t \in Seq(S) /\ t # <<>> /\ Len(t) = Len(s) + 1
      /\ \A i \in 1..Len(s) : t[i] = s[i]
      /\ t[Len(s) + 1] = x
  BY AppendProperties
<1>2. DOMAIN t = 1..(Len(s) + 1) /\ DOMAIN s = 1..Len(s) /\ Len(s) \in Nat
  BY <1>1, LenProperties
<1> HIDE DEF t
<1>3. 1..(Len(s) + 1) = (1..Len(s)) \cup {Len(s) + 1} BY <1>2
<1>4. Listed(t) = Listed(s) \cup {x} BY <1>1, <1>2, <1>3 DEF Listed
<1>5. ASSUME Distinct(s), x \notin Listed(s) PROVE Distinct(t)
  BY <1>1, <1>2, <1>3, <1>5 DEF Listed, Distinct
<1> QED BY <1>1, <1>4, <1>5 DEF t

\* An element put in front.
LEMMA ConsElements ==
    ASSUME NEW S, NEW s \in Seq(S), NEW x \in S
    PROVE  /\ <<x>> \o s \in Seq(S) /\ <<x>> \o s # <<>>
           /\ Listed(<<x>> \o s) = Listed(s) \cup {x}
           /\ Distinct(s) /\ x \notin Listed(s) => Distinct(<<x>> \o s)
<1> DEFINE t == <<x>> \o s
<1>0. <<x>> \in Seq(S) /\ Len(<<x>>) = 1 /\ <<x>>[1] = x OBVIOUS
<1>1. /\ t \in Seq(S) /\ Len(t) = 1 + Len(s)
      /\ \A i \in 1..(1 + Len(s)) : t[i] = IF i <= 1 THEN <<x>>[i] ELSE s[i - 1]
  BY <1>0, ConcatProperties
<1>2. DOMAIN t = 1..(1 + Len(s)) /\ DOMAIN s = 1..Len(s) /\ Len(s) \in Nat
  BY <1>1, LenProperties
<1>3. t # <<>> BY <1>1, <1>2, EmptySeq
<1> HIDE DEF t
<1>4. t[1] = x /\ \A i \in 1..Len(s) : i + 1 \in DOMAIN t /\ t[i + 1] = s[i]
  BY <1>0, <1>1, <1>2
<1>5. \A i \in DOMAIN t : i # 1 => i - 1 \in 1..Len(s) /\ t[i] = s[i - 1]
  BY <1>1, <1>2
<1>6. Listed(t) = Listed(s) \cup {x}
  <2>1. \A y \in Listed(t) : y = x \/ y \in Listed(s)
    BY <1>2, <1>4, <1>5 DEF Listed
  <2>2. \A y \in Listed(s) : y \in Listed(t) BY <1>2, <1>4 DEF Listed
  <2>3. x \in Listed(t) BY <1>2, <1>4 DEF Listed
  <2> QED BY <2>1, <2>2, <2>3
<1>7. ASSUME Distinct(s), x \notin Listed(s) PROVE Distinct(t)
  <2> SUFFICES ASSUME NEW i \in DOMAIN t, NEW j \in DOMAIN t, t[i] = t[j]
               PROVE  i = j
    BY DEF Distinct
  <2>1. \A n \in 1..Len(s) : s[n] # x BY <1>2, <1>7 DEF Listed
  <2>2. CASE i = 1 /\ j # 1 BY <1>4, <1>5, <2>1, <2>2
  <2>3. CASE j = 1 /\ i # 1 BY <1>4, <1>5, <2>1, <2>3
  <2>4. CASE i # 1 /\ j # 1
    <3>1. i - 1 \in 1..Len(s) /\ j - 1 \in 1..Len(s) /\ s[i - 1] = s[j - 1]
      BY <1>5, <2>4
    <3>2. i - 1 = j - 1 BY <1>2, <1>7, <3>1 DEF Distinct
    <3> QED BY <1>2, <3>2
  <2> QED BY <2>2, <2>3, <2>4
<1> QED BY <1>1, <1>3, <1>6, <1>7 DEF t

\* What is left when the element at n is taken out.
LEMMA WithoutElements ==
    ASSUME NEW S, NEW s \in Seq(S), NEW n \in 1..Len(s)
    PROVE  /\ DelNode(s, n) \in Seq(S)
           /\ Len(DelNode(s, n)) = Len(s) - 1
           /\ Distinct(s) => /\ Distinct(DelNode(s, n))
                             /\ Listed(DelNode(s, n)) = Listed(s) \ {s[n]}
<1> DEFINE t == DelNode(s, n)
           m == Len(s) - 1
<1>1. DOMAIN s = 1..Len(s) /\ Len(s) \in Nat /\ \A i \in 1..Len(s) : s[i] \in S
  BY LenProperties, ElementOfSeq
<1>2. m \in Nat /\ t = [i \in 1..m |-> IF i < n THEN s[i] ELSE s[i + 1]]
  BY <1>1 DEF DelNode
<1>3. \A i \in 1..m : t[i] \in S BY <1>1, <1>2
<1>4. t \in [1..m -> S] BY <1>2, <1>3
<1>5. t \in Seq(S) /\ Len(t) = m /\ DOMAIN t = 1..m BY <1>2, <1>4
<1>6. \A i \in 1..m : t[i] = IF i < n THEN s[i] ELSE s[i + 1] BY <1>2
<1> HIDE DEF t
<1>7. ASSUME Distinct(s) PROVE Distinct(t)
  <2> SUFFICES ASSUME NEW i \in 1..m, NEW j \in 1..m, t[i] = t[j]
               PROVE  i = j
    BY <1>5 DEF Distinct
  <2> DEFINE p == IF i < n THEN i ELSE i + 1
             q == IF j < n THEN j ELSE j + 1
  <2>1. p \in 1..Len(s) /\ q \in 1..Len(s) /\ t[i] = s[p] /\ t[j] = s[q]
    BY <1>1, <1>6
  <2>2. p = q BY <1>1, <1>7, <2>1 DEF Distinct
  <2> QED BY <1>1, <2>2
<1>8. ASSUME Distinct(s) PROVE Listed(t) = Listed(s) \ {s[n]}
  <2>1. ASSUME NEW i \in 1..m PROVE t[i] \in Listed(s) /\ t[i] # s[n]
    <3> DEFINE p == IF i < n THEN i ELSE i + 1
    <3>1. p \in 1..Len(s) /\ t[i] = s[p] /\ p # n BY <1>1, <1>6
    <3> QED BY <1>1, <1>8, <3>1 DEF Listed, Distinct
  <2>2. ASSUME NEW p \in 1..Len(s), s[p] # s[n] PROVE s[p] \in Listed(t)
    <3> DEFINE i == IF p < n THEN p ELSE p - 1
    <3>1. i \in 1..m /\ t[i] = s[p] BY <1>1, <1>6, <2>2
    <3> QED BY <1>5, <3>1 DEF Listed
  <2> QED BY <1>1, <1>5, <2>1, <2>2 DEF Listed
<1> QED BY <1>5, <1>7, <1>8 DEF t

\* A client that is once in a list is found there and taken out.
LEMMA WithoutFirst ==
    ASSUME NEW S, NEW s \in Seq(S), Distinct(s), NEW x \in Listed(s)
    PROVE  /\ FirstAt(s, x) \in 1..Len(s) /\ s[FirstAt(s, x)] = x
           /\ DelNode(s, FirstAt(s, x)) \in Seq(S)
           /\ Len(DelNode(s, FirstAt(s, x))) = Len(s) - 1
           /\ Distinct(DelNode(s, FirstAt(s, x)))
           /\ Listed(DelNode(s, FirstAt(s, x))) = Listed(s) \ {x}
<1>1. DOMAIN s = 1..Len(s) /\ Len(s) \in Nat BY LenProperties
<1>2. PICK i \in DOMAIN s : s[i] = x BY DEF Listed
<1>3. \A j \in 1..(i - 1) : s[j] # x BY <1>1, <1>2 DEF Distinct
<1>4. FirstAt(s, x) \in DOMAIN s /\ s[FirstAt(s, x)] = x
  BY <1>2, <1>3 DEF FirstAt
<1> HIDE DEF FirstAt
<1> QED BY <1>1, <1>4, WithoutElements

\* The rest of a sequence.
LEMMA TailElements ==
    ASSUME NEW S, NEW s \in Seq(S), s # <<>>
    PROVE  /\ Head(s) \in Listed(s) /\ Head(s) \in S
           /\ Tail(s) \in Seq(S) /\ Len(Tail(s)) = Len(s) - 1
           /\ Listed(s) = Listed(Tail(s)) \cup {Head(s)}
           /\ Distinct(s) => Distinct(Tail(s)) /\ Head(s) \notin Listed(Tail(s))
<1>1. DOMAIN s = 1..Len(s) /\ Len(s) \in Nat \ {0} BY LenProperties, EmptySeq
<1>2. /\ Head(s) \in S /\ Tail(s) \in Seq(S) /\ Len(Tail(s)) = Len(s) - 1
      /\ \A i \in 1..Len(Tail(s)) : Tail(s)[i] = s[i + 1]
  BY HeadTailProperties
<1>3. Head(s) = s[1] OBVIOUS
<1>4. DOMAIN Tail(s) = 1..(Len(s) - 1) BY <1>2, LenProperties
<1>5. \A i \in 2..Len(s) : i - 1 \in DOMAIN Tail(s) /\ Tail(s)[i - 1] = s[i]
  BY <1>1, <1>2, <1>4
<1>6. \A i \in DOMAIN Tail(s) : i + 1 \in 2..Len(s) /\ Tail(s)[i] = s[i + 1]
  BY <1>1, <1>2, <1>4
<1>7. Listed(s) = Listed(Tail(s)) \cup {Head(s)}
  <2>1. ASSUME NEW i \in DOMAIN s, i # 1 PROVE s[i] \in Listed(Tail(s))
    <3>1. i \in 2..Len(s) BY <1>1, <2>1
    <3> QED BY <1>5, <3>1 DEF Listed
  <2>2. \A i \in DOMAIN Tail(s) : Tail(s)[i] \in Listed(s)
    BY <1>1, <1>6 DEF Listed
  <2>3. Head(s) \in Listed(s) BY <1>1, <1>3 DEF Listed
  <2> QED BY <1>3, <2>1, <2>2, <2>3 DEF Listed
<1>8. ASSUME Distinct(s) PROVE Distinct(Tail(s)) /\ Head(s) \notin Listed(Tail(s))
  <2>1. ASSUME NEW i \in DOMAIN Tail(s), NEW j \in DOMAIN Tail(s), Tail(s)[i] = Tail(s)[j]
        PROVE  i = j
    <3>1. i + 1 = j + 1 BY <1>1, <1>6, <1>8, <2>1 DEF Distinct
    <3> QED BY <1>1, <1>4, <3>1
  <2>2. ASSUME NEW i \in DOMAIN Tail(s) PROVE Tail(s)[i] # Head(s)
    BY <1>1, <1>3, <1>6, <1>8 DEF Distinct
  <2> QED BY <2>1, <2>2 DEF Distinct, Listed
<1> QED BY <1>2, <1>7, <1>8

\* All but the last.
LEMMA FrontElements ==
    ASSUME NEW S, NEW s \in Seq(S), s # <<>>
    PROVE  /\ s[Len(s)] \in Listed(s)
           /\ SubSeq(s, 1, Len(s) - 1) \in Seq(S)
           /\ Listed(s) = Listed(SubSeq(s, 1, Len(s) - 1)) \cup {s[Len(s)]}
           /\ Distinct(s) => /\ Distinct(SubSeq(s, 1, Len(s) - 1))
                             /\ s[Len(s)] \notin Listed(SubSeq(s, 1, Len(s) - 1))
<1> DEFINE n == Len(s)
           t == SubSeq(s, 1, n - 1)
<1>1. DOMAIN s = 1..n /\ n \in Nat \ {0} /\ \A i \in 1..n : s[i] \in S
  BY LenProperties, EmptySeq, ElementOfSeq
<1>2. \A i \in 1..(n - 1) : s[i] \in S BY <1>1
<1>3. /\ t \in Seq(S) /\ Len(t) = n - 1
      /\ \A i \in 1..(n - 1) : t[i] = s[i]
  BY <1>1, <1>2, SubSeqProperties
<1>4. DOMAIN t = 1..(n - 1) BY <1>3, LenProperties
<1> HIDE DEF t
<1>5. 1..n = (1..(n - 1)) \cup {n} BY <1>1
<1> HIDE DEF n
<1>6. Listed(s) = Listed(t) \cup {s[n]} BY <1>1, <1>3, <1>4, <1>5 DEF Listed
<1>7. ASSUME Distinct(s) PROVE Distinct(t) /\ s[n] \notin Listed(t)
  BY <1>1, <1>3, <1>4, <1>5, <1>7 DEF Listed, Distinct
<1> QED BY <1>3, <1>6, <1>7 DEF t, n
-----------------------------------------------------------------------------
(* Datasets *)

\* The list of k is s now, and the rest is as it was.
ListIs(ds, new, k, s) ==
    /\ new \in Dataset /\ new.str = ds.str
    /\ new.list[k] = s
    /\ \A d \in ListKey : d # k => new.list[d] = ds.list[d]

\* One list of a dataset is replaced.
LEMMA ExceptList ==
    ASSUME NEW ds \in Dataset, NEW k \in ListKey, NEW s \in Seq(PushedValue)
    PROVE  ListIs(ds, [ds EXCEPT !.list[k] = s], k, s)
<1> DEFINE new == [ds EXCEPT !.list[k] = s]
<1>1. ds.list \in [ListKey -> Seq(PushedValue)] /\ ds.str \in SUBSET ListKey BY DEF Dataset
<1>2. new.list = [ds.list EXCEPT ![k] = s] /\ new.str = ds.str BY DEF Dataset
<1>3. new.list \in [ListKey -> Seq(PushedValue)] BY <1>1, <1>2
<1>4. new \in Dataset BY <1>1, <1>2, <1>3 DEF Dataset
<1> QED BY <1>1, <1>2, <1>4 DEF ListIs

\* listTypePush adds one element to one list.
LEMMA PushEffect ==
    ASSUME NEW ds \in Dataset, NEW k \in ListKey, NEW v \in PushedValue, NEW w
    PROVE  \E s \in Seq(PushedValue) :
              /\ ListIs(ds, ListPush(ds, k, v, w), k, s)
              /\ s # <<>> /\ Listed(s) = Listed(ds.list[k]) \cup {v}
              /\ Distinct(ds.list[k]) /\ v \notin Listed(ds.list[k]) => Distinct(s)
<1> DEFINE l == ds.list[k]
           s == IF w = "head" THEN <<v>> \o l ELSE Append(l, v)
<1>1. l \in Seq(PushedValue) BY DEF Dataset
<1>2. /\ s \in Seq(PushedValue) /\ s # <<>> /\ Listed(s) = Listed(l) \cup {v}
      /\ Distinct(l) /\ v \notin Listed(l) => Distinct(s)
  BY <1>1, AppendElements, ConsElements
<1>3. ListPush(ds, k, v, w) = [ds EXCEPT !.list[k] = s] BY DEF ListPush, Dataset
<1> HIDE DEF s
<1>4. ListIs(ds, ListPush(ds, k, v, w), k, s)
  <2>1. ListIs(ds, [ds EXCEPT !.list[k] = s], k, s) BY <1>2, ExceptList
  <2> QED BY <1>3, <2>1
<1> QED BY <1>2, <1>4

\* listTypePop takes one element out of one list.
LEMMA PopEffect ==
    ASSUME NEW ds \in Dataset, NEW k \in ListKey, IsList(ds, k), NEW w
    PROVE  /\ Popped(ds, k, w) \in Listed(ds.list[k])
           /\ Popped(ds, k, w) \in PushedValue
           /\ \E s \in Seq(PushedValue) :
                 /\ ListIs(ds, ListPop(ds, k, w), k, s)
                 /\ Listed(ds.list[k]) = Listed(s) \cup {Popped(ds, k, w)}
                 /\ Distinct(ds.list[k]) =>
                       Distinct(s) /\ Popped(ds, k, w) \notin Listed(s)
<1> DEFINE l == ds.list[k]
           s == IF w = "head" THEN Tail(l) ELSE SubSeq(l, 1, Len(l) - 1)
           v == Popped(ds, k, w)
<1>1. l \in Seq(PushedValue) /\ l # <<>> BY DEF Dataset, IsList
<1>2. /\ s \in Seq(PushedValue) /\ Listed(l) = Listed(s) \cup {v} /\ v \in Listed(l)
      /\ Distinct(l) => Distinct(s) /\ v \notin Listed(s)
  BY <1>1, TailElements, FrontElements DEF Popped
<1>3. Listed(l) \in SUBSET PushedValue BY <1>1, ElementsType
<1>4. ListPop(ds, k, w) = [ds EXCEPT !.list[k] = s] BY DEF ListPop, Dataset
<1> HIDE DEF s
<1>5. ListIs(ds, ListPop(ds, k, w), k, s)
  <2>1. ListIs(ds, [ds EXCEPT !.list[k] = s], k, s) BY <1>2, ExceptList
  <2> QED BY <1>4, <2>1
<1> QED BY <1>2, <1>3, <1>5

\* DEL and SET leave no list.
LEMMA ClearEffect ==
    ASSUME NEW ds \in Dataset, NEW k \in ListKey, NEW new \in {Delete(ds, k), SetString(ds, k)}
    PROVE  /\ new \in Dataset /\ new.list[k] = <<>>
           /\ \A d \in ListKey : d # k => new.list[d] = ds.list[d]
<1>1. ds.list \in [ListKey -> Seq(PushedValue)] /\ ds.str \in SUBSET ListKey BY DEF Dataset
<1>2. new.list = [ds.list EXCEPT ![k] = <<>>] /\ new.str \in SUBSET ListKey
  <2>1. CASE new = Delete(ds, k) BY <1>1, <2>1 DEF Delete
  <2>2. CASE new = SetString(ds, k) BY <1>1, <2>2 DEF SetString
  <2> QED BY <2>1, <2>2
<1>3. <<>> \in Seq(PushedValue) BY EmptySeq
<1>4. new.list \in [ListKey -> Seq(PushedValue)] BY <1>1, <1>2, <1>3
<1>5. new = [list |-> new.list, str |-> new.str] BY DEF Delete, SetString
<1>6. new \in Dataset BY <1>2, <1>4, <1>5 DEF Dataset
<1> QED BY <1>1, <1>2, <1>6

\* The parts of EachValueOnce, for a dataset, the values that are gone and the
\* number pushed.
Once(ds, out, n) ==
    /\ \A v \in 1..n : v \in out \/ \E k \in ListKey : v \in Listed(ds.list[k])
    /\ out \subseteq 1..n
    /\ \A k \in ListKey : Listed(ds.list[k]) \subseteq 1..n
    /\ \A k \in ListKey : Listed(ds.list[k]) \cap out = {}
    /\ \A k \in ListKey : Distinct(ds.list[k])
    /\ \A k, d \in ListKey : k # d => Listed(ds.list[k]) \cap Listed(ds.list[d]) = {}

\* That is what EachValueOnce says.
LEMMA OnceMeans ==
    ASSUME NEW ds, NEW out, NEW n
    PROVE  LET listed == UNION {Listed(ds.list[k]) : k \in ListKey}
           IN Once(ds, out, n) <=>
                 /\ listed \cup out = 1..n /\ listed \cap out = {}
                 /\ \A k \in ListKey : Distinct(ds.list[k])
                 /\ \A k, d \in ListKey :
                       k # d => Listed(ds.list[k]) \cap Listed(ds.list[d]) = {}
<1> DEFINE listed == UNION {Listed(ds.list[k]) : k \in ListKey}
<1>1. \A v : v \in listed <=> \E k \in ListKey : v \in Listed(ds.list[k]) OBVIOUS
<1> HIDE DEF listed
<1>2. ASSUME listed \cup out = 1..n, listed \cap out = {},
             \A k \in ListKey : Distinct(ds.list[k]),
             \A k, d \in ListKey : k # d => Listed(ds.list[k]) \cap Listed(ds.list[d]) = {}
      PROVE  Once(ds, out, n)
  BY <1>1, <1>2 DEF Once
<1>3. ASSUME Once(ds, out, n)
      PROVE  listed \cup out = 1..n /\ listed \cap out = {}
  <2>1. listed \cup out = 1..n BY <1>1, <1>3 DEF Once
  <2>2. listed \cap out = {} BY <1>1, <1>3 DEF Once
  <2> QED BY <2>1, <2>2
<1> QED BY <1>2, <1>3 DEF Once, listed

\* In this state and in the next.
LEMMA OnceIsEachValueOnce ==
    /\ EachValueOnce <=> Once(dataset, gone, pushed)
    /\ EachValueOnce' <=> Once(dataset', gone', pushed')
BY OnceMeans DEF EachValueOnce

\* A new value is pushed.
LEMMA PushOnce ==
    ASSUME NEW ds \in Dataset, NEW out, NEW n \in Nat, n + 1 \in PushedValue, Once(ds, out, n),
           NEW k \in ListKey, NEW w
    PROVE  ListPush(ds, k, n + 1, w) \in Dataset /\ Once(ListPush(ds, k, n + 1, w), out, n + 1)
<1> DEFINE new == ListPush(ds, k, n + 1, w)
<1>1. PICK s \in Seq(PushedValue) :
              /\ ListIs(ds, new, k, s)
              /\ s # <<>> /\ Listed(s) = Listed(ds.list[k]) \cup {n + 1}
              /\ Distinct(ds.list[k]) /\ n + 1 \notin Listed(ds.list[k]) => Distinct(s)
  BY PushEffect
<1> HIDE DEF new
<1>2. n + 1 \notin 1..n /\ 1..(n + 1) = (1..n) \cup {n + 1} OBVIOUS
<1>3. \A d \in ListKey : n + 1 \notin Listed(ds.list[d]) /\ n + 1 \notin out
  BY <1>2 DEF Once
<1>4. \A d \in ListKey : Listed(new.list[d]) = IF d = k THEN Listed(ds.list[d]) \cup {n + 1}
                                                      ELSE Listed(ds.list[d])
  BY <1>1 DEF ListIs
<1>5. \A d \in ListKey : Distinct(new.list[d]) BY <1>1, <1>3 DEF ListIs, Once
<1>6. Once(new, out, n + 1)
  <2>1. \A v \in 1..n : v \in out \/ \E d \in ListKey : v \in Listed(new.list[d])
    BY <1>4 DEF Once
  <2>2. n + 1 \in Listed(new.list[k]) BY <1>4
  <2>3. \A d \in ListKey : Listed(new.list[d]) \subseteq 1..(n + 1)
    BY <1>2, <1>4 DEF Once
  <2>0. \A d \in ListKey : \A x \in Listed(new.list[d]) :
              x # n + 1 => x \in Listed(ds.list[d])
    BY <1>4
  <2>4. \A d \in ListKey : Listed(new.list[d]) \cap out = {}
    BY <1>3, <2>0 DEF Once
  <2>5. ASSUME NEW d \in ListKey, NEW y \in ListKey, d # y,
               NEW x \in Listed(new.list[d]), x \in Listed(new.list[y])
        PROVE  FALSE
    <3>1. CASE x = n + 1 BY <1>3, <1>4, <2>5, <3>1
    <3>2. CASE x # n + 1 BY <2>0, <2>5, <3>2 DEF Once
    <3> QED BY <3>1, <3>2
  <2>6. out \subseteq 1..(n + 1) BY <1>2 DEF Once
  <2> QED BY <1>2, <1>5, <2>1, <2>2, <2>3, <2>4, <2>5, <2>6 DEF Once
<1> QED BY <1>1, <1>6 DEF ListIs, new

\* A value is popped and gone.
LEMMA PopOnce ==
    ASSUME NEW ds \in Dataset, NEW out, NEW n \in Nat, Once(ds, out, n),
           NEW k \in ListKey, IsList(ds, k), NEW w
    PROVE  /\ ListPop(ds, k, w) \in Dataset
           /\ Once(ListPop(ds, k, w), out \cup {Popped(ds, k, w)}, n)
<1> DEFINE new == ListPop(ds, k, w)
           v == Popped(ds, k, w)
<1>1. v \in Listed(ds.list[k]) /\ v \in PushedValue BY PopEffect
<1>2. PICK s \in Seq(PushedValue) :
              /\ ListIs(ds, new, k, s)
              /\ Listed(ds.list[k]) = Listed(s) \cup {v}
              /\ Distinct(ds.list[k]) => Distinct(s) /\ v \notin Listed(s)
  BY PopEffect
<1> HIDE DEF new, v
<1>3. Distinct(s) /\ v \notin Listed(s) BY <1>2 DEF Once
<1>4. \A d \in ListKey : Listed(new.list[d]) = IF d = k THEN Listed(ds.list[d]) \ {v}
                                                      ELSE Listed(ds.list[d])
  BY <1>2, <1>3 DEF ListIs
<1>5. \A d \in ListKey : Distinct(new.list[d]) BY <1>2, <1>3 DEF ListIs, Once
<1>6. \A d \in ListKey : v \notin Listed(new.list[d]) BY <1>1, <1>4 DEF Once
<1>7. v \in 1..n BY <1>1 DEF Once
<1>8. Once(new, out \cup {v}, n)
  <2>1. \A x \in 1..n : x \in out \cup {v} \/ \E d \in ListKey : x \in Listed(new.list[d])
    BY <1>4 DEF Once
  <2>2. out \cup {v} \subseteq 1..n BY <1>7 DEF Once
  <2>3. \A d \in ListKey : Listed(new.list[d]) \subseteq Listed(ds.list[d]) BY <1>4
  <2>4. \A d \in ListKey : Listed(new.list[d]) \subseteq 1..n BY <2>3 DEF Once
  <2>5. \A d \in ListKey : Listed(new.list[d]) \cap (out \cup {v}) = {}
    BY <1>6, <2>3 DEF Once
  <2>6. \A d, x \in ListKey : d # x => Listed(new.list[d]) \cap Listed(new.list[x]) = {}
    BY <2>3 DEF Once
  <2> QED BY <1>5, <2>1, <2>2, <2>4, <2>5, <2>6 DEF Once
<1> QED BY <1>2, <1>8 DEF ListIs, new, v

\* A value goes from one list to another, or round the same one.
LEMMA MoveOnce ==
    ASSUME NEW ds \in Dataset, NEW out, NEW n \in Nat, Once(ds, out, n),
           NEW k \in ListKey, IsList(ds, k), NEW d \in ListKey
    PROVE  /\ Move(ds, k, d) \in Dataset /\ Once(Move(ds, k, d), out, n)
           /\ Move(ds, k, d).str = ds.str
           /\ IsList(Move(ds, k, d), d)
           /\ \A x \in ListKey : x # d /\ IsList(Move(ds, k, d), x) => IsList(ds, x)
<1> DEFINE mid == ListPop(ds, k, "tail")
           v == Popped(ds, k, "tail")
           new == Move(ds, k, d)
<1>1. v \in Listed(ds.list[k]) /\ v \in PushedValue BY PopEffect
<1>2. mid \in Dataset /\ Once(mid, out \cup {v}, n) BY PopOnce
<1>3. \E s \in Seq(PushedValue) : ListIs(ds, mid, k, s) BY PopEffect
<1>4. new = ListPush(mid, d, v, "head") BY DEF Move
<1> HIDE DEF mid, v, new
<1>5. PICK s \in Seq(PushedValue) :
              /\ ListIs(mid, new, d, s)
              /\ s # <<>> /\ Listed(s) = Listed(mid.list[d]) \cup {v}
              /\ Distinct(mid.list[d]) /\ v \notin Listed(mid.list[d]) => Distinct(s)
  BY <1>1, <1>2, <1>4, PushEffect
<1>6. \A x \in ListKey : v \notin Listed(mid.list[x]) BY <1>2 DEF Once
<1>7. \A x \in ListKey : Listed(new.list[x]) = IF x = d THEN Listed(mid.list[x]) \cup {v}
                                                      ELSE Listed(mid.list[x])
  BY <1>5 DEF ListIs
<1>8. \A x \in ListKey : Distinct(new.list[x]) BY <1>2, <1>5, <1>6 DEF ListIs, Once
<1>9. v \in 1..n BY <1>2 DEF Once
<1>10. v \notin out BY <1>1 DEF Once
<1>11. Once(new, out, n)
  <2>1. \A x \in 1..n : x \in out \/ \E y \in ListKey : x \in Listed(new.list[y])
    BY <1>2, <1>7 DEF Once
  <2>2. out \subseteq 1..n BY DEF Once
  <2>3. \A x \in ListKey : Listed(new.list[x]) \subseteq 1..n BY <1>2, <1>7, <1>9 DEF Once
  <2>4. ASSUME NEW x \in ListKey, NEW y \in Listed(new.list[x]), y \in out PROVE FALSE
    <3>1. y # v /\ y \in Listed(mid.list[x]) BY <1>7, <1>10, <2>4
    <3> QED BY <1>2, <2>4, <3>1 DEF Once
  <2>5. \A x, y \in ListKey : x # y => Listed(new.list[x]) \cap Listed(new.list[y]) = {}
    BY <1>2, <1>6, <1>7 DEF Once
  <2> QED BY <1>8, <2>1, <2>2, <2>3, <2>4, <2>5 DEF Once
<1>12. \A x \in ListKey : x # d /\ IsList(new, x) => IsList(mid, x)
  BY <1>5 DEF ListIs, IsList
<1>13. \A x \in ListKey : IsList(mid, x) => IsList(ds, x) BY <1>3 DEF ListIs, IsList
<1>14. new.str = ds.str /\ IsList(new, d) /\ new \in Dataset
  BY <1>3, <1>5 DEF ListIs, IsList
<1> QED BY <1>11, <1>12, <1>13, <1>14 DEF new

\* All values of a key are gone.
LEMMA ClearOnce ==
    ASSUME NEW ds \in Dataset, NEW out, NEW n \in Nat, Once(ds, out, n),
           NEW k \in ListKey, NEW new \in {Delete(ds, k), SetString(ds, k)}
    PROVE  new \in Dataset /\ Once(new, out \cup Listed(ds.list[k]), n)
<1>1. /\ new \in Dataset /\ new.list[k] = <<>>
      /\ \A d \in ListKey : d # k => new.list[d] = ds.list[d]
  BY ClearEffect
<1>2. Listed(<<>>) = {} /\ Distinct(<<>>) BY DEF Listed, Distinct
<1>3. \A d \in ListKey : Listed(new.list[d]) = IF d = k THEN {} ELSE Listed(ds.list[d])
  BY <1>1, <1>2
<1>4. \A d \in ListKey : Distinct(new.list[d]) BY <1>1, <1>2 DEF Once
<1>5. Once(new, out \cup Listed(ds.list[k]), n) BY <1>3, <1>4 DEF Once
<1> QED BY <1>1, <1>5
-----------------------------------------------------------------------------
(* The inductive invariant *)

\* What is still to be handled.
Pending == (IF serve = NoServe THEN batch ELSE Tail(batch)) \o ready

\* handleClientsBlockedOnLists never runs inside an EXEC; it serves the first
\* key of what it goes through, and has counted the clients that wait for it.
Service ==
    /\ batch # <<>> => ~exec
    /\ serve # NoServe =>
          /\ batch # <<>> /\ serve.key = Head(batch)
          /\ serve.left = Len(blocking[serve.key])

\* A list that somebody waits for is on its way to be handled.
Noticed ==
    \A k \in ListKey : blocking[k] # <<>> /\ IsList(dataset, k) =>
        k \in Listed(batch) \cup Listed(ready)

IInv ==
    /\ TypeOK /\ BlockIndex /\ Service /\ ReadyOnce /\ Noticed
    /\ EachValueOnce /\ ReplicaAgrees

\* The parts of TypeOK about the clients that wait, and about the rest.
WaitTypes ==
    /\ flags \in [Client -> SUBSET {"BLOCKED", "UNBLOCKED"}]
    /\ bpop \in [Client -> [keys : SUBSET ListKey, target : ListKey \cup {Null}, where : Where]]
    /\ blocking \in [ListKey -> Seq(Client)]

KeyTypes ==
    /\ ready \in Seq(ListKey) /\ readyset \subseteq ListKey
    /\ batch \in Seq(ListKey)
    /\ serve \in [key : ListKey \cup {Null}, left : Nat]

DataTypes ==
    /\ dataset \in Dataset /\ replica \in Dataset
    /\ pushed \in 0..MaxPush /\ gone \subseteq 1..pushed

LoopTypes ==
    /\ alive \subseteq Client
    /\ unblocked \in Seq(Client)
    /\ current \in alive \cup {Null}
    /\ exec \in BOOLEAN
    /\ phase \in {"sleep", "events", "lost"}
    /\ turn \subseteq Client

LEMMA TypeParts == TypeOK <=> WaitTypes /\ KeyTypes /\ DataTypes /\ LoopTypes
BY DEF TypeOK, WaitTypes, KeyTypes, DataTypes, LoopTypes, Dataset

-----------------------------------------------------------------------------
(* What the commands on lists do *)

\* The parts of the invariant a step on the dataset may disturb.
DataInv == DataTypes /\ EachValueOnce /\ ReplicaAgrees

\* The parts about the keys that are to be handled.
QueueInv == KeyTypes /\ ReadyOnce

\* The parts about the clients that wait.
WaitInv == WaitTypes /\ BlockIndex

\* The invariant by its parts.
LEMMA Parts ==
    IInv <=> DataInv /\ QueueInv /\ WaitInv /\ LoopTypes /\ Service /\ Noticed
BY TypeParts DEF IInv, DataInv, QueueInv, WaitInv

\* A part whose variables do not change.
LEMMA SameData ==
    ASSUME DataInv, UNCHANGED <<dataset, replica, pushed, gone>>
    PROVE  DataInv'
BY DEF DataInv, DataTypes, EachValueOnce, ReplicaAgrees

LEMMA SameQueue ==
    ASSUME QueueInv, UNCHANGED <<ready, readyset, batch, serve>>
    PROVE  QueueInv'
BY DEF QueueInv, KeyTypes, ReadyOnce

LEMMA SameWait ==
    ASSUME WaitInv, UNCHANGED <<flags, bpop, blocking>>
    PROVE  WaitInv'
BY DEF WaitInv, WaitTypes, BlockIndex

\* What is pending is a sequence of keys.
LEMMA PendingType ==
    ASSUME KeyTypes, serve # NoServe => batch # <<>>
    PROVE  /\ Pending \in Seq(ListKey)
           /\ ReadyOnce <=> Listed(Pending) = readyset /\ Distinct(Pending)
<1>1. (IF serve = NoServe THEN batch ELSE Tail(batch)) \in Seq(ListKey)
  BY HeadTailProperties DEF KeyTypes
<1>2. Pending \in Seq(ListKey) BY <1>1, ConcatProperties DEF Pending, KeyTypes
<1> QED BY <1>2 DEF ReadyOnce, Pending

\* signalListAsReady queues a key that somebody waits for, once.
LEMMA SignalEffect ==
    ASSUME QueueInv, Service, NEW k \in ListKey, NEW waiting, SignalListAsReady(k, waiting),
           UNCHANGED batch, serve = NoServe <=> serve' = NoServe,
           serve' \in [key : ListKey \cup {Null}, left : Nat]
    PROVE  /\ QueueInv'
           /\ Listed(ready) \subseteq Listed(ready')
           /\ waiting # <<>> => k \in Listed(batch) \cup Listed(ready')
<1>1. CASE waiting = <<>> \/ k \in readyset
  <2>1. ready' = ready /\ readyset' = readyset BY <1>1 DEF SignalListAsReady
  <2>2. QueueInv' BY <2>1 DEF QueueInv, KeyTypes, ReadyOnce
  <2>3. k \in readyset => k \in Listed(batch) \cup Listed(ready)
    <3> DEFINE b == IF serve = NoServe THEN batch ELSE Tail(batch)
    <3>1. b \in Seq(ListKey) /\ ready \in Seq(ListKey) /\ Listed(b) \subseteq Listed(batch)
      BY TailElements DEF QueueInv, KeyTypes, Service
    <3>2. Listed(b \o ready) = readyset BY DEF QueueInv, ReadyOnce
    <3> HIDE DEF b
    <3>3. Listed(b \o ready) \subseteq Listed(b) \cup Listed(ready)
      BY <3>1, ConcatProperties, LenProperties DEF Listed
    <3> QED BY <3>1, <3>2, <3>3
  <2> QED BY <1>1, <2>1, <2>2, <2>3
<1>2. CASE ~(waiting = <<>> \/ k \in readyset)
  <2>1. ready' = Append(ready, k) /\ readyset' = readyset \cup {k} /\ k \notin readyset
    BY <1>2 DEF SignalListAsReady
  <2>2. ready \in Seq(ListKey) /\ KeyTypes BY DEF QueueInv, KeyTypes
  <2>3. ready' \in Seq(ListKey) /\ Listed(ready') = Listed(ready) \cup {k}
    BY <2>1, <2>2, AppendElements
  <2>4. KeyTypes' BY <2>1, <2>2, <2>3 DEF KeyTypes
  <2>5. Pending \in Seq(ListKey) /\ Listed(Pending) = readyset /\ Distinct(Pending)
    BY PendingType DEF QueueInv, Service
  <2>6. Pending' = Append(Pending, k)
    <3> DEFINE b == IF serve = NoServe THEN batch ELSE Tail(batch)
    <3>1. b \in Seq(ListKey) BY HeadTailProperties DEF QueueInv, KeyTypes, Service
    <3>2. Pending = b \o ready /\ Pending' = b \o Append(ready, k)
      BY <2>1 DEF Pending, NoServe
    <3> HIDE DEF b
    <3>3. <<k>> \in Seq(ListKey) OBVIOUS
    <3>4. Append(ready, k) = ready \o <<k>> BY <2>2, AppendIsConcat
    <3>5. Append(b \o ready, k) = (b \o ready) \o <<k>>
      BY <2>2, <3>1, ConcatProperties, AppendIsConcat
    <3> QED BY <2>2, <3>1, <3>2, <3>3, <3>4, <3>5, ConcatAssociative
  <2>7. Listed(Pending') = readyset' /\ Distinct(Pending')
    BY <2>1, <2>5, <2>6, AppendElements
  <2>8. ReadyOnce' BY <2>7 DEF ReadyOnce, Pending
  <2> QED BY <2>3, <2>4, <2>8 DEF QueueInv
<1> QED BY <1>1, <1>2

\* A step that changes no client and no loop variable.
LEMMA SameLoop ==
    ASSUME LoopTypes, UNCHANGED <<alive, unblocked, current, exec, phase, turn>>
    PROVE  LoopTypes'
BY DEF LoopTypes

\* Every action on the dataset leaves its parts in order.
LEMMA PushData ==
    ASSUME DataInv, NEW k \in ListKey, NEW w \in Where, pushed < MaxPush,
           pushed' = pushed + 1, dataset' = ListPush(dataset, k, pushed + 1, w),
           replica' = ListPush(replica, k, pushed + 1, w), UNCHANGED gone
    PROVE  DataInv' /\ \A x \in ListKey : x # k /\ IsList(dataset', x) => IsList(dataset, x)
<1>1. /\ dataset \in Dataset /\ pushed \in Nat /\ pushed + 1 \in PushedValue
      /\ replica = dataset /\ gone \subseteq 1..pushed
  BY BlockingConstants DEF DataInv, DataTypes, ReplicaAgrees, PushedValue
<1>2. Once(dataset, gone, pushed) BY OnceIsEachValueOnce DEF DataInv
<1>3. dataset' \in Dataset /\ Once(dataset', gone, pushed + 1) BY <1>1, <1>2, PushOnce
<1>4. Once(dataset', gone', pushed') BY <1>3
<1>5. EachValueOnce' BY <1>4, OnceIsEachValueOnce
<1>6. \E s \in Seq(PushedValue) : ListIs(dataset, dataset', k, s) BY <1>1, PushEffect
<1>7. DataTypes' BY <1>1, <1>3, BlockingConstants DEF DataTypes, DataInv
<1> QED BY <1>1, <1>5, <1>6, <1>7 DEF DataInv, ReplicaAgrees, ListIs, IsList

\* A pop, and the pop that is propagated.
LEMMA PopData ==
    ASSUME DataInv, NEW k \in ListKey, NEW w \in Where, IsList(dataset, k), TakeOut(k, w),
           UNCHANGED pushed
    PROVE  DataInv' /\ \A x \in ListKey : IsList(dataset', x) => IsList(dataset, x)
<1>1. dataset \in Dataset /\ pushed \in Nat /\ replica = dataset /\ gone \subseteq 1..pushed
  BY BlockingConstants DEF DataInv, DataTypes, ReplicaAgrees
<1>2. Once(dataset, gone, pushed) BY OnceIsEachValueOnce DEF DataInv
<1>3. /\ dataset' = ListPop(dataset, k, w) /\ replica' = ListPop(replica, k, w)
      /\ gone' = gone \cup {Popped(dataset, k, w)}
  BY DEF TakeOut
<1>4. dataset' \in Dataset /\ Once(dataset', gone', pushed) BY <1>1, <1>2, <1>3, PopOnce
<1>5. Once(dataset', gone', pushed') BY <1>4
<1>6. EachValueOnce' BY <1>5, OnceIsEachValueOnce
<1>7. \E s \in Seq(PushedValue) : ListIs(dataset, dataset', k, s) BY <1>1, <1>3, PopEffect
<1>8. gone' \subseteq 1..pushed' BY <1>5 DEF Once
<1>9. DataTypes' BY <1>1, <1>3, <1>4, <1>8 DEF DataTypes, DataInv
<1> QED BY <1>1, <1>3, <1>6, <1>7, <1>9 DEF DataInv, ReplicaAgrees, ListIs, IsList

\* A value that moves.
LEMMA MoveData ==
    ASSUME DataInv, NEW k \in ListKey, NEW d \in ListKey, IsList(dataset, k),
           dataset' = Move(dataset, k, d), replica' = Move(replica, k, d),
           UNCHANGED <<pushed, gone>>
    PROVE  DataInv' /\ \A x \in ListKey : x # d /\ IsList(dataset', x) => IsList(dataset, x)
<1>1. dataset \in Dataset /\ pushed \in Nat /\ replica = dataset
  BY BlockingConstants DEF DataInv, DataTypes, ReplicaAgrees
<1>2. Once(dataset, gone, pushed) BY OnceIsEachValueOnce DEF DataInv
<1>3. /\ dataset' \in Dataset /\ Once(dataset', gone, pushed)
      /\ \A x \in ListKey : x # d /\ IsList(dataset', x) => IsList(dataset, x)
  BY <1>1, <1>2, MoveOnce
<1>4. EachValueOnce' BY <1>3, OnceIsEachValueOnce
<1>5. DataTypes' BY <1>1, <1>3 DEF DataTypes, DataInv
<1> QED BY <1>1, <1>3, <1>4, <1>5 DEF DataInv, ReplicaAgrees

\* DEL and SET.
LEMMA ClearData ==
    ASSUME DataInv, NEW k \in ListKey,
           \/ dataset' = Delete(dataset, k) /\ replica' = Delete(replica, k)
           \/ dataset' = SetString(dataset, k) /\ replica' = SetString(replica, k),
           gone' = gone \cup Listed(dataset.list[k]), UNCHANGED pushed
    PROVE  DataInv' /\ \A x \in ListKey : IsList(dataset', x) => IsList(dataset, x)
<1>1. dataset \in Dataset /\ pushed \in Nat /\ replica = dataset
  BY BlockingConstants DEF DataInv, DataTypes, ReplicaAgrees
<1>2. Once(dataset, gone, pushed) BY OnceIsEachValueOnce DEF DataInv
<1>3. dataset' \in {Delete(dataset, k), SetString(dataset, k)} /\ replica' = dataset' BY <1>1
<1>4. /\ dataset' \in Dataset /\ dataset'.list[k] = <<>>
      /\ \A d \in ListKey : d # k => dataset'.list[d] = dataset.list[d]
  BY <1>1, <1>3, ClearEffect
<1>5. Once(dataset', gone', pushed') BY <1>1, <1>2, <1>3, ClearOnce
<1>6. EachValueOnce' BY <1>5, OnceIsEachValueOnce
<1>7. gone' \subseteq 1..pushed' BY <1>5 DEF Once
<1>8. DataTypes' BY <1>1, <1>3, <1>4, <1>7 DEF DataTypes, DataInv
<1> QED BY <1>3, <1>4, <1>6, <1>8 DEF DataInv, ReplicaAgrees, IsList

-----------------------------------------------------------------------------
(* Who waits for what *)

\* unblockClientWaitingData takes the client out of every list it is in.
LEMMA BlockingWithoutEffect ==
    ASSUME WaitInv, NEW c \in Client
    PROVE  /\ BlockingWithout(c) \in [ListKey -> Seq(Client)]
           /\ \A k \in ListKey :
                 /\ Distinct(BlockingWithout(c)[k])
                 /\ Listed(BlockingWithout(c)[k]) = Listed(blocking[k]) \ {c}
                 /\ BlockingWithout(c)[k] # <<>> => blocking[k] # <<>>
                 /\ k \in bpop[c].keys =>
                       Len(BlockingWithout(c)[k]) = Len(blocking[k]) - 1
<1> DEFINE B == BlockingWithout(c)
<1>1. /\ blocking \in [ListKey -> Seq(Client)]
      /\ bpop[c].keys = {k \in ListKey : c \in Listed(blocking[k])}
      /\ \A k \in ListKey : Distinct(blocking[k])
  BY DEF WaitInv, WaitTypes, BlockIndex
<1>2. ASSUME NEW k \in ListKey, k \in bpop[c].keys
      PROVE  /\ B[k] \in Seq(Client) /\ Distinct(B[k])
             /\ Listed(B[k]) = Listed(blocking[k]) \ {c}
             /\ Len(B[k]) = Len(blocking[k]) - 1 /\ blocking[k] # <<>>
  <2>1. B[k] = DelNode(blocking[k], FirstAt(blocking[k], c))
    BY <1>2 DEF BlockingWithout
  <2>2. blocking[k] \in Seq(Client) /\ Distinct(blocking[k]) /\ c \in Listed(blocking[k])
    BY <1>1, <1>2
  <2>3. blocking[k] # <<>> BY <2>2, ElementsType
  <2> QED BY <2>1, <2>2, <2>3, WithoutFirst
<1>3. ASSUME NEW k \in ListKey, k \notin bpop[c].keys
      PROVE  B[k] = blocking[k] /\ c \notin Listed(blocking[k])
  BY <1>1, <1>3 DEF BlockingWithout
<1>4. \A k \in ListKey : B[k] \in Seq(Client) BY <1>1, <1>2, <1>3
<1>5. B \in [ListKey -> Seq(Client)] BY <1>4 DEF BlockingWithout
<1> HIDE DEF B
<1>6. \A k \in ListKey : Distinct(B[k]) /\ Listed(B[k]) = Listed(blocking[k]) \ {c}
  BY <1>1, <1>2, <1>3
<1>7. \A k \in ListKey : B[k] # <<>> => blocking[k] # <<>> BY <1>2, <1>3
<1> QED BY <1>2, <1>5, <1>6, <1>7 DEF B

\* A client that no longer waits.
LEMMA ForgetClient ==
    ASSUME WaitInv, NEW c \in Client, blocking' = BlockingWithout(c),
           bpop' = [bpop EXCEPT ![c] = NoBpop],
           NEW f \in SUBSET {"UNBLOCKED"}, flags' = [flags EXCEPT ![c] = f]
    PROVE  /\ WaitInv'
           /\ \A k \in ListKey : blocking'[k] # <<>> => blocking[k] # <<>>
<1>1. /\ blocking' \in [ListKey -> Seq(Client)]
      /\ \A k \in ListKey : /\ Distinct(blocking'[k])
                            /\ Listed(blocking'[k]) = Listed(blocking[k]) \ {c}
                            /\ blocking'[k] # <<>> => blocking[k] # <<>>
  BY BlockingWithoutEffect
<1>2. WaitTypes' BY <1>1 DEF WaitInv, WaitTypes, NoBpop, Where
<1>3. bpop'[c].keys = {} /\ "BLOCKED" \notin flags'[c]
  BY DEF WaitInv, WaitTypes, NoBpop
<1>4. \A x \in Client : x # c => bpop'[x] = bpop[x] /\ flags'[x] = flags[x]
  BY DEF WaitInv, WaitTypes
<1>5. ASSUME NEW x \in Client
      PROVE  /\ bpop'[x].keys # {} <=> "BLOCKED" \in flags'[x]
             /\ bpop'[x].keys = {k \in ListKey : x \in Listed(blocking'[k])}
  <2>1. CASE x = c BY <1>1, <1>3, <2>1
  <2>2. CASE x # c
    <3>1. /\ bpop[x].keys # {} <=> "BLOCKED" \in flags[x]
          /\ bpop[x].keys = {k \in ListKey : x \in Listed(blocking[k])}
      BY DEF WaitInv, BlockIndex
    <3>2. \A k \in ListKey : x \in Listed(blocking'[k]) <=> x \in Listed(blocking[k])
      BY <1>1, <2>2
    <3> QED BY <1>4, <2>2, <3>1, <3>2
  <2> QED BY <2>1, <2>2
<1>6. BlockIndex' BY <1>1, <1>5 DEF BlockIndex
<1> QED BY <1>1, <1>2, <1>6 DEF WaitInv

\* blockForKeys: a client that waits for nothing waits for the keys.
LEMMA BlockEffect ==
    ASSUME WaitInv, NEW c \in Client, "BLOCKED" \notin flags[c],
           NEW ks \in Seq(ListKey), ks # <<>>, NEW d \in ListKey \cup {Null}, NEW w \in Where,
           BlockForKeys(c, ks, d, w)
    PROVE  /\ WaitInv'
           /\ \A k \in ListKey : k \notin Listed(ks) => blocking'[k] = blocking[k]
<1>1. Listed(ks) \in SUBSET ListKey /\ Listed(ks) # {} BY ElementsType
<1>2. /\ blocking \in [ListKey -> Seq(Client)]
      /\ bpop[c].keys = {} /\ \A k \in ListKey : c \notin Listed(blocking[k])
      /\ \A k \in ListKey : Distinct(blocking[k])
  BY DEF WaitInv, WaitTypes, BlockIndex
<1>3. blocking' = [k \in ListKey |-> IF k \in Listed(ks) THEN Append(blocking[k], c)
                                                        ELSE blocking[k]]
  BY DEF BlockForKeys
<1>4. ASSUME NEW k \in ListKey
      PROVE  /\ blocking'[k] \in Seq(Client) /\ Distinct(blocking'[k])
             /\ Listed(blocking'[k]) = IF k \in Listed(ks)
                                         THEN Listed(blocking[k]) \cup {c}
                                         ELSE Listed(blocking[k])
  <2>1. blocking[k] \in Seq(Client) /\ Distinct(blocking[k]) /\ c \notin Listed(blocking[k])
    BY <1>2
  <2>2. CASE k \in Listed(ks)
    <3>1. blocking'[k] = Append(blocking[k], c) BY <1>3, <2>2
    <3> QED BY <2>1, <2>2, <3>1, AppendElements
  <2>3. CASE k \notin Listed(ks)
    <3>1. blocking'[k] = blocking[k] BY <1>3, <2>3
    <3> QED BY <2>1, <2>3, <3>1
  <2> QED BY <2>2, <2>3
<1>5. blocking' \in [ListKey -> Seq(Client)] BY <1>3, <1>4
<1>6. /\ bpop' = [bpop EXCEPT ![c] = [keys |-> Listed(ks), target |-> d, where |-> w]]
      /\ flags' = [flags EXCEPT ![c] = @ \cup {"BLOCKED"}]
  BY DEF BlockForKeys
<1>7. WaitTypes' BY <1>1, <1>5, <1>6 DEF WaitInv, WaitTypes
<1>8. bpop'[c].keys = Listed(ks) /\ "BLOCKED" \in flags'[c]
  BY <1>6 DEF WaitInv, WaitTypes
<1>9. \A x \in Client : x # c => bpop'[x] = bpop[x] /\ flags'[x] = flags[x]
  BY <1>6 DEF WaitInv, WaitTypes
<1>10. ASSUME NEW x \in Client
       PROVE  /\ bpop'[x].keys # {} <=> "BLOCKED" \in flags'[x]
              /\ bpop'[x].keys = {k \in ListKey : x \in Listed(blocking'[k])}
  <2>1. CASE x = c
    <3>1. \A k \in ListKey : c \in Listed(blocking'[k]) <=> k \in Listed(ks)
      BY <1>2, <1>4
    <3> QED BY <1>1, <1>8, <2>1, <3>1
  <2>2. CASE x # c
    <3>1. /\ bpop[x].keys # {} <=> "BLOCKED" \in flags[x]
          /\ bpop[x].keys = {k \in ListKey : x \in Listed(blocking[k])}
      BY DEF WaitInv, BlockIndex
    <3>2. \A k \in ListKey : x \in Listed(blocking'[k]) <=> x \in Listed(blocking[k])
      BY <1>4, <2>2
    <3> QED BY <1>9, <2>2, <3>1, <3>2
  <2> QED BY <2>1, <2>2
<1>11. BlockIndex' BY <1>4, <1>10 DEF BlockIndex
<1> QED BY <1>3, <1>7, <1>11 DEF WaitInv

\* freeClient.
LEMMA FreeEffect ==
    ASSUME WaitInv, LoopTypes, NEW c \in Client, FreeClient(c)
    PROVE  /\ WaitInv' /\ unblocked' \in Seq(Client) /\ alive' = alive \ {c}
           /\ \A k \in ListKey : blocking'[k] # <<>> => blocking[k] # <<>>
<1>1. /\ blocking' = BlockingWithout(c) /\ bpop' = [bpop EXCEPT ![c] = NoBpop]
      /\ flags' = [flags EXCEPT ![c] = {}] /\ alive' = alive \ {c}
  BY DEF FreeClient
<1>2. WaitInv' /\ \A k \in ListKey : blocking'[k] # <<>> => blocking[k] # <<>>
  BY <1>1, ForgetClient
<1> DEFINE listed == IF "BLOCKED" \in flags[c] THEN Append(unblocked, c) ELSE unblocked
           n == FirstAt(listed, c)
           m == Len(listed) - 1
<1>3. unblocked' \in {DelNode(listed, n), listed} BY DEF FreeClient
<1>4. listed \in Seq(Client) BY AppendProperties DEF LoopTypes
<1> HIDE DEF listed, n
<1>5. DelNode(listed, n) \in Seq(Client)
  <2>1. Len(listed) \in Nat /\ \A i \in 1..Len(listed) : listed[i] \in Client
    BY <1>4, LenProperties, ElementOfSeq
  <2>2. CASE Len(listed) = 0
    <3>1. DelNode(listed, n) = <<>> BY <2>2 DEF DelNode
    <3> QED BY <3>1, EmptySeq
  <2>3. CASE Len(listed) # 0
    <3>1. m \in Nat /\ \A i \in 1..m : listed[i] \in Client /\ listed[i + 1] \in Client
      BY <2>1, <2>3
    <3>2. DelNode(listed, n) \in [1..m -> Client] BY <3>1 DEF DelNode
    <3> QED BY <3>1, <3>2
  <2> QED BY <2>2, <2>3
<1> QED BY <1>1, <1>2, <1>3, <1>4, <1>5
-----------------------------------------------------------------------------
(* Every step keeps the invariant: commands *)

\* A command that changes the dataset, and may queue a key.
LEMMA DataStep ==
    ASSUME IInv, DataInv', QueueInv', Listed(ready) \subseteq Listed(ready'),
           UNCHANGED <<alive, flags, bpop, blocking, batch, serve, unblocked, current,
                       exec, phase, turn>>,
           \A k \in ListKey : blocking[k] # <<>> /\ IsList(dataset', k) /\ ~IsList(dataset, k) =>
               k \in Listed(batch) \cup Listed(ready')
    PROVE  IInv'
<1>1. WaitInv' BY Parts, SameWait
<1>2. LoopTypes' BY Parts, SameLoop
<1>3. Service' BY Parts DEF Service
<1>4. Noticed' BY Parts DEF Noticed
<1> QED BY <1>1, <1>2, <1>3, <1>4, Parts, PTL

LEMMA PushGenericCommandInv ==
    ASSUME IInv, NEW c \in Client, NEW k \in ListKey, NEW w \in Where,
           PushGenericCommand(c, k, w)
    PROVE  IInv'
<1>0. DataInv /\ QueueInv /\ WaitInv /\ Service BY Parts
<1>1. DataInv' /\ \A x \in ListKey : x # k /\ IsList(dataset', x) => IsList(dataset, x)
  BY <1>0, PushData DEF PushGenericCommand
<1>2. UNCHANGED <<alive, flags, bpop, blocking, batch, serve, unblocked, current,
                  exec, phase, turn>>
  BY DEF PushGenericCommand
<1>3. CASE Absent(dataset, k)
  <2>1. SignalListAsReady(k, blocking[k]) BY <1>3 DEF PushGenericCommand
  <2>2. serve' \in [key : ListKey \cup {Null}, left : Nat] BY <1>0, <1>2 DEF QueueInv, KeyTypes
  <2>3. /\ QueueInv' /\ Listed(ready) \subseteq Listed(ready')
        /\ blocking[k] # <<>> => k \in Listed(batch) \cup Listed(ready')
    BY <1>0, <1>2, <2>1, <2>2, SignalEffect
  <2> QED BY <1>1, <1>2, <2>3, DataStep
<1>4. CASE ~Absent(dataset, k)
  <2>1. UNCHANGED <<ready, readyset>> /\ IsList(dataset, k)
    BY <1>4 DEF PushGenericCommand, Absent, IsList
  <2>2. QueueInv' BY <1>0, <1>2, <2>1, SameQueue
  <2> QED BY <1>1, <1>2, <2>1, <2>2, DataStep
<1> QED BY <1>3, <1>4

LEMMA RpoplpushCommandInv ==
    ASSUME IInv, NEW c \in Client, NEW k \in ListKey, NEW d \in ListKey,
           RpoplpushCommand(c, k, d)
    PROVE  IInv'
<1>0. DataInv /\ QueueInv /\ WaitInv /\ Service BY Parts
<1>1. DataInv' /\ \A x \in ListKey : x # d /\ IsList(dataset', x) => IsList(dataset, x)
  BY <1>0, MoveData DEF RpoplpushCommand
<1>2. UNCHANGED <<alive, flags, bpop, blocking, batch, serve, unblocked, current,
                  exec, phase, turn>>
  BY DEF RpoplpushCommand
<1>3. CASE Absent(dataset, d)
  <2>1. SignalListAsReady(d, blocking[d]) BY <1>3 DEF RpoplpushCommand
  <2>2. serve' \in [key : ListKey \cup {Null}, left : Nat] BY <1>0, <1>2 DEF QueueInv, KeyTypes
  <2>3. /\ QueueInv' /\ Listed(ready) \subseteq Listed(ready')
        /\ blocking[d] # <<>> => d \in Listed(batch) \cup Listed(ready')
    BY <1>0, <1>2, <2>1, <2>2, SignalEffect
  <2> QED BY <1>1, <1>2, <2>3, DataStep
<1>4. CASE ~Absent(dataset, d)
  <2>1. UNCHANGED <<ready, readyset>> /\ IsList(dataset, d)
    BY <1>4 DEF RpoplpushCommand, Absent, IsList
  <2>2. QueueInv' BY <1>0, <1>2, <2>1, SameQueue
  <2> QED BY <1>1, <1>2, <2>1, <2>2, DataStep
<1> QED BY <1>3, <1>4

\* POP, DEL and SET make no list.
LEMMA ShrinkStep ==
    ASSUME IInv, DataInv', \A x \in ListKey : IsList(dataset', x) => IsList(dataset, x),
           UNCHANGED <<alive, flags, bpop, blocking, ready, readyset, batch, serve,
                       unblocked, current, exec, phase, turn>>
    PROVE  IInv'
<1>1. QueueInv' BY Parts, SameQueue
<1> QED BY <1>1, DataStep

LEMMA PopGenericCommandInv ==
    ASSUME IInv, NEW c \in Client, NEW k \in ListKey, NEW w \in Where,
           PopGenericCommand(c, k, w)
    PROVE  IInv'
<1>1. DataInv' /\ \A x \in ListKey : IsList(dataset', x) => IsList(dataset, x)
  BY Parts, PopData DEF PopGenericCommand
<1> QED BY <1>1, ShrinkStep DEF PopGenericCommand

LEMMA DelCommandInv ==
    ASSUME IInv, NEW c \in Client, NEW k \in ListKey, DelCommand(c, k)
    PROVE  IInv'
<1>1. DataInv' /\ \A x \in ListKey : IsList(dataset', x) => IsList(dataset, x)
  BY Parts, ClearData DEF DelCommand
<1> QED BY <1>1, ShrinkStep DEF DelCommand

LEMMA SetCommandInv ==
    ASSUME IInv, NEW c \in Client, NEW k \in ListKey, SetCommand(c, k)
    PROVE  IInv'
<1>1. DataInv' /\ \A x \in ListKey : IsList(dataset', x) => IsList(dataset, x)
  BY Parts, ClearData DEF SetCommand
<1> QED BY <1>1, ShrinkStep DEF SetCommand

\* A client blocks for keys that are absent.
LEMMA BlockStep ==
    ASSUME IInv, NEW c \in Client, Runs(c), ~exec,
           NEW ks \in Seq(ListKey), ks # <<>>, NEW d \in ListKey \cup {Null}, NEW w \in Where,
           BlockForKeys(c, ks, d, w), \A k \in Listed(ks) : Absent(dataset, k),
           UNCHANGED <<dataset, replica, pushed, gone, alive, ready, readyset, batch, serve,
                       unblocked, current, exec, phase, turn>>
    PROVE  IInv'
<1>1. /\ WaitInv'
      /\ \A k \in ListKey : k \notin Listed(ks) => blocking'[k] = blocking[k]
  BY Parts, BlockEffect DEF Runs
<1>2. DataInv' BY Parts, SameData
<1>3. QueueInv' BY Parts, SameQueue
<1>4. LoopTypes' BY Parts, SameLoop
<1>5. Service' BY Parts DEF Service, Runs, Quiet
<1>6. Noticed' BY <1>1, Parts DEF Noticed, Absent, IsList
<1> QED BY <1>1, <1>2, <1>3, <1>4, <1>5, <1>6, Parts, PTL

LEMMA BlockingPopGenericCommandInv ==
    ASSUME IInv, NEW c \in Client, NEW ks \in KeyLists, NEW w \in Where,
           BlockingPopGenericCommand(c, ks, w)
    PROVE  IInv'
<1>1. ks \in Seq(ListKey) /\ ks # <<>> BY BlockingConstants
<1>2. DOMAIN ks = 1..Len(ks) /\ \A i \in DOMAIN ks : ks[i] \in ListKey
  BY <1>1, LenProperties, ElementOfSeq
<1>3. CASE \E i \in DOMAIN ks :
            /\ Decides(ks, i) /\ IsList(dataset, ks[i])
            /\ TakeOut(ks[i], w)
            /\ UNCHANGED <<flags, bpop, blocking>>
  <2>1. PICK i \in DOMAIN ks : /\ IsList(dataset, ks[i]) /\ TakeOut(ks[i], w)
                               /\ UNCHANGED <<flags, bpop, blocking>>
    BY <1>3
  <2>2. DataInv' /\ \A x \in ListKey : IsList(dataset', x) => IsList(dataset, x)
    BY <1>2, <2>1, Parts, PopData DEF BlockingPopGenericCommand
  <2> QED BY <2>1, <2>2, ShrinkStep DEF BlockingPopGenericCommand
<1>4. CASE /\ \A i \in DOMAIN ks : Absent(dataset, ks[i])
           /\ ~exec
           /\ BlockForKeys(c, ks, Null, w)
           /\ UNCHANGED <<dataset, replica, gone>>
  <2>1. \A k \in Listed(ks) : Absent(dataset, k) BY <1>4 DEF Listed
  <2> QED BY <1>1, <1>4, <2>1, BlockStep DEF BlockingPopGenericCommand
<1> QED BY <1>3, <1>4 DEF BlockingPopGenericCommand

LEMMA BrpoplpushCommandInv ==
    ASSUME IInv, NEW c \in Client, NEW k \in ListKey, NEW d \in ListKey,
           BrpoplpushCommand(c, k, d)
    PROVE  IInv'
<1>1. <<k>> \in Seq(ListKey) /\ <<k>> # <<>> /\ Listed(<<k>>) = {k} BY DEF Listed
<1> QED BY <1>1, BlockStep DEF BrpoplpushCommand, Where

\* The service is not under way when a client is freed.
LEMMA FreeStep ==
    ASSUME IInv, NEW c \in Client, FreeClient(c), current # c, batch = <<>>,
           UNCHANGED <<dataset, replica, pushed, gone, ready, readyset, batch, serve,
                       current, exec, phase>>,
           turn' \subseteq turn
    PROVE  IInv'
<1>1. /\ WaitInv' /\ unblocked' \in Seq(Client) /\ alive' = alive \ {c}
      /\ \A k \in ListKey : blocking'[k] # <<>> => blocking[k] # <<>>
  BY Parts, FreeEffect
<1>2. DataInv' BY Parts, SameData
<1>3. QueueInv' BY Parts, SameQueue
<1>4. LoopTypes' BY <1>1, Parts DEF LoopTypes
<1>5. Service' BY Parts DEF Service
<1>6. Noticed' BY <1>1, Parts DEF Noticed
<1> QED BY <1>1, <1>2, <1>3, <1>4, <1>5, <1>6, Parts, PTL

LEMMA KillCommandInv ==
    ASSUME IInv, NEW c \in Client, NEW x \in Client, KillCommand(c, x)
    PROVE  IInv'
<1>1. current # x /\ FreeClient(x) BY DEF KillCommand, Runs
<1>2. batch = <<>> BY Parts DEF KillCommand, Runs, Quiet, Service
<1> QED BY <1>1, <1>2, FreeStep DEF KillCommand

\* A step of the event loop that touches neither keys nor clients that wait.
LEMMA LoopStep ==
    ASSUME IInv, LoopTypes', batch # <<>> => ~exec',
           UNCHANGED <<dataset, replica, pushed, gone, bpop, blocking, ready, readyset, batch,
                       serve>>,
           UNCHANGED flags
    PROVE  IInv'
<1>1. WaitInv' BY Parts, SameWait
<1>2. DataInv' BY Parts, SameData
<1>3. QueueInv' BY Parts, SameQueue
<1>4. Service' BY Parts DEF Service
<1>5. Noticed' BY Parts DEF Noticed
<1> QED BY <1>1, <1>2, <1>3, <1>4, <1>5, Parts, PTL

LEMMA ExecInv ==
    ASSUME IInv, ExecEnd \/ \E c \in Client : ExecBegin(c)
    PROVE  IInv'
<1>1. LoopTypes' BY Parts DEF LoopTypes, ExecEnd, ExecBegin
<1>2. batch # <<>> => ~exec' BY DEF ExecEnd, ExecBegin, Runs, Quiet
<1> QED BY <1>1, <1>2, LoopStep DEF ExecEnd, ExecBegin
-----------------------------------------------------------------------------
(* Every step keeps the invariant: the service of the clients that wait *)

LEMMA HandleBeginInv ==
    ASSUME IInv, HandleBegin
    PROVE  IInv'
<1>1. /\ batch = <<>> /\ serve = NoServe /\ batch' = ready /\ ready' = <<>> /\ ~exec
      /\ UNCHANGED <<dataset, replica, pushed, gone, alive, flags, bpop, blocking, readyset,
                     serve, unblocked, current, exec, phase, turn>>
  BY DEF HandleBegin
<1>2. KeyTypes /\ ready \in Seq(ListKey) /\ ReadyOnce BY Parts DEF QueueInv, KeyTypes
<1>3. KeyTypes' BY <1>1, <1>2, EmptySeq DEF KeyTypes
<1>4. ReadyOnce'
  <2>1. <<>> \o ready = ready /\ ready \o <<>> = ready BY <1>2, ConcatEmptySeq
  <2>2. Listed(ready) = readyset /\ Distinct(ready) BY <1>1, <1>2, <2>1 DEF ReadyOnce
  <2>3. (IF serve' = NoServe THEN batch' ELSE Tail(batch')) \o ready' = ready
    BY <1>1, <2>1
  <2> QED BY <1>1, <2>2, <2>3 DEF ReadyOnce, NoServe
<1>5. DataInv' BY <1>1, Parts, SameData
<1>6. WaitInv' BY <1>1, Parts, SameWait
<1>7. LoopTypes' BY <1>1, Parts, SameLoop
<1>8. Service' BY <1>1 DEF Service, NoServe
<1>9. Noticed' BY <1>1, Parts DEF Noticed, Listed
<1> QED BY <1>3, <1>4, <1>5, <1>6, <1>7, <1>8, <1>9, Parts, PTL DEF QueueInv

\* The pending keys without the first.
LEMMA PendingTail ==
    ASSUME KeyTypes, batch # <<>>
    PROVE  /\ Tail(batch) \in Seq(ListKey) /\ Head(batch) \in ListKey
           /\ Tail(batch) \o ready = Tail(batch \o ready)
           /\ Head(batch \o ready) = Head(batch) /\ batch \o ready # <<>>
           /\ batch \o ready \in Seq(ListKey)
<1>1. batch \in Seq(ListKey) /\ ready \in Seq(ListKey) BY DEF KeyTypes
<1>2. /\ Tail(batch) \in Seq(ListKey) /\ Head(batch) \in ListKey /\ Len(Tail(batch)) = Len(batch) - 1
      /\ \A i \in 1..Len(Tail(batch)) : Tail(batch)[i] = batch[i + 1]
  BY <1>1, HeadTailProperties
<1>3. Len(batch) \in Nat \ {0} /\ Len(ready) \in Nat BY <1>1, EmptySeq, LenProperties
<1> DEFINE p == batch \o ready
           q == Tail(batch) \o ready
<1>4. /\ p \in Seq(ListKey) /\ Len(p) = Len(batch) + Len(ready)
      /\ \A i \in 1..(Len(batch) + Len(ready)) :
            p[i] = IF i <= Len(batch) THEN batch[i] ELSE ready[i - Len(batch)]
  BY <1>1, ConcatProperties
<1>5. /\ q \in Seq(ListKey) /\ Len(q) = Len(batch) - 1 + Len(ready)
      /\ \A i \in 1..(Len(batch) - 1 + Len(ready)) :
            q[i] = IF i <= Len(batch) - 1 THEN Tail(batch)[i]
                                          ELSE ready[i - (Len(batch) - 1)]
  BY <1>1, <1>2, <1>3, ConcatProperties
<1> HIDE DEF p, q
<1>6. p # <<>> BY <1>3, <1>4, EmptySeq
<1>7. /\ Tail(p) \in Seq(ListKey) /\ Len(Tail(p)) = Len(p) - 1
      /\ \A i \in 1..Len(Tail(p)) : Tail(p)[i] = p[i + 1]
  BY <1>4, <1>6, HeadTailProperties
<1>8. \A i \in 1..Len(q) : q[i] = Tail(p)[i]
  <2> TAKE i \in 1..Len(q)
  <2>1. i \in 1..Len(Tail(p)) /\ i + 1 \in 1..(Len(batch) + Len(ready))
    BY <1>3, <1>4, <1>5, <1>7
  <2>2. Tail(p)[i] = p[i + 1] BY <1>7, <2>1
  <2>3. CASE i <= Len(batch) - 1
    <3>1. q[i] = batch[i + 1] BY <1>2, <1>3, <1>5, <2>3
    <3>2. p[i + 1] = batch[i + 1] BY <1>3, <1>4, <2>1, <2>3
    <3> QED BY <2>2, <3>1, <3>2
  <2>4. CASE ~(i <= Len(batch) - 1)
    <3>1. q[i] = ready[i - (Len(batch) - 1)] BY <1>5, <2>4
    <3>2. p[i + 1] = ready[(i + 1) - Len(batch)] BY <1>3, <1>4, <2>1, <2>4
    <3>3. i - (Len(batch) - 1) = (i + 1) - Len(batch) BY <1>3
    <3> QED BY <2>2, <3>1, <3>2, <3>3
  <2> QED BY <2>3, <2>4
<1>9. q = Tail(p) BY <1>3, <1>4, <1>5, <1>7, <1>8, SeqEqual
<1>10. Head(p) = Head(batch) BY <1>1, <1>3, <1>4
<1> QED BY <1>2, <1>4, <1>6, <1>9, <1>10 DEF p, q

LEMMA HandleKeyInv ==
    ASSUME IInv, HandleKey
    PROVE  IInv'
<1> DEFINE k == Head(batch)
<1>1. /\ batch # <<>> /\ serve = NoServe /\ readyset' = readyset \ {k}
      /\ \/ /\ IsList(dataset, k) /\ blocking[k] # <<>>
            /\ serve' = [key |-> k, left |-> Len(blocking[k])] /\ batch' = batch
         \/ /\ ~(IsList(dataset, k) /\ blocking[k] # <<>>)
            /\ batch' = Tail(batch) /\ serve' = NoServe
      /\ UNCHANGED <<dataset, replica, pushed, gone, alive, flags, bpop, blocking, ready,
                     unblocked, current, exec, phase, turn>>
  BY DEF HandleKey, Waiting
<1>2. KeyTypes /\ ReadyOnce /\ Service /\ Noticed /\ WaitInv BY Parts DEF QueueInv
<1>3. /\ Tail(batch) \in Seq(ListKey) /\ k \in ListKey
      /\ Tail(batch) \o ready = Tail(batch \o ready)
      /\ Head(batch \o ready) = k /\ batch \o ready # <<>>
      /\ batch \o ready \in Seq(ListKey)
  BY <1>1, <1>2, PendingTail
<1>4. blocking[k] \in Seq(Client) /\ Len(blocking[k]) \in Nat
  BY <1>2, <1>3, LenProperties DEF WaitInv, WaitTypes
<1>5. k # Null BY <1>3, BlockingConstants
<1> HIDE DEF k
<1>6. /\ serve' \in [key : ListKey \cup {Null}, left : Nat] /\ batch' \in Seq(ListKey)
      /\ (IF serve' = NoServe THEN batch' ELSE Tail(batch')) = Tail(batch)
  <2>1. batch \in Seq(ListKey) BY <1>2 DEF KeyTypes
  <2>2. CASE /\ serve' = [key |-> k, left |-> Len(blocking[k])] /\ batch' = batch
    <3>1. serve' # NoServe BY <1>5, <2>2 DEF NoServe
    <3> QED BY <1>3, <1>4, <2>1, <2>2, <3>1
  <2>3. CASE batch' = Tail(batch) /\ serve' = NoServe
    BY <1>3, <2>3 DEF NoServe
  <2> QED BY <1>1, <2>2, <2>3
<1>7. KeyTypes' BY <1>1, <1>2, <1>6 DEF KeyTypes
<1>8. serve' # NoServe <=> IsList(dataset, k) /\ blocking[k] # <<>>
  BY <1>1, <1>5 DEF NoServe
<1>9. ReadyOnce'
  <2>1. Listed(batch \o ready) = readyset /\ Distinct(batch \o ready)
    BY <1>1, <1>2 DEF ReadyOnce
  <2>2. Listed(Tail(batch) \o ready) = readyset' /\ Distinct(Tail(batch) \o ready)
    <3> DEFINE p == batch \o ready
    <3>1. p \in Seq(ListKey) /\ p # <<>> /\ Distinct(p) /\ Head(p) = k /\ Listed(p) = readyset
      BY <1>3, <2>1
    <3> HIDE DEF p
    <3>2. /\ readyset = Listed(Tail(p)) \cup {k}
          /\ Distinct(Tail(p)) /\ k \notin Listed(Tail(p))
      BY <3>1, TailElements
    <3>3. Listed(Tail(p)) = readyset' BY <1>1, <3>2
    <3> QED BY <1>3, <3>2, <3>3 DEF p
  <2>3. (IF serve' = NoServe THEN batch' ELSE Tail(batch')) \o ready'
           = Tail(batch) \o ready
    BY <1>1, <1>6
  <2> QED BY <2>2, <2>3 DEF ReadyOnce, NoServe
<1>10. Service' BY <1>1, <1>2, <1>3, <1>8 DEF Service, NoServe, k
<1>11. Noticed'
  <2>1. batch \in Seq(ListKey) BY <1>2 DEF KeyTypes
  <2>2. Listed(batch) = Listed(Tail(batch)) \cup {k} BY <1>1, <2>1, TailElements DEF k
  <2> QED BY <1>1, <1>2, <2>2 DEF Noticed
<1>12. DataInv' BY <1>1, Parts, SameData
<1>13. WaitInv' BY <1>1, Parts, SameWait
<1>14. LoopTypes' BY <1>1, Parts, SameLoop
<1> QED BY <1>7, <1>9, <1>10, <1>11, <1>12, <1>13, <1>14, Parts, PTL DEF QueueInv

LEMMA HandleKeyDoneInv ==
    ASSUME IInv, HandleKeyDone
    PROVE  IInv'
<1>1. /\ serve # NoServe /\ (serve.left = 0 \/ ~IsList(dataset, serve.key))
      /\ serve' = NoServe /\ batch' = Tail(batch)
      /\ UNCHANGED <<dataset, replica, pushed, gone, alive, flags, bpop, blocking, ready,
                     readyset, unblocked, current, exec, phase, turn>>
  BY DEF HandleKeyDone
<1>2. KeyTypes /\ ReadyOnce /\ Service /\ Noticed /\ WaitInv BY Parts DEF QueueInv
<1>3. /\ batch # <<>> /\ serve.key = Head(batch)
      /\ serve.left = Len(blocking[serve.key])
  BY <1>1, <1>2 DEF Service
<1>4. Tail(batch) \in Seq(ListKey) /\ serve.key \in ListKey BY <1>2, <1>3, PendingTail
<1>5. KeyTypes' BY <1>1, <1>2, <1>4 DEF KeyTypes, NoServe
<1>6. ReadyOnce'
  <2>1. Listed(Tail(batch) \o ready) = readyset /\ Distinct(Tail(batch) \o ready)
    BY <1>1, <1>2 DEF ReadyOnce
  <2>2. (IF serve' = NoServe THEN batch' ELSE Tail(batch')) \o ready'
           = Tail(batch) \o ready
    BY <1>1
  <2> QED BY <1>1, <2>1, <2>2 DEF ReadyOnce, NoServe
<1>7. Service' BY <1>1, <1>2, <1>3 DEF Service, NoServe
<1>8. Noticed'
  <2>1. batch \in Seq(ListKey) /\ blocking[serve.key] \in Seq(Client)
    BY <1>2, <1>4 DEF KeyTypes, WaitInv, WaitTypes
  <2>2. Listed(batch) = Listed(Tail(batch)) \cup {serve.key}
    BY <1>3, <2>1, TailElements
  <2>3. serve.left = 0 => blocking[serve.key] = <<>> BY <1>3, <2>1, EmptySeq
  <2> QED BY <1>1, <1>2, <2>2, <2>3 DEF Noticed
<1>9. DataInv' BY <1>1, Parts, SameData
<1>10. WaitInv' BY <1>1, Parts, SameWait
<1>11. LoopTypes' BY <1>1, Parts, SameLoop
<1> QED BY <1>5, <1>6, <1>7, <1>8, <1>9, <1>10, <1>11, Parts, PTL DEF QueueInv

\* The client that is served waits, and for the key that is served.
LEMMA ServedClient ==
    ASSUME IInv, ServeClientBlockedOnList
    PROVE  LET c == Head(blocking[serve.key])
           IN /\ serve.key \in ListKey /\ c \in Client
              /\ serve.key \in bpop[c].keys
              /\ bpop[c].target \in ListKey \cup {Null} /\ bpop[c].where \in Where
              /\ serve.left = Len(blocking[serve.key]) /\ serve.left \in Nat \ {0}
              /\ batch # <<>> /\ serve.key = Head(batch)
<1> DEFINE k == serve.key
           c == Head(blocking[k])
<1>1. serve # NoServe /\ serve.left > 0 BY DEF ServeClientBlockedOnList
<1>2. KeyTypes /\ Service /\ WaitTypes /\ BlockIndex BY Parts DEF QueueInv, WaitInv
<1>3. batch # <<>> /\ k = Head(batch) /\ serve.left = Len(blocking[k])
  BY <1>1, <1>2 DEF Service
<1>4. k \in ListKey BY <1>2, <1>3, PendingTail
<1>5. blocking[k] \in Seq(Client) BY <1>2, <1>4 DEF WaitTypes
<1>6. Len(blocking[k]) \in Nat \ {0} /\ blocking[k] # <<>>
  BY <1>1, <1>3, <1>5, EmptySeq, LenProperties
<1>7. c \in Client /\ c \in Listed(blocking[k]) BY <1>5, <1>6, TailElements
<1>8. k \in bpop[c].keys BY <1>2, <1>4, <1>7 DEF BlockIndex
<1>9. bpop[c].target \in ListKey \cup {Null} /\ bpop[c].where \in Where
  BY <1>2, <1>7 DEF WaitTypes
<1> QED BY <1>3, <1>4, <1>6, <1>7, <1>8, <1>9

\* The dataset when a client is served, and what is propagated.
LEMMA ServedData ==
    ASSUME DataInv, NEW k \in ListKey, IsList(dataset, k), NEW d \in ListKey \cup {Null},
           NEW w \in Where, dataset' = Served(dataset, k, d, w),
           replica' = IF d \in dataset.str THEN replica ELSE Propagated(replica, k, d, w),
           gone' = IF d = Null THEN gone \cup {Popped(dataset, k, w)} ELSE gone,
           UNCHANGED pushed
    PROVE  DataInv' /\ \A x \in ListKey : x # d /\ IsList(dataset', x) => IsList(dataset, x)
<1>1. d = Null => d \notin dataset.str BY BlockingConstants DEF DataInv, DataTypes, Dataset
<1>2. CASE d = Null
  <2>1. TakeOut(k, w) BY <1>1, <1>2 DEF TakeOut, Served, Propagated
  <2> QED BY <2>1, PopData
<1>3. CASE d # Null /\ d \in dataset.str
  <2>1. UNCHANGED <<dataset, replica, pushed, gone>> BY <1>3 DEF Served
  <2> QED BY <2>1, SameData
<1>4. CASE d # Null /\ d \notin dataset.str
  <2>1. dataset' = Move(dataset, k, d) /\ replica' = Move(replica, k, d) /\ gone' = gone
    BY <1>4 DEF Served, Propagated, Move
  <2> QED BY <1>4, <2>1, MoveData
<1> QED BY <1>2, <1>3, <1>4

LEMMA ServeClientBlockedOnListInv ==
    ASSUME IInv, ServeClientBlockedOnList
    PROVE  IInv'
<1> DEFINE k == serve.key
           c == Head(blocking[k])
           d == bpop[c].target
           w == bpop[c].where
<1>1. /\ k \in ListKey /\ c \in Client /\ k \in bpop[c].keys
      /\ d \in ListKey \cup {Null} /\ w \in Where
      /\ serve.left = Len(blocking[k]) /\ serve.left \in Nat \ {0}
      /\ batch # <<>> /\ k = Head(batch)
  BY ServedClient
<1>2. /\ serve # NoServe /\ IsList(dataset, k)
      /\ UnblockClientWaitingData(c)
      /\ dataset' = Served(dataset, k, d, w)
      /\ replica' = IF d \in dataset.str THEN replica ELSE Propagated(replica, k, d, w)
      /\ gone' = IF d = Null THEN gone \cup {Popped(dataset, k, w)} ELSE gone
      /\ IF d # Null /\ d # k /\ Absent(dataset, d)
         THEN SignalListAsReady(d, blocking'[d])
         ELSE UNCHANGED <<ready, readyset>>
      /\ serve' = [key |-> k, left |-> serve.left - 1]
      /\ UNCHANGED <<pushed, alive, batch, current, exec, phase, turn>>
  BY DEF ServeClientBlockedOnList
<1>3. DataInv /\ QueueInv /\ WaitInv /\ LoopTypes /\ Service /\ Noticed BY Parts
<1> HIDE DEF k, c, d, w
<1>4. DataInv' /\ \A x \in ListKey : x # d /\ IsList(dataset', x) => IsList(dataset, x)
  BY <1>1, <1>2, <1>3, ServedData
<1>5. /\ blocking' = BlockingWithout(c) /\ bpop' = [bpop EXCEPT ![c] = NoBpop]
      /\ flags' = [flags EXCEPT ![c] = (@ \ {"BLOCKED"}) \cup {"UNBLOCKED"}]
      /\ unblocked' = Append(unblocked, c)
  BY <1>2 DEF UnblockClientWaitingData
<1>6. flags' = [flags EXCEPT ![c] = {"UNBLOCKED"}]
  BY <1>1, <1>3, <1>5 DEF WaitInv, WaitTypes
<1>7. WaitInv' /\ \A x \in ListKey : blocking'[x] # <<>> => blocking[x] # <<>>
  BY <1>1, <1>3, <1>5, <1>6, ForgetClient
<1>8. Len(blocking'[k]) = Len(blocking[k]) - 1
  BY <1>1, <1>3, <1>5, BlockingWithoutEffect
<1>9. k # Null BY <1>1, BlockingConstants
<1>10. serve' # NoServe /\ serve' \in [key : ListKey \cup {Null}, left : Nat]
  BY <1>1, <1>2, <1>9 DEF NoServe
<1>11. /\ QueueInv' /\ Listed(ready) \subseteq Listed(ready')
       /\ d \in ListKey /\ blocking'[d] # <<>> /\ IsList(dataset', d) =>
             d \in Listed(batch) \cup Listed(ready')
  <2>1. CASE d # Null /\ d # k /\ Absent(dataset, d)
    <3>1. SignalListAsReady(d, blocking'[d]) /\ d \in ListKey BY <1>1, <1>2, <2>1
    <3> QED BY <1>2, <1>3, <1>10, <3>1, SignalEffect
  <2>2. CASE ~(d # Null /\ d # k /\ Absent(dataset, d))
    <3>1. ready' = ready /\ readyset' = readyset BY <1>2, <2>2
    <3>2. QueueInv' BY <1>2, <1>3, <1>10, <3>1 DEF QueueInv, KeyTypes, ReadyOnce, NoServe
    <3>3. batch \in Seq(ListKey) BY <1>3 DEF QueueInv, KeyTypes
    <3>4. k \in Listed(batch) BY <1>1, <3>3, TailElements
    <3>5. ASSUME d \in ListKey, d # k, blocking'[d] # <<>>, IsList(dataset', d)
          PROVE  d \in Listed(batch) \cup Listed(ready)
      <4>1. ~Absent(dataset, d) /\ d # Null BY <2>2, <3>5, BlockingConstants
      <4>2. CASE d \in dataset.str
        <5>1. dataset' = dataset BY <1>2, <4>1, <4>2 DEF Served
        <5> QED BY <1>3, <1>7, <3>5, <5>1 DEF Noticed
      <4>3. CASE d \notin dataset.str
        <5>1. IsList(dataset, d) BY <4>1, <4>3 DEF Absent, IsList
        <5> QED BY <1>3, <1>7, <3>5, <5>1 DEF Noticed
      <4> QED BY <4>2, <4>3
    <3> QED BY <3>1, <3>2, <3>4, <3>5
  <2> QED BY <2>1, <2>2
<1>12. LoopTypes' BY <1>1, <1>2, <1>3, <1>5, AppendProperties DEF LoopTypes
<1>13. Service' BY <1>1, <1>2, <1>3, <1>8 DEF Service, NoServe
<1>14. Noticed'
  <2> SUFFICES ASSUME NEW x \in ListKey, blocking'[x] # <<>>, IsList(dataset', x)
               PROVE  x \in Listed(batch') \cup Listed(ready')
    BY DEF Noticed
  <2>1. CASE x = d BY <1>2, <1>11, <2>1
  <2>2. CASE x # d BY <1>2, <1>3, <1>4, <1>7, <1>11, <2>2 DEF Noticed
  <2> QED BY <2>1, <2>2
<1> QED BY <1>4, <1>7, <1>11, <1>12, <1>13, <1>14, Parts, PTL
-----------------------------------------------------------------------------
(* Every step keeps the invariant: the event loop *)

LEMMA BeforeSleepResumeInv ==
    ASSUME IInv, BeforeSleepResume
    PROVE  IInv'
<1> DEFINE c == Head(unblocked)
<1>1. /\ unblocked # <<>> /\ unblocked' = Tail(unblocked)
      /\ \/ /\ c \in alive /\ flags' = [flags EXCEPT ![c] = @ \ {"UNBLOCKED"}]
            /\ current' \in {Null, c} /\ phase' = phase
         \/ phase' = "lost" /\ flags' = flags /\ current' = current
      /\ UNCHANGED <<dataset, replica, pushed, gone, alive, bpop, blocking, ready, readyset,
                     batch, serve, exec, turn>>
  BY DEF BeforeSleepResume, Resumed
<1>2. WaitTypes /\ BlockIndex /\ LoopTypes BY Parts DEF WaitInv
<1>3. c \in Client /\ Tail(unblocked) \in Seq(Client)
  BY <1>1, <1>2, HeadTailProperties DEF LoopTypes
<1> HIDE DEF c
<1>4. /\ flags' \in [Client -> SUBSET {"BLOCKED", "UNBLOCKED"}]
      /\ \A x \in Client : "BLOCKED" \in flags'[x] <=> "BLOCKED" \in flags[x]
  <2>1. CASE flags' = flags BY <1>2, <2>1 DEF WaitTypes
  <2>2. CASE flags' = [flags EXCEPT ![c] = @ \ {"UNBLOCKED"}]
    BY <1>2, <1>3, <2>2 DEF WaitTypes
  <2> QED BY <1>1, <2>1, <2>2
<1>5. WaitInv' BY <1>1, <1>2, <1>4 DEF WaitInv, WaitTypes, BlockIndex
<1>6. LoopTypes' BY <1>1, <1>2, <1>3 DEF LoopTypes
<1>7. DataInv' BY <1>1, Parts, SameData
<1>8. QueueInv' BY <1>1, Parts, SameQueue
<1>9. Service' /\ Noticed' BY <1>1, Parts DEF Service, Noticed
<1> QED BY <1>5, <1>6, <1>7, <1>8, <1>9, Parts, PTL

LEMMA PollInv ==
    ASSUME IInv, Poll
    PROVE  IInv'
<1>1. LoopTypes' BY Parts DEF LoopTypes, Poll
<1> QED BY <1>1, LoopStep DEF Poll, Between, Quiet

LEMMA InputDoneInv ==
    ASSUME IInv, InputDone
    PROVE  IInv'
<1>1. LoopTypes' BY Parts DEF LoopTypes, InputDone
<1> QED BY <1>1, LoopStep DEF InputDone, Quiet

LEMMA EndTurnInv ==
    ASSUME IInv, EndTurn
    PROVE  IInv'
<1>1. LoopTypes' BY Parts DEF LoopTypes, EndTurn
<1> QED BY <1>1, LoopStep DEF EndTurn, Between, Quiet

LEMMA ReadQueryFromClientInv ==
    ASSUME IInv, NEW c \in Client, ReadQueryFromClient(c)
    PROVE  IInv'
<1>1. LoopTypes' BY Parts DEF LoopTypes, ReadQueryFromClient
<1> QED BY <1>1, LoopStep DEF ReadQueryFromClient, Between, Quiet

LEMMA ReadClosedInv ==
    ASSUME IInv, NEW c \in Client, ReadClosed(c)
    PROVE  IInv'
<1>1. current # c BY BlockingConstants DEF ReadClosed, Between
<1> QED BY <1>1, FreeStep DEF ReadClosed, Between, Quiet

LEMMA CronFreeInv ==
    ASSUME IInv, NEW c \in Client, CronFree(c)
    PROVE  IInv'
<1>1. current # c BY BlockingConstants DEF CronFree, Between
<1> QED BY <1>1, FreeStep DEF CronFree, Between, Quiet

LEMMA CronTimeoutInv ==
    ASSUME IInv, NEW c \in Client, CronTimeout(c)
    PROVE  IInv'
<1>1. /\ blocking' = BlockingWithout(c) /\ bpop' = [bpop EXCEPT ![c] = NoBpop]
      /\ flags' = [flags EXCEPT ![c] = (@ \ {"BLOCKED"}) \cup {"UNBLOCKED"}]
      /\ unblocked' = Append(unblocked, c) /\ turn' = {}
      /\ UNCHANGED <<dataset, replica, pushed, gone, alive, ready, readyset, batch, serve,
                     current, exec, phase>>
      /\ batch = <<>> /\ serve = NoServe
  BY DEF CronTimeout, UnblockClientWaitingData, Between, Quiet
<1>2. WaitInv /\ LoopTypes BY Parts
<1>3. flags' = [flags EXCEPT ![c] = {"UNBLOCKED"}] BY <1>1, <1>2 DEF WaitInv, WaitTypes
<1>4. WaitInv' /\ \A x \in ListKey : blocking'[x] # <<>> => blocking[x] # <<>>
  BY <1>1, <1>2, <1>3, ForgetClient
<1>5. LoopTypes' BY <1>1, <1>2, AppendProperties DEF LoopTypes
<1>6. DataInv' BY <1>1, Parts, SameData
<1>7. QueueInv' BY <1>1, Parts, SameQueue
<1>8. Service' BY <1>1, Parts DEF Service
<1>9. Noticed' BY <1>1, <1>4, Parts DEF Noticed
<1> QED BY <1>4, <1>5, <1>6, <1>7, <1>8, <1>9, Parts, PTL

-----------------------------------------------------------------------------
(* The invariant holds *)

LEMMA InitInv == BlInit => IInv
<1> SUFFICES ASSUME BlInit PROVE IInv OBVIOUS
<1>1. \A S : <<>> \in Seq(S) BY EmptySeq
<1>2. Listed(<<>>) = {} /\ Distinct(<<>>) BY DEF Listed, Distinct
<1>3. Empty \in Dataset BY <1>1 DEF Empty, Dataset
<1>4. WaitInv
  <2>1. WaitTypes BY <1>1 DEF BlInit, WaitTypes, NoBpop, Where
  <2>2. BlockIndex BY <1>2 DEF BlInit, BlockIndex, NoBpop
  <2> QED BY <2>1, <2>2 DEF WaitInv
<1>5. DataInv
  <2>1. DataTypes BY <1>3, BlockingConstants DEF BlInit, DataTypes
  <2>2. \A k \in ListKey : Empty.list[k] = <<>> BY DEF Empty
  <2>3. 1..0 = {} OBVIOUS
  <2>4. Once(Empty, {}, 0) BY <1>2, <2>2, <2>3 DEF Once
  <2>5. EachValueOnce BY <2>4, OnceIsEachValueOnce DEF BlInit
  <2> QED BY <2>1, <2>5 DEF BlInit, DataInv, ReplicaAgrees
<1>6. QueueInv
  <2>1. KeyTypes BY <1>1 DEF BlInit, KeyTypes, NoServe
  <2>2. <<>> \o <<>> = <<>> BY <1>1, ConcatEmptySeq
  <2>3. ReadyOnce BY <1>2, <2>2 DEF BlInit, ReadyOnce
  <2> QED BY <2>1, <2>3 DEF QueueInv
<1>7. LoopTypes BY <1>1 DEF BlInit, LoopTypes
<1>8. Service /\ Noticed BY DEF BlInit, Service, Noticed
<1> QED BY <1>4, <1>5, <1>6, <1>7, <1>8, Parts

LEMMA CommandInv ==
    ASSUME IInv, NEW c \in Client, Command(c)
    PROVE  IInv'
BY PushGenericCommandInv, PopGenericCommandInv, RpoplpushCommandInv,
   BrpoplpushCommandInv, DelCommandInv, SetCommandInv, BlockingPopGenericCommandInv,
   KillCommandInv, ExecInv
   DEF Command

LEMMA StutterInv ==
    ASSUME IInv, UNCHANGED blVars
    PROVE  IInv'
<1>1. UNCHANGED <<dataset, replica, pushed, gone, alive, flags, bpop, blocking, ready,
                  readyset, batch, serve, unblocked, current, exec, phase, turn>>
  BY DEF blVars
<1>2. LoopTypes' BY <1>1, Parts, SameLoop
<1>3. batch # <<>> => ~exec' BY <1>1, Parts DEF Service
<1> QED BY <1>1, <1>2, <1>3, LoopStep

LEMMA StepInv == IInv /\ [BlNext]_blVars => IInv'
<1> SUFFICES ASSUME IInv, [BlNext]_blVars PROVE IInv' OBVIOUS
<1>1. CASE \E c \in Client : Command(c) BY <1>1, CommandInv
<1>2. CASE ExecEnd BY <1>2, ExecInv
<1>3. CASE Handle
  BY <1>3, HandleBeginInv, HandleKeyInv, ServeClientBlockedOnListInv, HandleKeyDoneInv
     DEF Handle
<1>4. CASE BeforeSleepResume \/ Poll \/ InputDone \/ EndTurn
  BY <1>4, BeforeSleepResumeInv, PollInv, InputDoneInv, EndTurnInv
<1>5. CASE \E c \in Client : ReadQueryFromClient(c) \/ ReadClosed(c)
                             \/ CronTimeout(c) \/ CronFree(c)
  BY <1>5, ReadQueryFromClientInv, ReadClosedInv, CronTimeoutInv, CronFreeInv
<1>6. CASE UNCHANGED blVars BY <1>6, StutterInv
<1> QED BY <1>1, <1>2, <1>3, <1>4, <1>5, <1>6 DEF BlNext

LEMMA Inductive == BlSpec => []IInv
BY InitInv, StepInv, PTL DEF BlSpec

-----------------------------------------------------------------------------
(* The theorems *)

\* Every variable keeps its type; in particular the client whose input is
\* processed is never freed meanwhile.
THEOREM TypeCorrect == BlSpec => []TypeOK
<1>1. IInv => TypeOK BY DEF IInv
<1> QED BY <1>1, Inductive, PTL

\* The two sides of the blocking index agree, whatever blocks, is served,
\* times out, is killed or disconnects.
THEOREM BlockIndexHolds == BlSpec => []BlockIndex
<1>1. IInv => BlockIndex BY DEF IInv
<1> QED BY <1>1, Inductive, PTL

\* The keys to be handled are those marked as ready, each once.
THEOREM ReadyOnceHolds == BlSpec => []ReadyOnce
<1>1. IInv => ReadyOnce BY DEF IInv
<1> QED BY <1>1, Inductive, PTL

\* No client is left waiting for a list that has elements.
THEOREM NoIdleWaiterHolds == BlSpec => []NoIdleWaiter
<1>1. IInv => NoIdleWaiter BY DEF IInv, Noticed, NoIdleWaiter, Quiet, Listed
<1> QED BY <1>1, Inductive, PTL

\* No pushed value is lost, doubled or delivered twice.
THEOREM EachValueOnceHolds == BlSpec => []EachValueOnce
<1>1. IInv => EachValueOnce BY DEF IInv
<1> QED BY <1>1, Inductive, PTL

\* What is propagated for the blocking commands gives the same dataset.
THEOREM ReplicaAgreesHolds == BlSpec => []ReplicaAgrees
<1>1. IInv => ReplicaAgrees BY DEF IInv
<1> QED BY <1>1, Inductive, PTL

\* One step of the service unblocks a client or has less left to do.
LEMMA HandleDecreases ==
    ASSUME IInv, Handle
    PROVE  \/ Blocked' \subseteq Blocked /\ Blocked' # Blocked
           \/ Blocked' = Blocked /\ Left' < Left
<1>1. KeyTypes /\ Service /\ WaitTypes BY Parts DEF QueueInv, WaitInv
<1>2. /\ batch \in Seq(ListKey) /\ ready \in Seq(ListKey)
      /\ Len(batch) \in Nat /\ Len(ready) \in Nat
      /\ ready # <<>> => Len(ready) # 0
      /\ batch # <<>> => Len(batch) # 0 /\ Len(Tail(batch)) = Len(batch) - 1
      /\ Len(<<>>) = 0
  BY <1>1, LenProperties, EmptySeq, HeadTailProperties DEF KeyTypes
<1>3. CASE HandleBegin
  <2>1. Blocked' = Blocked BY <1>3 DEF HandleBegin, Blocked
  <2>2. /\ serve = NoServe /\ serve' = NoServe /\ batch = <<>> /\ batch' = ready
        /\ ready' = <<>> /\ ready # <<>>
    BY <1>3 DEF HandleBegin
  <2>3. Left = 3 * Len(ready) /\ Left' = 2 * Len(ready)
    BY <1>2, <2>2 DEF Left, NoServe
  <2> QED BY <1>2, <2>1, <2>2, <2>3
<1>4. CASE HandleKey
  <2>1. Blocked' = Blocked BY <1>4 DEF HandleKey, Blocked
  <2>2. Head(batch) \in ListKey BY <1>1, <1>4, PendingTail DEF HandleKey
  <2>3. Left = 3 * Len(ready) + 2 * Len(batch) BY <1>2, <1>4 DEF HandleKey, Left
  <2>4. CASE batch' = Tail(batch) /\ serve' = serve
    <3>1. Left' = 3 * Len(ready) + 2 * (Len(batch) - 1)
      BY <1>2, <1>4, <2>4 DEF HandleKey, Left, NoServe
    <3> QED BY <1>2, <2>1, <2>3, <3>1
  <2>5. CASE batch' = batch /\ serve' = [key |-> Head(batch), left |-> Waiting(Head(batch))]
    <3>1. serve' # NoServe BY <2>2, <2>5, BlockingConstants DEF NoServe
    <3>2. Left' = 3 * Len(ready) + 2 * Len(batch) - 1
      BY <1>2, <1>4, <2>5, <3>1 DEF HandleKey, Left, NoServe
    <3> QED BY <1>2, <2>1, <2>3, <3>2
  <2> QED BY <1>4, <2>4, <2>5 DEF HandleKey
<1>5. CASE ServeClientBlockedOnList
  <2> DEFINE c == Head(blocking[serve.key])
  <2>1. c \in Client /\ serve.key \in bpop[c].keys BY <1>5, ServedClient
  <2>2. bpop' = [bpop EXCEPT ![c] = NoBpop]
    BY <1>5 DEF ServeClientBlockedOnList, UnblockClientWaitingData
  <2> HIDE DEF c
  <2>3. c \in Blocked BY <2>1 DEF Blocked
  <2>4. bpop'[c].keys = {} /\ \A x \in Client : x # c => bpop'[x] = bpop[x]
    BY <1>1, <2>1, <2>2 DEF WaitTypes, NoBpop
  <2>5. c \notin Blocked' BY <2>4 DEF Blocked
  <2>6. Blocked' \subseteq Blocked BY <2>4 DEF Blocked
  <2> QED BY <2>3, <2>5, <2>6
<1>6. CASE HandleKeyDone
  <2>1. Blocked' = Blocked BY <1>6 DEF HandleKeyDone, Blocked
  <2>2. /\ serve # NoServe /\ serve' = NoServe /\ batch # <<>> /\ batch' = Tail(batch)
        /\ ready' = ready
    BY <1>1, <1>6 DEF HandleKeyDone, Service
  <2>3. Left = 3 * Len(ready) + 2 * Len(batch) - 1 BY <2>2 DEF Left
  <2>4. Left' = 3 * Len(ready) + 2 * (Len(batch) - 1)
    BY <1>2, <2>2 DEF Left, NoServe
  <2> QED BY <1>2, <2>1, <2>3, <2>4
<1> QED BY <1>3, <1>4, <1>5, <1>6 DEF Handle

\* handleClientsBlockedOnLists ends: each turn of its loops unblocks a client,
\* of which none is blocked meanwhile, or leaves less to go through.
THEOREM HandleEndsHolds == BlSpec => HandleEnds
<1>1. IInv /\ [BlNext]_blVars =>
          [Handle => \/ Blocked' \subseteq Blocked /\ Blocked' # Blocked
                     \/ Blocked' = Blocked /\ Left' < Left]_blVars
  BY HandleDecreases
<1> QED BY <1>1, Inductive, PTL DEF BlSpec, HandleEnds
=============================================================================
