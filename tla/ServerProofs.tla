---------------------------- MODULE ServerProofs ----------------------------
(***************************************************************************)
(* Proofs about two parts of the server: the keyspace, its slave and its   *)
(* append only file (Keyspace), for all databases, keys, commands and      *)
(* scenarios, and the threads of Bio for every set of job types and any    *)
(* number of jobs.                                                         *)
(***************************************************************************)
EXTENDS Bio, Keyspace, SequenceTheorems, FiniteSetTheorems, WellFoundedInduction, TLAPS

(* Folds.  A fold over a sequence of n elements is a function of the sets  *)
(* of positions; stages gives its value after each of the positions 1..n.  *)

\* A set of numbers has a least one.
LEMMA LeastNumber ==
    ASSUME NEW S \in SUBSET Nat, S # {}
    PROVE  \E m \in S : \A x \in S : m <= x
<1>1. PICK m \in S : \A x \in S : ~ (<<x, m>> \in OpToRel(<, Nat))
  BY WFMin, NatLessThanWellFounded
<1>2. \A x \in S : ~ (x < m) BY <1>1 DEF OpToRel
<1> QED BY <1>2

\* Induction, for sets of numbers.
LEMMA NatSet ==
    ASSUME NEW P \in SUBSET Nat, 0 \in P, \A n \in P : n + 1 \in P
    PROVE  P = Nat
<1> SUFFICES ASSUME Nat \ P # {} PROVE FALSE OBVIOUS
<1>1. PICK m \in Nat \ P : \A x \in Nat \ P : m <= x BY LeastNumber
<1>3. m # 0 /\ m - 1 \in Nat OBVIOUS
<1>4. m - 1 \in P BY <1>1, <1>3
<1>5. (m - 1) + 1 \in P BY <1>4
<1> QED BY <1>5

\* The greatest position.
LEMMA MaxInterval ==
    ASSUME NEW n \in Nat \ {0}, NEW S \in SUBSET (1..n), n \in S
    PROVE  Max(S) = n
<1>1. \A y \in S : n >= y OBVIOUS
<1>2. \A x \in S : (\A y \in S : x >= y) => x = n OBVIOUS
<1> QED BY <1>1, <1>2 DEF Max

\* A set of positions has a greatest one.
LEMMA MaxIn ==
    ASSUME NEW n \in Nat, NEW S \in SUBSET (1..n), S # {}
    PROVE  Max(S) \in S /\ \A y \in S : y <= Max(S)
<1> DEFINE U == {x \in Nat : \E y \in S : x = n - y}
<1>1. U # {}
  <2>1. PICK y \in S : TRUE OBVIOUS
  <2>2. n - y \in Nat OBVIOUS
  <2> QED BY <2>2
<1>2. PICK m \in U : \A x \in U : m <= x BY <1>1, LeastNumber
<1>4. PICK z \in S : m = n - z OBVIOUS
<1>5. \A y \in S : z >= y
  <2> SUFFICES ASSUME NEW y \in S PROVE z >= y OBVIOUS
  <2>1. n - y \in U OBVIOUS
  <2>2. n - z <= n - y BY <1>2, <1>4, <2>1
  <2> QED BY <2>2
<1>6. Max(S) \in S /\ \A y \in S : Max(S) >= y BY <1>5 DEF Max
<1> QED BY <1>6

\* g is a fold over the sets of positions up to m: step[i] is what is done at
\* position i.
FoldRule(g, m, base, step) ==
    \A s \in SUBSET (1..m) :
        g[s] = IF s = {} THEN base ELSE step[Max(s)][g[s \ {Max(s)}]]

\* A fold exists.
LEMMA FoldExists ==
    ASSUME NEW n \in Nat, NEW T, NEW base \in T, NEW step \in [1..n -> [T -> T]]
    PROVE  \E g \in [SUBSET (1..n) -> T] : FoldRule(g, n, base, step)
<1> DEFINE Has(m) == \E g \in [SUBSET (1..m) -> T] : FoldRule(g, m, base, step)
           P == {m \in Nat : m <= n => Has(m)}
<1>1. 0 \in P
  <2> DEFINE g == [s \in SUBSET (1..0) |-> base]
  <2>1. \A s \in SUBSET (1..0) : s = {} OBVIOUS
  <2>2. FoldRule(g, 0, base, step) BY <2>1 DEF FoldRule
  <2>3. g \in [SUBSET (1..0) -> T] OBVIOUS
  <2> QED BY <2>2, <2>3
<1>2. ASSUME NEW m \in P PROVE m + 1 \in P
  <2> HIDE DEF Has
  <2> SUFFICES ASSUME m + 1 <= n PROVE Has(m + 1) OBVIOUS
  <2>1. m \in Nat /\ m <= n /\ Has(m) OBVIOUS
  <2> USE DEF Has
  <2>0. PICK g \in [SUBSET (1..m) -> T] : FoldRule(g, m, base, step) BY <2>1
  <2> HIDE DEF P, Has
  <2> DEFINE k == m + 1
             e(s) == IF k \in s THEN step[k][g[s \ {k}]] ELSE g[s]
             h == [s \in SUBSET (1..k) |-> e(s)]
  <2>2. k \in 1..n /\ k \in Nat \ {0} BY <2>1
  <2>3. ASSUME NEW s \in SUBSET (1..k), k \in s
        PROVE  /\ Max(s) = k /\ s \ {k} \in SUBSET (1..m)
               /\ h[s] = step[k][h[s \ {k}]] /\ h[s] \in T
    <3>1. Max(s) = k BY <2>2, <2>3, MaxInterval
    <3>2. s \ {k} \in SUBSET (1..m) /\ s \ {k} \in SUBSET (1..k) BY <2>1, <2>3
    <3>3. h[s] = step[k][g[s \ {k}]] BY <2>3
    <3>4. h[s \ {k}] = g[s \ {k}] BY <3>2
    <3>5. step[k] \in [T -> T] /\ g[s \ {k}] \in T BY <2>2, <3>2
    <3> QED BY <3>1, <3>2, <3>3, <3>4, <3>5
  <2>4. ASSUME NEW s \in SUBSET (1..k), k \notin s
        PROVE  /\ s \in SUBSET (1..m) /\ h[s] = g[s] /\ h[s] \in T
               /\ s # {} => /\ Max(s) \in s /\ s \ {Max(s)} \in SUBSET (1..m)
                            /\ h[s \ {Max(s)}] = g[s \ {Max(s)}]
    <3>1. s \in SUBSET (1..m) BY <2>1, <2>4
    <3>2. s \ {Max(s)} \in SUBSET (1..m) /\ s \ {Max(s)} \in SUBSET (1..k)
          /\ k \notin s \ {Max(s)}
      BY <2>1, <2>4, <3>1
    <3>3. h[s] = g[s] /\ h[s] \in T BY <2>4, <3>1
    <3>4. h[s \ {Max(s)}] = g[s \ {Max(s)}] BY <3>2
    <3>5. s # {} => Max(s) \in s BY <2>1, <3>1, MaxIn
    <3> QED BY <3>1, <3>2, <3>3, <3>4, <3>5
  <2>5. FoldRule(h, k, base, step)
    <3> SUFFICES ASSUME NEW s \in SUBSET (1..k)
                 PROVE  h[s] = IF s = {} THEN base
                               ELSE step[Max(s)][h[s \ {Max(s)}]]
      BY DEF FoldRule
    <3> HIDE DEF h
    <3>1. CASE k \in s BY <3>1, <2>3
    <3>2. CASE k \notin s BY <3>2, <2>4, <2>0 DEF FoldRule
    <3> QED BY <3>1, <3>2
  <2>6. h \in [SUBSET (1..k) -> T]
    <3>1. \A s \in SUBSET (1..k) : e(s) \in T BY <2>3, <2>4
    <3> HIDE DEF e
    <3> QED BY <3>1
  <2> QED BY <2>5, <2>6 DEF Has
<1> HIDE DEF Has
<1>3. P = Nat BY <1>1, <1>2, NatSet
<1>4. Has(n) BY <1>3
<1> QED BY <1>4 DEF Has

\* g obeys the rule as far as its values are in T.
FoldGoes(g, n, T, base, step) ==
    /\ g[{}] = base
    /\ \A s \in SUBSET (1..n) : s # {} /\ g[s \ {Max(s)}] \in T =>
            g[s] = step[Max(s)][g[s \ {Max(s)}]]

\* Such a function at the first k positions.
FoldSteps(g, n, T, step) ==
    /\ \A k \in 1..n : g[1..k] = step[k][g[1..(k - 1)]]
    /\ \A k \in 0..n : g[1..k] \in T

\* Its value at the first positions is the value before and one step.
LEMMA FoldStages ==
    ASSUME NEW n \in Nat, NEW T, NEW base \in T, NEW step \in [1..n -> [T -> T]],
           NEW g, FoldGoes(g, n, T, base, step)
    PROVE  FoldSteps(g, n, T, step)
<1>1. g[{}] = base BY DEF FoldGoes
<1>2. 1..0 = {} OBVIOUS
<1>3. ASSUME NEW k \in 1..n, g[1..(k - 1)] \in T
      PROVE  g[1..k] = step[k][g[1..(k - 1)]]
  <2>1. 1..k \in SUBSET (1..n) /\ 1..k \in SUBSET (1..k) /\ k \in 1..k
        /\ k \in Nat \ {0}
    OBVIOUS
  <2>2. Max(1..k) = k BY <2>1, MaxInterval
  <2>3. (1..k) \ {k} = 1..(k - 1) OBVIOUS
  <2>4. 1..k # {} BY <2>1
  <2> QED BY <1>3, <2>1, <2>2, <2>3, <2>4 DEF FoldGoes
<1> DEFINE P == {k \in Nat : k <= n => g[1..k] \in T}
<1>4. 0 \in P BY <1>1, <1>2
<1>5. ASSUME NEW k \in P PROVE k + 1 \in P
  <2> SUFFICES ASSUME k + 1 <= n PROVE g[1..(k + 1)] \in T OBVIOUS
  <2>1. k \in Nat /\ k + 1 \in 1..n /\ (k + 1) - 1 = k /\ g[1..k] \in T OBVIOUS
  <2>2. g[1..(k + 1)] = step[k + 1][g[1..k]] BY <1>3, <2>1
  <2>3. step[k + 1] \in [T -> T] BY <2>1
  <2> QED BY <2>1, <2>2, <2>3
<1>6. P = Nat BY <1>4, <1>5, NatSet
<1>7. \A k \in 0..n : g[1..k] \in T
  <2> SUFFICES ASSUME NEW k \in 0..n PROVE g[1..k] \in T OBVIOUS
  <2>1. k \in P BY <1>6
  <2> QED BY <2>1
<1>8. \A k \in 1..n : g[1..k] = step[k][g[1..(k - 1)]]
  <2> SUFFICES ASSUME NEW k \in 1..n PROVE g[1..k] = step[k][g[1..(k - 1)]] OBVIOUS
  <2>1. k - 1 \in 0..n OBVIOUS
  <2> QED BY <1>3, <1>7, <2>1
<1> QED BY <1>7, <1>8 DEF FoldSteps


\* The stages of a fold that goes.
Taken(h, n, T, base, step) ==
    \E f \in [0..n -> T] :
        /\ f[0] = base /\ f[n] = h[1..n]
        /\ \A k \in 1..n : f[k] = step[k][f[k - 1]]

\* The values of a fold, one after each position.
LEMMA FoldTaken ==
    ASSUME NEW n \in Nat, NEW T, NEW base \in T, NEW step \in [1..n -> [T -> T]],
           NEW h, FoldGoes(h, n, T, base, step)
    PROVE  Taken(h, n, T, base, step)
<1> DEFINE f == [k \in 0..n |-> h[1..k]]
<1>1. FoldSteps(h, n, T, step) BY FoldStages
<1>2. f \in [0..n -> T] BY <1>1 DEF FoldSteps
<1>3. 1..0 = {} /\ h[{}] = base BY DEF FoldGoes
<1>4. f[0] = base /\ f[n] = h[1..n] BY <1>3
<1>5. ASSUME NEW k \in 1..n PROVE f[k] = step[k][f[k - 1]]
  <2>1. k \in 0..n /\ k - 1 \in 0..n OBVIOUS
  <2> QED BY <1>1, <2>1 DEF FoldSteps
<1> QED BY <1>2, <1>4, <1>5 DEF Taken

\* The elements of a finite set, each at one place of a sequence.
LEMMA SetToSeqIs ==
    ASSUME NEW S, IsFiniteSet(S)
    PROVE  /\ SetToSeq(S) \in Seq(S)
           /\ Len(SetToSeq(S)) = Cardinality(S)
           /\ \A i, j \in 1..Len(SetToSeq(S)) : SetToSeq(S)[i] = SetToSeq(S)[j] => i = j
           /\ \A x \in S : \E i \in 1..Len(SetToSeq(S)) : SetToSeq(S)[i] = x
<1> DEFINE n == Cardinality(S)
           f == SetToSeq(S)
<1>1. n \in Nat /\ ExistsBijection(1..n, S) BY FS_CardinalityType
<1>2. PICK g \in Bijection(1..n, S) : TRUE BY <1>1 DEF ExistsBijection
<1>3. g \in [1..n -> S] /\ IsInjective(g)
  BY <1>2 DEF Bijection, Injection
<1>4. f \in [1..n -> S] /\ IsInjective(f) BY <1>3 DEF SetToSeq
<1>5. f \in Seq(S) /\ Len(f) = n
  <2> HIDE DEF f, n
  <2> QED BY <1>1, <1>4, SeqDef
<1>6. f \in Injection(1..n, S) BY <1>4 DEF Injection
<1>7. IsFiniteSet(1..n) /\ Cardinality(1..n) = n
  <2> HIDE DEF n
  <2> QED BY <1>1, FS_Interval
<1>8. f \in Surjection(1..n, S) BY <1>6, <1>7, FS_Injection
<1>9. \A x \in S : \E i \in 1..n : f[i] = x BY <1>8 DEF Surjection
<1> HIDE DEF f, n
<1>10. \A i, j \in 1..n : f[i] = f[j] => i = j BY <1>4 DEF IsInjective
<1> QED BY <1>5, <1>9, <1>10 DEF f, n
-----------------------------------------------------------------------------
(* Datasets (Keyspace) *)

Dataset == [val : [Cell -> Value], exp : [Cell -> Nat \cup {Never}]]
D(s) == [val |-> s.val, exp |-> s.exp]

\* Those that are propagated.
Sendable == {c \in Command : c.op # "incrbyfloat" /\ (c.op = "expire" => c.ttl > 0)}

\* A time belongs to a key.
Timely(v) == \A x \in Cell : v.exp[x] # Never => v.val[x] # None

\* The cell x of dataset v is given value a and time e.
With(v, x, a, e) == [val |-> [v.val EXCEPT ![x] = a], exp |-> [v.exp EXCEPT ![x] = e]]
Erased(v, x) == With(v, x, None, Never)

\* What a command does at time t to a dataset where nothing expires.
Applied(v, c, t) ==
    LET x == c.x
        y == c.y
        old == v.val[c.x]
        sum == (IF old = None THEN 0 ELSE old) + c.v
    IN  CASE c.op \in {"set", "setex"} ->
               IF (c.opt = "nx" /\ old # None) \/ (c.opt = "xx" /\ old = None) THEN v
               ELSE With(v, x, c.v, IF c.ttl = 0 THEN Never ELSE t + c.ttl)
          [] c.op = "getset" -> With(v, x, c.v, Never)
          [] c.op \in {"incr", "append"} ->
               IF sum > MaxValue THEN v ELSE With(v, x, sum, v.exp[x])
          [] c.op = "setrange" ->
               IF c.v = 0 THEN v ELSE With(v, x, Max({old, c.v} \ {None}), v.exp[x])
          [] c.op = "mset" ->
               IF c.opt = "nx" /\ (old # None \/ v.val[y] # None) THEN v
               ELSE With(With(v, x, c.v, Never), y, c.v, Never)
          [] c.op = "del" -> Erased(Erased(v, x), y)
          [] c.op = "rename" ->
               IF old = None \/ (v.val[y] # None /\ c.opt = "nx") THEN v
               ELSE Erased(With(v, y, old, v.exp[x]), x)
          [] c.op = "move" ->
               IF old = None \/ v.val[y] # None THEN v
               ELSE Erased(With(v, y, old, v.exp[y]), x)
          [] c.op = "expire" ->
               IF old = None THEN v
               ELSE With(v, x, old, IF c.opt = "at" THEN c.ttl ELSE t + c.ttl)
          [] c.op = "persist" -> With(v, x, old, Never)
          [] c.op = "restore" ->
               IF old # None THEN v
               ELSE With(v, x, c.v, IF c.ttl = 0 THEN v.exp[x] ELSE t + c.ttl)
          [] c.op = "flushdb" ->
               [val |-> [z \in Cell |-> IF z[1] = x[1] THEN None ELSE v.val[z]],
                exp |-> [z \in Cell |-> IF z[1] = x[1] THEN Never ELSE v.exp[z]]]
          [] c.op = "flushall" ->
               [val |-> [z \in Cell |-> None], exp |-> [z \in Cell |-> Never]]
          [] OTHER -> v

\* A cell that is given a value and a time; the others stay.
LEMMA WithIs ==
    ASSUME NEW v \in Dataset, NEW x \in Cell, NEW a \in Value, NEW e \in Nat \cup {Never}
    PROVE  /\ With(v, x, a, e) \in Dataset
           /\ \A z \in Cell :
                /\ With(v, x, a, e).val[z] = IF z = x THEN a ELSE v.val[z]
                /\ With(v, x, a, e).exp[z] = IF z = x THEN e ELSE v.exp[z]
BY DEF With, Dataset

\* A time is given with a value.
LEMMA WithTimely ==
    ASSUME NEW v \in Dataset, NEW x \in Cell, NEW a \in Value, NEW e \in Nat \cup {Never},
           Timely(v), e # Never => a # None
    PROVE  Timely(With(v, x, a, e))
BY WithIs DEF Timely

\* Two datasets that agree everywhere are the same.
LEMMA SameDataset ==
    ASSUME NEW v \in Dataset, NEW w \in Dataset,
           \A z \in Cell : v.val[z] = w.val[z] /\ v.exp[z] = w.exp[z]
    PROVE  v = w
<1>1. v.val = w.val BY DEF Dataset
<1>2. v.exp = w.exp BY DEF Dataset
<1> QED BY <1>1, <1>2 DEF Dataset

\* The longer of two lengths.
LEMMA MaxOfTwo ==
    ASSUME NEW a \in Value, NEW b \in Int
    PROVE  Max({a, b} \ {None}) \in Int
<1>1. None \notin Int BY KeyspaceConstants
<1>2. CASE a = None
  <2>1. {a, b} \ {None} = {b} BY <1>1, <1>2
  <2>2. \A z \in {b} : (\A y \in {b} : z >= y) => z = b OBVIOUS
  <2>3. \A y \in {b} : b >= y OBVIOUS
  <2> QED BY <2>1, <2>2, <2>3 DEF Max
<1>3. CASE a # None
  <2>1. {a, b} \ {None} = {a, b} /\ a \in Int BY <1>1, <1>3 DEF Value
  <2>2. \E z \in {a, b} : \A y \in {a, b} : z >= y
    <3>1. CASE a >= b BY <2>1, <3>1
    <3>2. CASE ~(a >= b) BY <2>1, <3>2
    <3> QED BY <3>1, <3>2
  <2> QED BY <2>1, <2>2 DEF Max
<1> QED BY <1>2, <1>3

\* What is applied gives a dataset in which times belong to keys.
LEMMA AppliedType ==
    ASSUME NEW v \in Dataset, Timely(v), NEW c \in Sendable, NEW t \in Nat
    PROVE  Applied(v, c, t) \in Dataset /\ Timely(Applied(v, c, t))
<1> DEFINE w == Applied(v, c, t)
<1> USE DEF Never
<1>0. /\ c.x \in Cell /\ c.y \in Cell /\ c.v \in Int /\ c.ttl \in Int
      /\ c.op \in Ops \ {"incrbyfloat"}
      /\ c.op \in {"set", "restore"} => c.ttl >= 0
      /\ c.op \in {"setex", "expire"} => c.ttl > 0
  BY DEF Sendable, Command
<1>1. None \notin Int /\ None \in Value /\ Int \subseteq Value
  BY KeyspaceConstants DEF Value
<1>2. /\ v.val[c.x] \in Value /\ v.val[c.y] \in Value
      /\ v.exp[c.x] \in Nat \cup {Never} /\ v.exp[c.y] \in Nat \cup {Never}
      /\ v.val[c.x] = None => v.exp[c.x] = Never
      /\ v.val[c.y] = None => v.exp[c.y] = Never
  BY <1>0 DEF Dataset, Timely
<1> DEFINE Good(u) == u \in Dataset /\ Timely(u)
<1>3. \A u, z, a, e : Good(u) /\ z \in Cell /\ a \in Value /\ e \in Nat \cup {Never}
                       /\ (e # Never => a # None) => Good(With(u, z, a, e))
  BY WithIs, WithTimely
<1>4. \A u, z : Good(u) /\ z \in Cell => Good(Erased(u, z)) BY <1>1, <1>3 DEF Erased
<1>5. Good(v) OBVIOUS
<1> HIDE DEF Good
<1>6. CASE c.op \in {"set", "setex"}
  <2>1. (IF c.ttl = 0 THEN Never ELSE t + c.ttl) \in Nat \cup {Never} BY <1>0, <1>6
  <2>2. Good(With(v, c.x, c.v, IF c.ttl = 0 THEN Never ELSE t + c.ttl))
    BY <1>0, <1>1, <1>3, <1>5, <2>1
  <2> QED BY <1>5, <1>6, <2>2 DEF Applied, Good
<1>7. CASE c.op = "getset"
  <2>1. Good(With(v, c.x, c.v, Never)) BY <1>0, <1>1, <1>3, <1>5
  <2> QED BY <1>7, <2>1 DEF Applied, Good
<1>8. CASE c.op \in {"incr", "append"}
  <2> DEFINE sum == (IF v.val[c.x] = None THEN 0 ELSE v.val[c.x]) + c.v
  <2>1. sum \in Int BY <1>0, <1>2 DEF Value
  <2> HIDE DEF sum
  <2>2. Good(With(v, c.x, sum, v.exp[c.x])) BY <1>0, <1>1, <1>2, <1>3, <1>5, <2>1
  <2> QED BY <1>5, <1>8, <2>2 DEF Applied, sum, Good
<1>9. CASE c.op = "setrange"
  <2> DEFINE new == Max({v.val[c.x], c.v} \ {None})
  <2>1. new \in Int BY <1>0, <1>2, MaxOfTwo
  <2> HIDE DEF new
  <2>2. Good(With(v, c.x, new, v.exp[c.x])) BY <1>0, <1>1, <1>2, <1>3, <1>5, <2>1
  <2> QED BY <1>5, <1>9, <2>2 DEF Applied, new, Good
<1>10. CASE c.op = "mset"
  <2>1. Good(With(v, c.x, c.v, Never)) BY <1>0, <1>1, <1>3, <1>5
  <2>2. Good(With(With(v, c.x, c.v, Never), c.y, c.v, Never)) BY <1>0, <1>1, <1>3, <2>1
  <2> QED BY <1>5, <1>10, <2>2 DEF Applied, Good
<1>11. CASE c.op = "del"
  <2>1. Good(Erased(Erased(v, c.x), c.y)) BY <1>0, <1>4, <1>5
  <2> QED BY <1>11, <2>1 DEF Applied, Good
<1>12. CASE c.op = "rename" /\ v.val[c.x] # None
  <2>1. Good(With(v, c.y, v.val[c.x], v.exp[c.x])) BY <1>0, <1>2, <1>3, <1>5, <1>12
  <2>2. Good(Erased(With(v, c.y, v.val[c.x], v.exp[c.x]), c.x)) BY <1>0, <1>4, <2>1
  <2> QED BY <1>5, <1>12, <2>2 DEF Applied, Good
<1>13. CASE c.op = "move" /\ v.val[c.x] # None
  <2>1. Good(With(v, c.y, v.val[c.x], v.exp[c.y])) BY <1>0, <1>2, <1>3, <1>5, <1>13
  <2>2. Good(Erased(With(v, c.y, v.val[c.x], v.exp[c.y]), c.x)) BY <1>0, <1>4, <2>1
  <2> QED BY <1>5, <1>13, <2>2 DEF Applied, Good
<1>14. CASE c.op = "expire" /\ v.val[c.x] # None
  <2> DEFINE when == IF c.opt = "at" THEN c.ttl ELSE t + c.ttl
  <2>1. when \in Nat BY <1>0, <1>14
  <2> HIDE DEF when
  <2>2. Good(With(v, c.x, v.val[c.x], when)) BY <1>0, <1>2, <1>3, <1>5, <1>14, <2>1
  <2> QED BY <1>14, <2>2 DEF Applied, when, Good
<1>15. CASE c.op = "persist"
  <2>1. Good(With(v, c.x, v.val[c.x], Never)) BY <1>0, <1>2, <1>3, <1>5
  <2> QED BY <1>15, <2>1 DEF Applied, Good
<1>16. CASE c.op = "restore"
  <2> DEFINE when == IF c.ttl = 0 THEN v.exp[c.x] ELSE t + c.ttl
  <2>1. when \in Nat \cup {Never} BY <1>0, <1>2, <1>16
  <2> HIDE DEF when
  <2>2. Good(With(v, c.x, c.v, when)) BY <1>0, <1>1, <1>3, <1>5, <2>1
  <2> QED BY <1>5, <1>16, <2>2 DEF Applied, when, Good
<1>17. CASE c.op \in {"flushdb", "flushall"}
  <2>1. w \in Dataset
    <3>1. CASE c.op = "flushdb" BY <1>1, <3>1 DEF Applied, Dataset
    <3>2. CASE c.op = "flushall" BY <1>1, <3>2 DEF Applied, Dataset
    <3> QED BY <1>17, <3>1, <3>2
  <2>2. Timely(w)
    <3>1. CASE c.op = "flushdb" BY <3>1 DEF Applied, Timely
    <3>2. CASE c.op = "flushall" BY <3>2 DEF Applied, Timely
    <3> QED BY <1>17, <3>1, <3>2
  <2> QED BY <2>1, <2>2
<1>18. CASE c.op \in {"keys", "get"} \/ (c.op \in {"rename", "move", "expire"} /\ v.val[c.x] = None)
  BY <1>5, <1>18 DEF Applied, Good
<1> QED BY <1>0, <1>6, <1>7, <1>8, <1>9, <1>10, <1>11, <1>12, <1>13, <1>14, <1>15,
           <1>16, <1>17, <1>18 DEF Ops

\* a has the keys and values of b, and the same keys have a time, that is not
\* earlier.
Follows(a, b) ==
    /\ a.val = b.val
    /\ \A z \in Cell : a.exp[z] >= b.exp[z] /\ (b.exp[z] = Never => a.exp[z] = Never)

\* The same cell on both sides, with no earlier a time.
LEMMA FollowsWith ==
    ASSUME NEW a \in Dataset, NEW b \in Dataset, Follows(a, b), NEW x \in Cell,
           NEW u \in Value, NEW e \in Nat \cup {Never}, NEW f \in Nat \cup {Never},
           e >= f, f = Never => e = Never
    PROVE  Follows(With(a, x, u, e), With(b, x, u, f))
<1>1. With(a, x, u, e).val = With(b, x, u, f).val BY DEF With, Follows
<1>2. ASSUME NEW z \in Cell
      PROVE  /\ With(a, x, u, e).exp[z] >= With(b, x, u, f).exp[z]
             /\ With(b, x, u, f).exp[z] = Never => With(a, x, u, e).exp[z] = Never
  BY <1>2, WithIs DEF Follows
<1> QED BY <1>1, <1>2 DEF Follows

\* A command that is executed later gives later times and the same values.
LEMMA AppliedFollows ==
    ASSUME NEW a \in Dataset, NEW b \in Dataset, Follows(a, b), Timely(a), Timely(b),
           NEW c \in Sendable, NEW t \in Nat, NEW s \in Nat, s >= t
    PROVE  Follows(Applied(a, c, s), Applied(b, c, t))
<1> USE DEF Never
<1> DEFINE x == c.x
           y == c.y
<1>0. /\ x \in Cell /\ y \in Cell /\ c.v \in Int /\ c.ttl \in Int
      /\ c.op \in Ops \ {"incrbyfloat"}
      /\ c.op \in {"set", "restore"} => c.ttl >= 0
      /\ c.op \in {"setex", "expire"} => c.ttl > 0
  BY DEF Sendable, Command
<1>1. None \notin Int /\ None \in Value /\ Int \subseteq Value
  BY KeyspaceConstants DEF Value
<1>2. /\ a.val = b.val /\ a.val[x] \in Value /\ a.val[y] \in Value
      /\ \A z \in Cell :
            /\ a.exp[z] \in Nat \cup {Never} /\ b.exp[z] \in Nat \cup {Never}
            /\ a.exp[z] >= b.exp[z] /\ (b.exp[z] = Never => a.exp[z] = Never)
  BY <1>0 DEF Dataset, Follows
<1> DEFINE Pair(u, w) == u \in Dataset /\ w \in Dataset /\ Follows(u, w)
<1>3. \A u, w, z, k, e, f :
        Pair(u, w) /\ z \in Cell /\ k \in Value /\ e \in Nat \cup {Never}
        /\ f \in Nat \cup {Never} /\ e >= f /\ (f = Never => e = Never)
        => Pair(With(u, z, k, e), With(w, z, k, f))
  BY FollowsWith, WithIs
<1>4. \A u, w, z : Pair(u, w) /\ z \in Cell => Pair(Erased(u, z), Erased(w, z))
  BY <1>1, <1>3 DEF Erased
<1>5. Pair(a, b) OBVIOUS
<1> HIDE DEF Pair, x, y
<1>6. CASE c.op \in {"set", "setex"}
  <2> DEFINE e == IF c.ttl = 0 THEN Never ELSE s + c.ttl
             f == IF c.ttl = 0 THEN Never ELSE t + c.ttl
  <2>1. e \in Nat \cup {Never} /\ f \in Nat \cup {Never} /\ e >= f /\ (f = Never => e = Never)
    BY <1>0, <1>6
  <2> HIDE DEF e, f
  <2>2. Pair(With(a, x, c.v, e), With(b, x, c.v, f)) BY <1>0, <1>1, <1>3, <1>5, <2>1
  <2> QED BY <1>2, <1>5, <1>6, <2>2 DEF Applied, Pair, e, f, x
<1>7. CASE c.op = "getset"
  <2>1. Pair(With(a, x, c.v, Never), With(b, x, c.v, Never)) BY <1>0, <1>1, <1>3, <1>5
  <2> QED BY <1>7, <2>1 DEF Applied, Pair, x
<1>8. CASE c.op \in {"incr", "append"}
  <2> DEFINE sum == (IF a.val[x] = None THEN 0 ELSE a.val[x]) + c.v
  <2>1. sum \in Int BY <1>0, <1>2 DEF Value
  <2>0. sum = (IF b.val[x] = None THEN 0 ELSE b.val[x]) + c.v BY <1>2
  <2> HIDE DEF sum
  <2>2. Pair(With(a, x, sum, a.exp[x]), With(b, x, sum, b.exp[x]))
    BY <1>0, <1>1, <1>2, <1>3, <1>5, <2>1
  <2>3. Applied(a, c, s) = IF sum > MaxValue THEN a ELSE With(a, x, sum, a.exp[x])
    BY <1>8 DEF Applied, sum, x
  <2>4. Applied(b, c, t) = IF sum > MaxValue THEN b ELSE With(b, x, sum, b.exp[x])
    BY <1>8, <2>0 DEF Applied, x
  <2> QED BY <1>5, <2>2, <2>3, <2>4 DEF Pair
<1>9. CASE c.op = "setrange"
  <2> DEFINE new == Max({a.val[x], c.v} \ {None})
  <2>1. new \in Int BY <1>0, <1>2, MaxOfTwo
  <2>0. new = Max({b.val[x], c.v} \ {None}) BY <1>2
  <2> HIDE DEF new
  <2>2. Pair(With(a, x, new, a.exp[x]), With(b, x, new, b.exp[x]))
    BY <1>0, <1>1, <1>2, <1>3, <1>5, <2>1
  <2>3. Applied(a, c, s) = IF c.v = 0 THEN a ELSE With(a, x, new, a.exp[x])
    BY <1>9 DEF Applied, new, x
  <2>4. Applied(b, c, t) = IF c.v = 0 THEN b ELSE With(b, x, new, b.exp[x])
    BY <1>9, <2>0 DEF Applied, x
  <2> QED BY <1>5, <2>2, <2>3, <2>4 DEF Pair
<1>10. CASE c.op = "mset"
  <2>1. Pair(With(a, x, c.v, Never), With(b, x, c.v, Never)) BY <1>0, <1>1, <1>3, <1>5
  <2>2. Pair(With(With(a, x, c.v, Never), y, c.v, Never), With(With(b, x, c.v, Never), y, c.v, Never))
    BY <1>0, <1>1, <1>3, <2>1
  <2> QED BY <1>2, <1>5, <1>10, <2>2 DEF Applied, Pair, x, y
<1>11. CASE c.op = "del"
  <2>1. Pair(Erased(a, x), Erased(b, x)) BY <1>0, <1>4, <1>5
  <2>2. Pair(Erased(Erased(a, x), y), Erased(Erased(b, x), y)) BY <1>0, <1>4, <2>1
  <2> QED BY <1>11, <2>2 DEF Applied, Pair, x, y
<1>12. CASE c.op = "rename"
  <2>1. Pair(With(a, y, a.val[x], a.exp[x]), With(b, y, a.val[x], b.exp[x]))
    BY <1>0, <1>2, <1>3, <1>5
  <2>2. Pair(Erased(With(a, y, a.val[x], a.exp[x]), x), Erased(With(b, y, a.val[x], b.exp[x]), x))
    BY <1>0, <1>4, <2>1
  <2> QED BY <1>2, <1>5, <1>12, <2>2 DEF Applied, Pair, x, y
<1>13. CASE c.op = "move"
  <2>1. Pair(With(a, y, a.val[x], a.exp[y]), With(b, y, a.val[x], b.exp[y]))
    BY <1>0, <1>2, <1>3, <1>5
  <2>2. Pair(Erased(With(a, y, a.val[x], a.exp[y]), x), Erased(With(b, y, a.val[x], b.exp[y]), x))
    BY <1>0, <1>4, <2>1
  <2> QED BY <1>2, <1>5, <1>13, <2>2 DEF Applied, Pair, x, y
<1>14. CASE c.op = "expire"
  <2> DEFINE e == IF c.opt = "at" THEN c.ttl ELSE s + c.ttl
             f == IF c.opt = "at" THEN c.ttl ELSE t + c.ttl
  <2>1. e \in Nat /\ f \in Nat /\ e >= f BY <1>0, <1>14
  <2> HIDE DEF e, f
  <2>2. Pair(With(a, x, a.val[x], e), With(b, x, a.val[x], f)) BY <1>0, <1>2, <1>3, <1>5, <2>1
  <2> QED BY <1>2, <1>5, <1>14, <2>2 DEF Applied, Pair, e, f, x
<1>15. CASE c.op = "persist"
  <2>1. Pair(With(a, x, a.val[x], Never), With(b, x, a.val[x], Never))
    BY <1>0, <1>2, <1>3, <1>5
  <2> QED BY <1>2, <1>15, <2>1 DEF Applied, Pair, x
<1>16. CASE c.op = "restore"
  <2> DEFINE e == IF c.ttl = 0 THEN a.exp[x] ELSE s + c.ttl
             f == IF c.ttl = 0 THEN b.exp[x] ELSE t + c.ttl
  <2>1. e \in Nat \cup {Never} /\ f \in Nat \cup {Never} /\ e >= f /\ (f = Never => e = Never)
    <3>1. CASE c.ttl = 0 BY <1>0, <1>2, <3>1
    <3>2. CASE c.ttl # 0 BY <1>0, <1>16, <3>2
    <3> QED BY <3>1, <3>2
  <2> HIDE DEF e, f
  <2>2. Pair(With(a, x, c.v, e), With(b, x, c.v, f)) BY <1>0, <1>1, <1>3, <1>5, <2>1
  <2> QED BY <1>2, <1>5, <1>16, <2>2 DEF Applied, Pair, e, f, x
<1>17. CASE c.op = "flushdb"
  <2>1. Applied(a, c, s).val = Applied(b, c, t).val BY <1>2, <1>17 DEF Applied
  <2>2. \A z \in Cell :
          /\ Applied(a, c, s).exp[z] = IF z[1] = c.x[1] THEN Never ELSE a.exp[z]
          /\ Applied(b, c, t).exp[z] = IF z[1] = c.x[1] THEN Never ELSE b.exp[z]
    BY <1>17 DEF Applied
  <2> QED BY <1>2, <2>1, <2>2 DEF Follows
<1>18. CASE c.op = "flushall" BY <1>18 DEF Applied, Follows
<1>19. CASE c.op \in {"keys", "get"} BY <1>5, <1>19 DEF Applied, Pair
<1> QED BY <1>0, <1>6, <1>7, <1>8, <1>9, <1>10, <1>11, <1>12, <1>13, <1>14, <1>15,
           <1>16, <1>17, <1>18, <1>19 DEF Ops

-----------------------------------------------------------------------------
(* The servers *)

Servers == [role : {"master", "slave", "loading"}, val : [Cell -> Value],
            exp : [Cell -> Nat \cup {Never}], out : Seq(Sendable)]

\* The parts of a server.
LEMMA ServerParts ==
    ASSUME NEW s \in Servers
    PROVE  /\ D(s) \in Dataset /\ D(s).val = s.val /\ D(s).exp = s.exp
           /\ s.role \in {"master", "slave", "loading"} /\ s.out \in Seq(Sendable)
           /\ \A x \in Cell : s.val[x] \in Value /\ s.exp[x] \in Nat \cup {Never}
BY DEF Servers, Dataset, D

\* A DEL may be propagated.
LEMMA DelSent ==
    ASSUME NEW x \in Cell
    PROVE  Del(x) \in Sendable /\ Del(x).op = "del" /\ Del(x).x = x /\ Del(x).y = x
BY DEF Del, Cmd, Sendable, Command, Ops

\* What the functions of db.c change.
LEMMA DeleteIs ==
    ASSUME NEW s \in Servers, NEW x \in Cell
    PROVE  /\ dbDelete(s, x) \in Servers /\ D(dbDelete(s, x)) = Erased(D(s), x)
           /\ dbDelete(s, x).role = s.role /\ dbDelete(s, x).out = s.out
BY DEF dbDelete, Servers, D, Erased, With, Value

\* dbAdd and dbOverwrite keep the time.
LEMMA PutIs ==
    ASSUME NEW s \in Servers, NEW x \in Cell, NEW a \in Value
    PROVE  /\ dbPut(s, x, a) \in Servers /\ D(dbPut(s, x, a)) = With(D(s), x, a, s.exp[x])
           /\ dbPut(s, x, a).role = s.role /\ dbPut(s, x, a).out = s.out
BY DEF dbPut, Servers, D, With

\* setExpire keeps the value.
LEMMA TimeIs ==
    ASSUME NEW s \in Servers, NEW x \in Cell, NEW e \in Nat \cup {Never}
    PROVE  /\ setExpire(s, x, e) \in Servers
           /\ D(setExpire(s, x, e)) = With(D(s), x, s.val[x], e)
           /\ setExpire(s, x, e).role = s.role /\ setExpire(s, x, e).out = s.out
BY DEF setExpire, Servers, D, With

\* Propagation does not change the dataset.
LEMMA SentIs ==
    ASSUME NEW s \in Servers, NEW c \in Sendable
    PROVE  /\ Propagated(s, c) \in Servers /\ D(Propagated(s, c)) = D(s)
           /\ Propagated(s, c).role = s.role /\ Propagated(s, c).out = Append(s.out, c)
BY DEF Propagated, Servers, D

\* expireIfNeeded changes a master alone, and propagates that.
LEMMA ExpireIs ==
    ASSUME NEW s \in Servers, NEW x \in Cell
    PROVE  /\ expireIfNeeded(s, x) \in Servers
           /\ expireIfNeeded(s, x).role = s.role
           /\ ~(s.role = "master" /\ Expired(s, x)) => expireIfNeeded(s, x) = s
           /\ s.role = "master" /\ Expired(s, x) =>
                 /\ D(expireIfNeeded(s, x)) = Erased(D(s), x)
                 /\ expireIfNeeded(s, x).out = Append(s.out, Del(x))
BY DelSent, SentIs, DeleteIs DEF expireIfNeeded

\* All cells of q are deleted.
LEMMA DeleteStages ==
    ASSUME NEW base \in Servers, NEW q \in Seq(Cell)
    PROVE  \E f \in [0..Len(q) -> Servers] :
             /\ f[0] = base
             /\ \A k \in 1..Len(q) : f[k] = dbDelete(f[k - 1], q[k])
             /\ FoldLeft(dbDelete, base, q) = f[Len(q)]
<1> DEFINE n == Len(q)
           e(v, i) == dbDelete(v, q[i])
           step == [i \in 1..n |-> [v \in Servers |-> e(v, i)]]
           Eqn(g) == g = [s \in SUBSET DOMAIN q |->
                       IF s = {} THEN base ELSE e(g[s \ {Max(s)}], Max(s))]
           h == CHOOSE g : Eqn(g)
<1>1. n \in Nat /\ DOMAIN q = 1..n OBVIOUS
<1>2. \A i \in 1..n : \A v \in Servers : e(v, i) \in Servers BY DeleteIs
<1>3. FoldLeft(dbDelete, base, q) = h[DOMAIN q] BY DEF FoldLeft, MapThenFoldSet
<1> HIDE DEF n, e
<1>4. step \in [1..n -> [Servers -> Servers]] BY <1>2
<1>5. \A i \in 1..n : \A v \in Servers : step[i][v] = e(v, i) OBVIOUS
<1> HIDE DEF step
<1>6. PICK g \in [SUBSET (1..n) -> Servers] : FoldRule(g, n, base, step)
  BY <1>1, <1>4, FoldExists
<1>7. ASSUME NEW s \in SUBSET (1..n), s # {}
      PROVE  Max(s) \in 1..n /\ s \ {Max(s)} \in SUBSET (1..n)
  BY <1>1, <1>7, MaxIn
<1>8. Eqn(g)
  <2>1. \A s \in SUBSET (1..n) : g[s] = IF s = {} THEN base ELSE e(g[s \ {Max(s)}], Max(s))
    BY <1>5, <1>6, <1>7 DEF FoldRule
  <2>2. g = [s \in SUBSET (1..n) |-> g[s]] BY <1>6
  <2> QED BY <1>1, <2>1, <2>2
<1>9. Eqn(h) BY <1>8
<1> HIDE DEF h
<1>10. \A s \in SUBSET (1..n) :
          h[s] = IF s = {} THEN base ELSE e(h[s \ {Max(s)}], Max(s))
  BY <1>1, <1>9
<1>11. FoldGoes(h, n, Servers, base, step)
  <2>1. h[{}] = base BY <1>10
  <2>2. ASSUME NEW s \in SUBSET (1..n), s # {}, h[s \ {Max(s)}] \in Servers
        PROVE  h[s] = step[Max(s)][h[s \ {Max(s)}]]
    BY <1>5, <1>7, <1>10, <2>2
  <2> QED BY <2>1, <2>2 DEF FoldGoes
<1>0. n \in Nat BY <1>1
<1>14. Taken(h, n, Servers, base, step) BY <1>0, <1>4, <1>11, FoldTaken
<1>12. PICK f \in [0..n -> Servers] :
          /\ f[0] = base /\ f[n] = h[1..n]
          /\ \A k \in 1..n : f[k] = step[k][f[k - 1]]
  BY <1>14 DEF Taken
<1>13. ASSUME NEW k \in 1..n PROVE f[k] = e(f[k - 1], k)
  <2>1. k - 1 \in 0..n BY <1>1
  <2> QED BY <1>5, <1>12, <2>1
<1> QED BY <1>1, <1>3, <1>12, <1>13 DEF e, n

\* All cells of q are looked up.
LEMMA ExpireStages ==
    ASSUME NEW base \in Servers, NEW q \in Seq(Cell)
    PROVE  \E f \in [0..Len(q) -> Servers] :
             /\ f[0] = base
             /\ \A k \in 1..Len(q) : f[k] = expireIfNeeded(f[k - 1], q[k])
             /\ FoldLeft(expireIfNeeded, base, q) = f[Len(q)]
<1> DEFINE n == Len(q)
           e(v, i) == expireIfNeeded(v, q[i])
           step == [i \in 1..n |-> [v \in Servers |-> e(v, i)]]
           Eqn(g) == g = [s \in SUBSET DOMAIN q |->
                       IF s = {} THEN base ELSE e(g[s \ {Max(s)}], Max(s))]
           h == CHOOSE g : Eqn(g)
<1>1. n \in Nat /\ DOMAIN q = 1..n OBVIOUS
<1>2. \A i \in 1..n : \A v \in Servers : e(v, i) \in Servers BY ExpireIs
<1>3. FoldLeft(expireIfNeeded, base, q) = h[DOMAIN q] BY DEF FoldLeft, MapThenFoldSet
<1> HIDE DEF n, e
<1>4. step \in [1..n -> [Servers -> Servers]] BY <1>2
<1>5. \A i \in 1..n : \A v \in Servers : step[i][v] = e(v, i) OBVIOUS
<1> HIDE DEF step
<1>6. PICK g \in [SUBSET (1..n) -> Servers] : FoldRule(g, n, base, step)
  BY <1>1, <1>4, FoldExists
<1>7. ASSUME NEW s \in SUBSET (1..n), s # {}
      PROVE  Max(s) \in 1..n /\ s \ {Max(s)} \in SUBSET (1..n)
  BY <1>1, <1>7, MaxIn
<1>8. Eqn(g)
  <2>1. \A s \in SUBSET (1..n) : g[s] = IF s = {} THEN base ELSE e(g[s \ {Max(s)}], Max(s))
    BY <1>5, <1>6, <1>7 DEF FoldRule
  <2>2. g = [s \in SUBSET (1..n) |-> g[s]] BY <1>6
  <2> QED BY <1>1, <2>1, <2>2
<1>9. Eqn(h) BY <1>8
<1> HIDE DEF h
<1>10. \A s \in SUBSET (1..n) :
          h[s] = IF s = {} THEN base ELSE e(h[s \ {Max(s)}], Max(s))
  BY <1>1, <1>9
<1>11. FoldGoes(h, n, Servers, base, step)
  <2>1. h[{}] = base BY <1>10
  <2>2. ASSUME NEW s \in SUBSET (1..n), s # {}, h[s \ {Max(s)}] \in Servers
        PROVE  h[s] = step[Max(s)][h[s \ {Max(s)}]]
    BY <1>5, <1>7, <1>10, <2>2
  <2> QED BY <2>1, <2>2 DEF FoldGoes
<1>0. n \in Nat BY <1>1
<1>14. Taken(h, n, Servers, base, step) BY <1>0, <1>4, <1>11, FoldTaken
<1>12. PICK f \in [0..n -> Servers] :
          /\ f[0] = base /\ f[n] = h[1..n]
          /\ \A k \in 1..n : f[k] = step[k][f[k - 1]]
  BY <1>14 DEF Taken
<1>13. ASSUME NEW k \in 1..n PROVE f[k] = e(f[k - 1], k)
  <2>1. k - 1 \in 0..n BY <1>1
  <2> QED BY <1>5, <1>12, <2>1
<1> QED BY <1>1, <1>3, <1>12, <1>13 DEF e, n

\* All cells of q are evicted.
LEMMA EvictStages ==
    ASSUME NEW base \in Servers, NEW q \in Seq(Cell)
    PROVE  \E f \in [0..Len(q) -> Servers] :
             /\ f[0] = base
             /\ \A k \in 1..Len(q) : f[k] = Evict(f[k - 1], q[k])
             /\ FoldLeft(Evict, base, q) = f[Len(q)]
<1> DEFINE n == Len(q)
           e(v, i) == Evict(v, q[i])
           step == [i \in 1..n |-> [v \in Servers |-> e(v, i)]]
           Eqn(g) == g = [s \in SUBSET DOMAIN q |->
                       IF s = {} THEN base ELSE e(g[s \ {Max(s)}], Max(s))]
           h == CHOOSE g : Eqn(g)
<1>1. n \in Nat /\ DOMAIN q = 1..n OBVIOUS
<1>2. \A i \in 1..n : \A v \in Servers : e(v, i) \in Servers BY DelSent, SentIs, DeleteIs DEF Evict
<1>3. FoldLeft(Evict, base, q) = h[DOMAIN q] BY DEF FoldLeft, MapThenFoldSet
<1> HIDE DEF n, e
<1>4. step \in [1..n -> [Servers -> Servers]] BY <1>2
<1>5. \A i \in 1..n : \A v \in Servers : step[i][v] = e(v, i) OBVIOUS
<1> HIDE DEF step
<1>6. PICK g \in [SUBSET (1..n) -> Servers] : FoldRule(g, n, base, step)
  BY <1>1, <1>4, FoldExists
<1>7. ASSUME NEW s \in SUBSET (1..n), s # {}
      PROVE  Max(s) \in 1..n /\ s \ {Max(s)} \in SUBSET (1..n)
  BY <1>1, <1>7, MaxIn
<1>8. Eqn(g)
  <2>1. \A s \in SUBSET (1..n) : g[s] = IF s = {} THEN base ELSE e(g[s \ {Max(s)}], Max(s))
    BY <1>5, <1>6, <1>7 DEF FoldRule
  <2>2. g = [s \in SUBSET (1..n) |-> g[s]] BY <1>6
  <2> QED BY <1>1, <2>1, <2>2
<1>9. Eqn(h) BY <1>8
<1> HIDE DEF h
<1>10. \A s \in SUBSET (1..n) :
          h[s] = IF s = {} THEN base ELSE e(h[s \ {Max(s)}], Max(s))
  BY <1>1, <1>9
<1>11. FoldGoes(h, n, Servers, base, step)
  <2>1. h[{}] = base BY <1>10
  <2>2. ASSUME NEW s \in SUBSET (1..n), s # {}, h[s \ {Max(s)}] \in Servers
        PROVE  h[s] = step[Max(s)][h[s \ {Max(s)}]]
    BY <1>5, <1>7, <1>10, <2>2
  <2> QED BY <2>1, <2>2 DEF FoldGoes
<1>0. n \in Nat BY <1>1
<1>14. Taken(h, n, Servers, base, step) BY <1>0, <1>4, <1>11, FoldTaken
<1>12. PICK f \in [0..n -> Servers] :
          /\ f[0] = base /\ f[n] = h[1..n]
          /\ \A k \in 1..n : f[k] = step[k][f[k - 1]]
  BY <1>14 DEF Taken
<1>13. ASSUME NEW k \in 1..n PROVE f[k] = e(f[k - 1], k)
  <2>1. k - 1 \in 0..n BY <1>1
  <2> QED BY <1>5, <1>12, <2>1
<1> QED BY <1>1, <1>3, <1>12, <1>13 DEF e, n

-----------------------------------------------------------------------------
(* Sequences of commands *)

\* The commands of q, each at one of the times of T, make w of v.
Leads(v, q, w, T) ==
    \E f \in [0..Len(q) -> Dataset] :
        /\ f[0] = v /\ f[Len(q)] = w
        /\ \A k \in 0..Len(q) : Timely(f[k])
        /\ \A k \in 1..Len(q) : \E t \in T : f[k] = Applied(f[k - 1], q[k], t)

\* No commands lead to the dataset itself.
LEMMA LeadsNone ==
    ASSUME NEW v \in Dataset, Timely(v), NEW T
    PROVE  Leads(v, <<>>, v, T)
<1> DEFINE f == [k \in 0..0 |-> v]
<1>1. f \in [0..Len(<<>>) -> Dataset] /\ f[0] = v /\ Len(<<>>) = 0 OBVIOUS
<1>2. \A k \in 0..0 : Timely(f[k]) OBVIOUS
<1> HIDE DEF f
<1>3. 1..0 = {} OBVIOUS
<1> QED BY <1>1, <1>2, <1>3 DEF Leads

\* Both ends are datasets; without commands they are the same.
LEMMA LeadsTypes ==
    ASSUME NEW v, NEW q \in Seq(Sendable), NEW w, NEW T, Leads(v, q, w, T)
    PROVE  v \in Dataset /\ Timely(v) /\ w \in Dataset /\ Timely(w) /\ (q = <<>> => w = v)
<1>1. PICK f \in [0..Len(q) -> Dataset] :
        /\ f[0] = v /\ f[Len(q)] = w
        /\ \A k \in 0..Len(q) : Timely(f[k])
  BY DEF Leads
<1>2. 0 \in 0..Len(q) /\ Len(q) \in 0..Len(q) OBVIOUS
<1> QED BY <1>1, <1>2

\* From the datasets in between.
LEMMA LeadsHere ==
    ASSUME NEW v, NEW q, NEW w, NEW T, NEW n \in Nat, Len(q) = n,
           NEW f \in [0..n -> Dataset], f[0] = v, f[n] = w,
           \A k \in 0..n : Timely(f[k]),
           \A k \in 1..n : \E i \in T : f[k] = Applied(f[k - 1], q[k], i)
    PROVE  Leads(v, q, w, T)
BY DEF Leads

\* One more command.
LEMMA LeadsAppend ==
    ASSUME NEW v, NEW q \in Seq(Sendable), NEW w, NEW T \in SUBSET Nat,
           Leads(v, q, w, T), NEW c \in Sendable, NEW t \in T
    PROVE  Leads(v, Append(q, c), Applied(w, c, t), T)
<1>1. PICK f \in [0..Len(q) -> Dataset] :
        /\ f[0] = v /\ f[Len(q)] = w
        /\ \A k \in 0..Len(q) : Timely(f[k])
        /\ \A k \in 1..Len(q) : \E i \in T : f[k] = Applied(f[k - 1], q[k], i)
  BY DEF Leads
<1>2. PICK n \in Nat : n = Len(q) OBVIOUS
<1>3. PICK z \in Dataset : z = Applied(w, c, t) /\ Timely(z)
  <2>1. w \in Dataset /\ Timely(w) BY LeadsTypes
  <2>2. t \in Nat OBVIOUS
  <2> QED BY <2>1, <2>2, AppliedType
<1> DEFINE g == [k \in 0..(n + 1) |-> IF k = n + 1 THEN z ELSE f[k]]
           r == Append(q, c)
<1>4. Len(r) = n + 1 /\ r[n + 1] = c /\ \A k \in 1..n : r[k] = q[k] BY <1>2
<1>5. g \in [0..(n + 1) -> Dataset] BY <1>1, <1>2
<1>6. /\ g[0] = v /\ g[n + 1] = z /\ g[n] = w
      /\ \A k \in 0..n : g[k] = f[k]
  BY <1>1, <1>2
<1> HIDE DEF g, r
<1>7. \A k \in 0..(n + 1) : Timely(g[k])
  <2> SUFFICES ASSUME NEW k \in 0..(n + 1) PROVE Timely(g[k]) OBVIOUS
  <2>1. CASE k = n + 1 BY <1>3, <1>6, <2>1
  <2>2. CASE k \in 0..n BY <1>1, <1>2, <1>6, <2>2
  <2> QED BY <2>1, <2>2
<1>8. \A k \in 1..(n + 1) : \E i \in T : g[k] = Applied(g[k - 1], r[k], i)
  <2> SUFFICES ASSUME NEW k \in 1..(n + 1)
               PROVE  \E i \in T : g[k] = Applied(g[k - 1], r[k], i)
    OBVIOUS
  <2>1. CASE k = n + 1
    <3>1. g[k] = Applied(g[k - 1], r[k], t) BY <1>3, <1>4, <1>6, <2>1
    <3> QED BY <3>1
  <2>2. CASE k # n + 1
    <3>1. k \in 1..n /\ k \in 0..n /\ k - 1 \in 0..n BY <2>2
    <3> QED BY <1>1, <1>2, <1>4, <1>6, <3>1
  <2> QED BY <2>1, <2>2
<1>9. n + 1 \in Nat /\ Len(r) = n + 1 BY <1>4
<1>10. Leads(v, r, z, T) BY <1>5, <1>6, <1>7, <1>8, <1>9, LeadsHere
<1> QED BY <1>3, <1>10 DEF r

\* More commands.
LEMMA LeadsConcat ==
    ASSUME NEW v, NEW q \in Seq(Sendable), NEW w, NEW T \in SUBSET Nat,
           Leads(v, q, w, T), NEW r \in Seq(Sendable), NEW z, Leads(w, r, z, T)
    PROVE  Leads(v, q \o r, z, T)
<1>1. PICK f \in [0..Len(q) -> Dataset] :
        /\ f[0] = v /\ f[Len(q)] = w
        /\ \A k \in 0..Len(q) : Timely(f[k])
        /\ \A k \in 1..Len(q) : \E i \in T : f[k] = Applied(f[k - 1], q[k], i)
  BY DEF Leads
<1>2. PICK g \in [0..Len(r) -> Dataset] :
        /\ g[0] = w /\ g[Len(r)] = z
        /\ \A k \in 0..Len(r) : Timely(g[k])
        /\ \A k \in 1..Len(r) : \E i \in T : g[k] = Applied(g[k - 1], r[k], i)
  BY DEF Leads
<1>3. PICK n \in Nat : n = Len(q) OBVIOUS
<1>4. PICK m \in Nat : m = Len(r) OBVIOUS
<1> DEFINE h == [k \in 0..(n + m) |-> IF k <= n THEN f[k] ELSE g[k - n]]
           y == q \o r
<1>5. /\ Len(y) = n + m
      /\ \A k \in 1..n : y[k] = q[k]
      /\ \A k \in (n + 1)..(n + m) : y[k] = r[k - n]
  BY <1>3, <1>4
<1>6. h \in [0..(n + m) -> Dataset]
  <2> SUFFICES ASSUME NEW k \in 0..(n + m) PROVE h[k] \in Dataset OBVIOUS
  <2>1. CASE k <= n
    <3>1. k \in 0..n BY <2>1
    <3>2. h[k] = f[k] BY <2>1
    <3> QED BY <1>3, <3>1, <3>2
  <2>2. CASE ~(k <= n)
    <3>1. k - n \in 0..m BY <2>2
    <3> QED BY <1>2, <1>4, <2>2, <3>1
  <2> QED BY <2>1, <2>2
<1>7. /\ \A k \in 0..n : h[k] = f[k]
      /\ \A k \in n..(n + m) : h[k] = g[k - n]
  <2>1. \A k \in 0..n : h[k] = f[k] OBVIOUS
  <2>2. ASSUME NEW k \in n..(n + m) PROVE h[k] = g[k - n]
    <3>1. CASE k = n BY <1>1, <1>2, <1>3, <2>1, <3>1
    <3>2. CASE k # n BY <3>2
    <3> QED BY <3>1, <3>2
  <2> QED BY <2>1, <2>2
<1> HIDE DEF h, y
<1>8. h[0] = v /\ h[n + m] = z
  <2>1. 0 \in 0..n /\ n + m \in n..(n + m) /\ (n + m) - n = m OBVIOUS
  <2> QED BY <1>1, <1>2, <1>3, <1>4, <1>7, <2>1
<1>9. \A k \in 0..(n + m) : Timely(h[k])
  <2> SUFFICES ASSUME NEW k \in 0..(n + m) PROVE Timely(h[k]) OBVIOUS
  <2>1. CASE k \in 0..n BY <1>1, <1>3, <1>7, <2>1
  <2>2. CASE k \in n..(n + m)
    <3>1. k - n \in 0..m BY <2>2
    <3> QED BY <1>2, <1>4, <1>7, <2>2, <3>1
  <2> QED BY <2>1, <2>2
<1>10. \A k \in 1..(n + m) : \E i \in T : h[k] = Applied(h[k - 1], y[k], i)
  <2> SUFFICES ASSUME NEW k \in 1..(n + m)
               PROVE  \E i \in T : h[k] = Applied(h[k - 1], y[k], i)
    OBVIOUS
  <2>1. CASE k <= n
    <3>1. k \in 1..n /\ k \in 0..n /\ k - 1 \in 0..n BY <2>1
    <3>2. h[k] = f[k] /\ h[k - 1] = f[k - 1] /\ y[k] = q[k] BY <1>5, <1>7, <3>1
    <3>3. \E i \in T : f[k] = Applied(f[k - 1], q[k], i) BY <1>1, <1>3, <3>1
    <3> QED BY <3>2, <3>3
  <2>2. CASE ~(k <= n)
    <3>1. /\ k \in (n + 1)..(n + m) /\ k \in n..(n + m) /\ k - 1 \in n..(n + m)
          /\ k - n \in 1..m /\ (k - 1) - n = (k - n) - 1
      BY <2>2
    <3>2. h[k] = g[k - n] /\ h[k - 1] = g[(k - n) - 1] /\ y[k] = r[k - n]
      BY <1>5, <1>7, <3>1
    <3>3. PICK j \in 1..m : j = k - n BY <3>1
    <3>4. \E i \in T : g[j] = Applied(g[j - 1], r[j], i) BY <1>2, <1>4
    <3> QED BY <3>2, <3>3, <3>4
  <2> QED BY <2>1, <2>2
<1>11. n + m \in Nat /\ Len(y) = n + m BY <1>5
<1>12. Leads(v, y, z, T) BY <1>6, <1>8, <1>9, <1>10, <1>11, LeadsHere
<1> QED BY <1>12 DEF y

\* The first command, and the others.
LEMMA LeadsTail ==
    ASSUME NEW v, NEW q \in Seq(Sendable), q # <<>>, NEW w, NEW T, Leads(v, q, w, T)
    PROVE  \E t \in T : Leads(Applied(v, Head(q), t), Tail(q), w, T)
<1>1. PICK f \in [0..Len(q) -> Dataset] :
        /\ f[0] = v /\ f[Len(q)] = w
        /\ \A k \in 0..Len(q) : Timely(f[k])
        /\ \A k \in 1..Len(q) : \E i \in T : f[k] = Applied(f[k - 1], q[k], i)
  BY DEF Leads
<1>2. PICK m \in Nat : Len(q) = m + 1
  <2>1. Len(q) \in Nat /\ Len(q) # 0 OBVIOUS
  <2> QED BY <2>1
<1>3. PICK r \in Seq(Sendable) : r = Tail(q) OBVIOUS
<1>4. Len(r) = m /\ \A k \in 1..m : r[k] = q[k + 1] BY <1>2, <1>3
<1> DEFINE g == [k \in 0..m |-> f[k + 1]]
<1>5. g \in [0..m -> Dataset] BY <1>2
<1>6. \A k \in 0..m : g[k] = f[k + 1] OBVIOUS
<1> HIDE DEF g
<1>7. g[m] = w /\ g[0] = f[1] BY <1>1, <1>2, <1>6
<1>8. \A k \in 0..m : Timely(g[k])
  <2> SUFFICES ASSUME NEW k \in 0..m PROVE Timely(g[k]) OBVIOUS
  <2>1. k + 1 \in 0..(m + 1) OBVIOUS
  <2> QED BY <1>1, <1>2, <1>6, <2>1
<1>9. \A k \in 1..m : \E i \in T : g[k] = Applied(g[k - 1], r[k], i)
  <2> SUFFICES ASSUME NEW k \in 1..m
               PROVE  \E i \in T : g[k] = Applied(g[k - 1], r[k], i)
    OBVIOUS
  <2>1. /\ k \in 0..m /\ k - 1 \in 0..m /\ k + 1 \in 1..(m + 1)
        /\ (k + 1) - 1 = k /\ (k - 1) + 1 = k
    OBVIOUS
  <2>2. g[k] = f[k + 1] /\ g[k - 1] = f[k] /\ r[k] = q[k + 1] BY <1>4, <1>6, <2>1
  <2>3. PICK j \in 1..(m + 1) : j = k + 1 BY <2>1
  <2>4. \E i \in T : f[j] = Applied(f[j - 1], q[j], i) BY <1>1, <1>2
  <2> QED BY <2>1, <2>2, <2>3, <2>4
<1>10. Leads(f[1], r, w, T) BY <1>4, <1>5, <1>7, <1>8, <1>9 DEF Leads
<1>11. PICK t \in T : f[1] = Applied(f[0], q[1], t)
  <2>1. 1 \in 1..Len(q) /\ 1 - 1 = 0 BY <1>2
  <2> QED BY <1>1, <2>1
<1>12. Head(q) = q[1] OBVIOUS
<1> QED BY <1>1, <1>3, <1>10, <1>11, <1>12

\* At more times.
LEMMA LeadsMore ==
    ASSUME NEW v, NEW q \in Seq(Sendable), NEW w, NEW T, NEW U, T \subseteq U,
           Leads(v, q, w, T)
    PROVE  Leads(v, q, w, U)
BY DEF Leads

-----------------------------------------------------------------------------
(* One command, executed by any server.  A master first deletes what has   *)
(* expired; a slave and the loader do what was propagated.                 *)

\* e is what is left of s when some expired keys are gone.
Timeless(k) == k.op = "del" \/ (k.op = "set" /\ k.ttl = 0)

Aged(s, e) ==
    /\ e \in Servers /\ Timely(D(e)) /\ e.role = s.role
    /\ s.role = "master" => /\ Leads(D(s), e.out, D(e), {now})
                            /\ \A i \in 1..Len(e.out) : Timeless(e.out[i])
    /\ s.role # "master" => e = s

\* r is what c makes of s: on a master, what was propagated explains it.
Outcome(s, c, r) ==
    /\ r \in Servers /\ Timely(D(r)) /\ r.role = s.role
    /\ s.role = "master" =>
          /\ Leads(D(s), r.out, D(r), {now})
          /\ \A i \in 1..Len(r.out) : r.out[i] = c \/ Timeless(r.out[i])
    /\ s.role # "master" => D(r) = Applied(D(s), c, Clock(s))

\* The server s may be sent c.
MayRun(s, c) ==
    /\ s \in Servers /\ Timely(D(s)) /\ now \in Nat
    /\ s.role = "master" => s.out = <<>>
    /\ c \in Command /\ (s.role # "master" => c \in Sendable)
    /\ s.role = "master" /\ c.op = "incrbyfloat" => \A x \in Cell : s.exp[x] = Never

\* A master and a slave read the clock, the load comes later.
LEMMA ClockIs ==
    ASSUME NEW s, now \in Nat
    PROVE  Clock(s) \in Nat /\ (s.role # "loading" => Clock(s) = now)
                            /\ (s.role = "loading" => Clock(s) = LoadTime)
BY KeyspaceConstants DEF Clock

\* The second of two settings of a cell counts.
LEMMA WithWith ==
    ASSUME NEW v \in Dataset, NEW x \in Cell, NEW a \in Value, NEW b \in Value,
           NEW e \in Nat \cup {Never}, NEW f \in Nat \cup {Never}
    PROVE  With(With(v, x, a, e), x, b, f) = With(v, x, b, f)
BY DEF With, Dataset

\* A cell that is deleted.
LEMMA ErasedIs ==
    ASSUME NEW v \in Dataset, NEW x \in Cell
    PROVE  /\ Erased(v, x) \in Dataset /\ Erased(Erased(v, x), x) = Erased(v, x)
           /\ \A z \in Cell :
                /\ Erased(v, x).val[z] = IF z = x THEN None ELSE v.val[z]
                /\ Erased(v, x).exp[z] = IF z = x THEN Never ELSE v.exp[z]
<1>1. None \in Value BY DEF Value
<1>2. Never \in Nat \cup {Never} OBVIOUS
<1>3. With(With(v, x, None, Never), x, None, Never) = With(v, x, None, Never)
  BY <1>1, <1>2, WithWith
<1>4. /\ With(v, x, None, Never) \in Dataset
      /\ \A z \in Cell :
           /\ With(v, x, None, Never).val[z] = IF z = x THEN None ELSE v.val[z]
           /\ With(v, x, None, Never).exp[z] = IF z = x THEN Never ELSE v.exp[z]
  BY <1>1, <1>2, WithIs DEF Never
<1> QED BY <1>3, <1>4 DEF Erased

\* Setting what is there changes nothing.
LEMMA WithSame ==
    ASSUME NEW v \in Dataset, NEW x \in Cell
    PROVE  With(v, x, v.val[x], v.exp[x]) = v
BY DEF With, Dataset

\* A server where nothing has expired.
LEMMA AgedSelf ==
    ASSUME NEW s, NEW c, MayRun(s, c)
    PROVE  Aged(s, s)
<1>1. s \in Servers /\ Timely(D(s)) /\ (s.role = "master" => s.out = <<>>) BY DEF MayRun
<1>2. D(s) \in Dataset BY <1>1, ServerParts
<1>3. Leads(D(s), <<>>, D(s), {now}) BY <1>1, <1>2, LeadsNone
<1>4. Len(<<>>) = 0 OBVIOUS
<1> QED BY <1>1, <1>3, <1>4 DEF Aged

\* A DEL that was propagated deletes.
LEMMA DelApplied ==
    ASSUME NEW v \in Dataset, NEW x \in Cell, NEW t
    PROVE  Applied(v, Del(x), t) = Erased(v, x)
<1> DEFINE k == Del(x)
<1>1. k.op = "del" /\ k.x = x /\ k.y = x BY DelSent
<1> HIDE DEF k
<1>2. Applied(v, k, t) = Erased(Erased(v, x), x) BY <1>1 DEF Applied
<1> USE DEF k
<1> QED BY <1>2, ErasedIs

\* Deleting a cell and propagating that.
LEMMA AgedDelete ==
    ASSUME NEW s, NEW e, Aged(s, e), s.role = "master", NEW x \in Cell, now \in Nat,
           NEW t \in Servers, t.role = s.role, D(t) = Erased(D(e), x),
           t.out = Append(e.out, Del(x))
    PROVE  Aged(s, t)
<1>1. e \in Servers /\ D(e) \in Dataset /\ Timely(D(e)) /\ e.out \in Seq(Sendable)
  BY ServerParts DEF Aged
<1>2. Del(x) \in Sendable /\ Applied(D(e), Del(x), now) = D(t) BY <1>1, DelSent, DelApplied
<1>3. Timely(D(t)) BY <1>1, <1>2, AppliedType
<1>4. Leads(D(s), e.out, D(e), {now}) /\ \A i \in 1..Len(e.out) : Timeless(e.out[i])
  BY DEF Aged
<1>5. now \in {now} /\ {now} \in SUBSET Nat OBVIOUS
<1>6. Leads(D(s), Append(e.out, Del(x)), Applied(D(e), Del(x), now), {now})
  BY <1>1, <1>2, <1>4, <1>5, LeadsAppend
<1>7. Leads(D(s), t.out, D(t), {now}) BY <1>2, <1>6
<1>8. \A i \in 1..Len(t.out) : Timeless(t.out[i])
  <2>1. PICK q \in Seq(Sendable) : q = e.out BY <1>1
  <2>2. PICK k \in Sendable : k = Del(x) /\ Timeless(k) BY DelSent DEF Timeless
  <2>3. \A i \in 1..Len(Append(q, k)) :
          Append(q, k)[i] = k \/ (i \in 1..Len(q) /\ Append(q, k)[i] = q[i])
    OBVIOUS
  <2> QED BY <1>4, <2>1, <2>2, <2>3
<1> QED BY <1>3, <1>7, <1>8 DEF Aged

\* Looking up one more cell.
LEMMA AgedExpire ==
    ASSUME NEW s, NEW e, Aged(s, e), NEW x \in Cell, now \in Nat
    PROVE  Aged(s, expireIfNeeded(e, x))
<1>1. e \in Servers /\ e.role = s.role BY DEF Aged
<1>2. CASE ~(e.role = "master" /\ Expired(e, x)) BY <1>1, <1>2, ExpireIs
<1>3. CASE e.role = "master" /\ Expired(e, x)
  <2> DEFINE t == expireIfNeeded(e, x)
  <2>1. /\ t \in Servers /\ t.role = s.role /\ D(t) = Erased(D(e), x)
        /\ t.out = Append(e.out, Del(x))
    BY <1>1, <1>3, ExpireIs
  <2> HIDE DEF t
  <2>2. Aged(s, t) BY <1>1, <1>3, <2>1, AgedDelete
  <2> QED BY <2>2 DEF t
<1> QED BY <1>2, <1>3

\* What the lookup of a key leaves.
LEMMA ExpireCells ==
    ASSUME NEW e \in Servers, NEW x \in Cell, now \in Nat
    PROVE  LET t == expireIfNeeded(e, x)
           IN  /\ t \in Servers /\ t.role = e.role /\ expireIfNeeded(t, x) = t
               /\ t = e \/ (t.val[x] = None /\ t.exp[x] = Never)
               /\ \A z \in Cell : z # x => t.val[z] = e.val[z] /\ t.exp[z] = e.exp[z]
               /\ e.role # "master" => t = e
               /\ ~(e.role = "master" /\ Expired(t, x))
<1> DEFINE t == expireIfNeeded(e, x)
<1>1. t \in Servers /\ t.role = e.role BY ExpireIs
<1>2. CASE ~(e.role = "master" /\ Expired(e, x)) BY <1>1, <1>2, ExpireIs
<1>3. CASE e.role = "master" /\ Expired(e, x)
  <2>1. D(t) = Erased(D(e), x) BY <1>3, ExpireIs
  <2>2. D(t).val = t.val /\ D(t).exp = t.exp /\ D(e).val = e.val /\ D(e).exp = e.exp
        /\ D(e) \in Dataset
    BY <1>1, ServerParts
  <2> HIDE DEF t
  <2>3. \A z \in Cell : /\ t.val[z] = IF z = x THEN None ELSE e.val[z]
                        /\ t.exp[z] = IF z = x THEN Never ELSE e.exp[z]
    <3>1. \A z \in Cell : /\ D(t).val[z] = IF z = x THEN None ELSE D(e).val[z]
                          /\ D(t).exp[z] = IF z = x THEN Never ELSE D(e).exp[z]
      BY <2>1, <2>2, ErasedIs
    <3> QED BY <2>2, <3>1
  <2>4. ~Expired(t, x) BY <2>3 DEF Expired, Never
  <2>5. expireIfNeeded(t, x) = t BY <1>1, <2>4, ExpireIs
  <2> QED BY <1>1, <1>3, <2>3, <2>4, <2>5 DEF t
<1> QED BY <1>2, <1>3

\* setKey sets the value and drops the time, on any server.
LEMMA SetKeyIs ==
    ASSUME NEW s \in Servers, NEW x \in Cell, NEW a \in Value, now \in Nat
    PROVE  LET k == setKey(s, x, a)
               e == expireIfNeeded(s, x)
           IN  /\ k \in Servers /\ k.role = s.role /\ k.out = e.out
               /\ D(k) = With(D(e), x, a, Never)
<1> DEFINE e == expireIfNeeded(s, x)
           p == dbPut(e, x, a)
<1>1. e \in Servers /\ e.role = s.role BY ExpireIs
<1>2. e.exp[x] \in Nat \cup {Never} /\ D(e) \in Dataset BY <1>1, ServerParts
<1>3. p \in Servers /\ p.role = s.role /\ p.out = e.out /\ D(p) = With(D(e), x, a, e.exp[x])
  BY <1>1, PutIs
<1>4. p.val[x] \in Value /\ D(p) \in Dataset BY <1>3, ServerParts
<1>5. setKey(s, x, a) = setExpire(p, x, Never) BY DEF setKey
<1>6. D(setExpire(p, x, Never)) = With(D(p), x, p.val[x], Never) BY <1>3, TimeIs
<1>7. p.val[x] = a
  <2>0. PICK v \in Dataset, f \in Nat \cup {Never} : v = D(e) /\ f = e.exp[x] BY <1>2
  <2>1. D(p).val[x] = a
    <3>1. D(p) = With(v, x, a, f) BY <1>3, <2>0
    <3> QED BY <3>1, WithIs
  <2> QED BY <1>3, <2>1, ServerParts
<1>8. D(setExpire(p, x, Never)) = With(D(e), x, a, Never)
  <2>1. PICK v \in Dataset, f \in Nat \cup {Never} : v = D(e) /\ f = e.exp[x] BY <1>2
  <2>2. D(setExpire(p, x, Never)) = With(With(v, x, a, f), x, a, Never)
    BY <1>3, <1>6, <1>7, <2>1
  <2>3. Never \in Nat \cup {Never} OBVIOUS
  <2>4. With(With(v, x, a, f), x, a, Never) = With(v, x, a, Never)
    BY <2>3, WithWith DEF Never
  <2> QED BY <2>1, <2>2, <2>4
<1>9. setExpire(p, x, Never) \in Servers /\ setExpire(p, x, Never).role = s.role
      /\ setExpire(p, x, Never).out = e.out
  BY <1>3, TimeIs
<1> QED BY <1>5, <1>8, <1>9

\* A command that does nothing more.
LEMMA OutcomeStop ==
    ASSUME NEW s, NEW c, MayRun(s, c), NEW e, Aged(s, e),
           s.role # "master" => Applied(D(s), c, Clock(s)) = D(s)
    PROVE  Outcome(s, c, e)
BY DEF Aged, Outcome

\* A command that is propagated, as k.
LEMMA OutcomeGo ==
    ASSUME NEW s, NEW c, MayRun(s, c), NEW e, Aged(s, e),
           NEW u \in Servers, u.role = s.role, u.out = e.out,
           NEW k \in Sendable, D(u) = Applied(D(e), k, Clock(s)),
           s.role # "master" => k = c, k = c \/ Timeless(k)
    PROVE  Outcome(s, c, Propagated(u, k))
<1> DEFINE r == Propagated(u, k)
<1>1. /\ r \in Servers /\ D(r) = D(u) /\ r.role = s.role /\ r.out = Append(e.out, k)
  BY SentIs
<1>2. e \in Servers /\ Timely(D(e)) /\ D(e) \in Dataset /\ e.out \in Seq(Sendable)
  BY ServerParts DEF Aged
<1>3. now \in Nat /\ Clock(s) \in Nat BY ClockIs DEF MayRun
<1>4. Timely(D(r)) BY <1>1, <1>2, <1>3, AppliedType
<1>5. s.role = "master" => Leads(D(s), r.out, D(r), {now})
  <2> SUFFICES ASSUME s.role = "master" PROVE Leads(D(s), r.out, D(r), {now}) OBVIOUS
  <2>1. Clock(s) = now BY <1>3, ClockIs
  <2>2. Leads(D(s), e.out, D(e), {now}) BY DEF Aged
  <2>3. now \in {now} /\ {now} \in SUBSET Nat BY <1>3
  <2>4. Leads(D(s), Append(e.out, k), Applied(D(e), k, now), {now})
    BY <1>2, <2>2, <2>3, LeadsAppend
  <2> QED BY <1>1, <2>1, <2>4
<1>6. s.role # "master" => D(r) = Applied(D(s), c, Clock(s)) BY <1>1 DEF Aged
<1>7. s.role = "master" =>
        \A i \in 1..Len(r.out) : r.out[i] = c \/ Timeless(r.out[i])
  <2> SUFFICES ASSUME s.role = "master", NEW i \in 1..Len(r.out)
               PROVE  r.out[i] = c \/ Timeless(r.out[i])
    OBVIOUS
  <2>1. \A j \in 1..Len(e.out) : Timeless(e.out[j]) BY DEF Aged
  <2>2. PICK q \in Seq(Sendable) : q = e.out BY <1>2
  <2>3. Append(q, k)[i] = k \/ (i \in 1..Len(q) /\ Append(q, k)[i] = q[i]) BY <1>1, <2>2
  <2> QED BY <1>1, <2>1, <2>2, <2>3
<1> QED BY <1>1, <1>4, <1>5, <1>6, <1>7 DEF Outcome

\* The parts of a server and of a command it may be sent.
LEMMA MayRunParts ==
    ASSUME NEW s, NEW c, MayRun(s, c)
    PROVE  /\ s \in Servers /\ D(s) \in Dataset /\ Timely(D(s))
           /\ now \in Nat /\ Clock(s) \in Nat
           /\ D(s).val = s.val /\ D(s).exp = s.exp
           /\ c.x \in Cell /\ c.y \in Cell /\ c.v \in Int /\ c.v \in Value /\ c.ttl \in Int
           /\ c.opt \in {"none", "nx", "xx", "at"}
           /\ c.op \in {"set", "restore"} => c.ttl >= 0
           /\ c.op = "setex" => c.ttl > 0
           /\ c.op \notin {"incrbyfloat", "expire"} => c \in Sendable
           /\ Aged(s, s)
<1>1. s \in Servers /\ Timely(D(s)) /\ now \in Nat /\ c \in Command BY DEF MayRun
<1>2. D(s) \in Dataset /\ D(s).val = s.val /\ D(s).exp = s.exp BY <1>1, ServerParts
<1>3. Clock(s) \in Nat BY <1>1, ClockIs
<1>4. /\ c.x \in Cell /\ c.y \in Cell /\ c.v \in Int /\ c.ttl \in Int
      /\ c.opt \in {"none", "nx", "xx", "at"}
      /\ c.op \in {"set", "restore"} => c.ttl >= 0
      /\ c.op = "setex" => c.ttl > 0
  BY <1>1 DEF Command
<1>5. c.op \notin {"incrbyfloat", "expire"} => c \in Sendable BY <1>1 DEF Sendable
<1>6. c.v \in Value BY <1>4 DEF Value
<1> QED BY <1>1, <1>2, <1>3, <1>4, <1>5, <1>6, AgedSelf

\* What is left after the lookup of a key.
LEMMA AgedParts ==
    ASSUME NEW s, NEW e, Aged(s, e)
    PROVE  /\ e \in Servers /\ e.role = s.role /\ D(e) \in Dataset /\ Timely(D(e))
           /\ D(e).val = e.val /\ D(e).exp = e.exp /\ e.out \in Seq(Sendable)
           /\ \A z \in Cell : /\ e.val[z] \in Value /\ e.exp[z] \in Nat \cup {Never}
                              /\ e.val[z] = None => e.exp[z] = Never
           /\ s.role # "master" => e = s
           /\ Clock(e) = Clock(s)
BY ServerParts DEF Aged, Timely, Clock

\* The first key of a command is looked up.
LEMMA LookedUp ==
    ASSUME NEW s, NEW c, MayRun(s, c)
    PROVE  LET e == expireIfNeeded(s, c.x)
           IN  /\ Aged(s, e) /\ expireIfNeeded(e, c.x) = e
               /\ s.role # "master" => e = s
<1>1. /\ s \in Servers /\ c.x \in Cell /\ now \in Nat /\ Aged(s, s) BY MayRunParts
<1>2. Aged(s, expireIfNeeded(s, c.x)) BY <1>1, AgedExpire
<1> QED BY <1>1, <1>2, ExpireCells DEF Aged

\* SET, SETEX, SETNX and PSETEX.
LEMMA SetOutcome ==
    ASSUME NEW s, NEW c, MayRun(s, c), c.op \in {"set", "setex"}
    PROVE  Outcome(s, c, setGenericCommand(s, c))
<1> DEFINE x == c.x
           t == IF c.opt = "none" THEN s ELSE expireIfNeeded(s, x)
           stop == (c.opt = "nx" /\ t.val[x] # None) \/ (c.opt = "xx" /\ t.val[x] = None)
           u == setKey(t, x, c.v)
           w == IF c.ttl = 0 THEN u ELSE setExpire(u, x, Clock(s) + c.ttl)
           f == IF c.ttl = 0 THEN Never ELSE Clock(s) + c.ttl
<1>1. setGenericCommand(s, c) = IF stop THEN t ELSE Propagated(w, c)
  BY DEF setGenericCommand
<1>2. PICK e : /\ e = expireIfNeeded(s, x) /\ Aged(s, e) /\ expireIfNeeded(e, x) = e
               /\ s.role # "master" => e = s
  BY LookedUp
<1>3. /\ s \in Servers /\ x \in Cell /\ now \in Nat /\ Clock(s) \in Nat
      /\ c.v \in Value /\ c.ttl \in Int /\ c.ttl >= 0 /\ c \in Sendable
      /\ c.opt \in {"none", "nx", "xx", "at"} /\ s.role = s.role
      /\ D(s).val = s.val
  BY MayRunParts
<1>4. /\ e \in Servers /\ e.role = s.role /\ D(e) \in Dataset /\ D(e).val = e.val
  BY <1>2, AgedParts
<1>5. /\ t \in Servers /\ t.role = s.role /\ expireIfNeeded(t, x) = e
      /\ c.opt # "none" => t = e
  BY <1>2, <1>3, <1>4
<1> HIDE DEF t
<1>6. u \in Servers /\ u.role = s.role /\ u.out = e.out /\ D(u) = With(D(e), x, c.v, Never)
  BY <1>3, <1>5, SetKeyIs
<1> HIDE DEF u
<1>7. w \in Servers /\ w.role = s.role /\ w.out = e.out /\ D(w) = With(D(e), x, c.v, f)
  <2>1. CASE c.ttl = 0 BY <1>6, <2>1
  <2>2. CASE c.ttl # 0
    <3>1. PICK when \in Nat : when = Clock(s) + c.ttl BY <1>3
    <3>2. when \in Nat \cup {Never} OBVIOUS
    <3>3. /\ setExpire(u, x, when) \in Servers
          /\ D(setExpire(u, x, when)) = With(D(u), x, u.val[x], when)
          /\ setExpire(u, x, when).role = s.role /\ setExpire(u, x, when).out = e.out
      BY <1>3, <1>6, <3>2, TimeIs
    <3>4. PICK v \in Dataset : v = D(e) BY <1>4
    <3>5. D(u) = With(v, x, c.v, Never) /\ D(u).val = u.val BY <1>6, <3>4, ServerParts
    <3>6. u.val[x] = c.v
      <4>1. D(u).val[x] = c.v BY <1>3, <3>5, WithIs DEF Never
      <4> QED BY <3>5, <4>1
    <3>7. D(setExpire(u, x, when)) = With(v, x, c.v, when)
      <4>1. With(With(v, x, c.v, Never), x, c.v, when) = With(v, x, c.v, when)
        BY <1>3, <3>2, WithWith DEF Never
      <4> QED BY <3>3, <3>5, <3>6, <4>1
    <3> QED BY <2>2, <3>1, <3>3, <3>4, <3>7
  <2> QED BY <2>1, <2>2
<1> HIDE DEF w
<1>8. CASE stop
  <2>1. t = e BY <1>5, <1>8
  <2>2. s.role # "master" => Applied(D(s), c, Clock(s)) = D(s)
    <3> SUFFICES ASSUME s.role # "master" PROVE Applied(D(s), c, Clock(s)) = D(s) OBVIOUS
    <3>1. t = s BY <1>2, <2>1
    <3>2. (c.opt = "nx" /\ D(s).val[x] # None) \/ (c.opt = "xx" /\ D(s).val[x] = None)
      BY <1>3, <1>8, <3>1
    <3> QED BY <3>2 DEF Applied
  <2> QED BY <1>1, <1>2, <1>8, <2>1, <2>2, OutcomeStop
<1>9. CASE ~stop
  <2>1. ~((c.opt = "nx" /\ D(e).val[x] # None) \/ (c.opt = "xx" /\ D(e).val[x] = None))
    BY <1>4, <1>5, <1>9
  <2> HIDE DEF stop
  <2>2. Applied(D(e), c, Clock(s)) = With(D(e), x, c.v, f) BY <2>1 DEF Applied
  <2>3. Outcome(s, c, Propagated(w, c)) BY <1>2, <1>3, <1>7, <2>2, OutcomeGo
  <2> QED BY <1>1, <1>9, <2>3
<1> QED BY <1>8, <1>9

\* GETSET.
LEMMA GetsetOutcome ==
    ASSUME NEW s, NEW c, MayRun(s, c), c.op = "getset"
    PROVE  Outcome(s, c, getsetCommand(s, c))
<1> DEFINE x == c.x
<1>1. PICK e : /\ e = expireIfNeeded(s, x) /\ Aged(s, e) /\ expireIfNeeded(e, x) = e
  BY LookedUp
<1>2. x \in Cell /\ now \in Nat /\ c.v \in Value /\ c \in Sendable BY MayRunParts
<1>3. e \in Servers /\ e.role = s.role BY <1>1, AgedParts
<1> DEFINE u == setKey(e, x, c.v)
<1>4. u \in Servers /\ u.role = s.role /\ u.out = e.out /\ D(u) = With(D(e), x, c.v, Never)
  BY <1>1, <1>2, <1>3, SetKeyIs
<1> HIDE DEF u
<1>5. D(u) = Applied(D(e), c, Clock(s)) BY <1>4 DEF Applied
<1>6. Outcome(s, c, Propagated(u, c)) BY <1>1, <1>2, <1>4, <1>5, OutcomeGo
<1> QED BY <1>1, <1>6 DEF getsetCommand, u

\* INCR, APPEND and INCRBYFLOAT.
LEMMA ChangedOutcome ==
    ASSUME NEW s, NEW c, MayRun(s, c), NEW rewritten \in BOOLEAN,
           IF rewritten THEN c.op = "incrbyfloat" ELSE c.op \in {"incr", "append"}
    PROVE  Outcome(s, c, Changed(s, c, rewritten))
<1> DEFINE x == c.x
<1>1. PICK e : /\ e = expireIfNeeded(s, x) /\ Aged(s, e)
               /\ s.role # "master" => e = s
  BY LookedUp
<1>2. /\ s \in Servers /\ x \in Cell /\ now \in Nat /\ c.v \in Int
      /\ ~rewritten => c \in Sendable
  BY MayRunParts
<1>3. /\ e \in Servers /\ e.role = s.role /\ D(e) \in Dataset
      /\ D(e).val = e.val /\ D(e).exp = e.exp
      /\ e.val[x] \in Value /\ e.exp[x] \in Nat \cup {Never}
  BY <1>1, <1>2, AgedParts
<1> DEFINE old == IF e.val[x] = None THEN 0 ELSE e.val[x]
           sum == old + c.v
           k == IF rewritten THEN Cmd("set", x, x, sum, "none", 0) ELSE c
           u == dbPut(e, x, sum)
<1>4. Changed(s, c, rewritten) = IF sum > MaxValue THEN e ELSE Propagated(u, k)
  BY <1>1 DEF Changed
<1>5. sum \in Int /\ sum \in Value BY <1>2, <1>3 DEF Value
<1>6. sum = (IF D(e).val[x] = None THEN 0 ELSE D(e).val[x]) + c.v BY <1>3
<1> HIDE DEF sum
<1>7. u \in Servers /\ u.role = s.role /\ u.out = e.out /\ D(u) = With(D(e), x, sum, e.exp[x])
  BY <1>2, <1>3, <1>5, PutIs
<1> HIDE DEF u
<1>8. CASE sum > MaxValue
  <2>1. s.role # "master" => Applied(D(s), c, Clock(s)) = D(s)
    <3> SUFFICES ASSUME s.role # "master" PROVE Applied(D(s), c, Clock(s)) = D(s) OBVIOUS
    <3>1. c.op \in {"incr", "append"} BY <1>2 DEF MayRun, Sendable
    <3>2. e = s BY <1>1
    <3> QED BY <1>6, <1>8, <3>1, <3>2 DEF Applied
  <2> QED BY <1>1, <1>4, <1>8, <2>1, OutcomeStop
<1>9. CASE ~(sum > MaxValue) /\ ~rewritten
  <2>1. k = c /\ c.op \in {"incr", "append"} BY <1>9
  <2>2. Applied(D(e), c, Clock(s)) = With(D(e), x, sum, e.exp[x])
    BY <1>3, <1>6, <1>9, <2>1 DEF Applied
  <2>3. Outcome(s, c, Propagated(u, c)) BY <1>1, <1>2, <1>7, <1>9, <2>2, OutcomeGo
  <2> QED BY <1>4, <1>9, <2>1, <2>3
<1>10. CASE ~(sum > MaxValue) /\ rewritten
  <2>1. s.role = "master" /\ s.exp[x] = Never BY <1>2, <1>10 DEF MayRun, Sendable
  <2>2. e.exp[x] = Never BY <1>1, <1>2, <2>1, ExpireCells
  <2>3. /\ k \in Sendable /\ k.op = "set" /\ k.x = x /\ k.v = sum /\ k.opt = "none" /\ k.ttl = 0
    BY <1>2, <1>5, <1>10 DEF Cmd, Sendable, Command, Ops
  <2> HIDE DEF k
  <2>4. Applied(D(e), k, Clock(s)) = With(D(e), x, sum, Never) BY <2>3 DEF Applied
  <2>5. Outcome(s, c, Propagated(u, k)) BY <1>1, <1>7, <2>1, <2>2, <2>3, <2>4, OutcomeGo DEF Timeless
  <2> QED BY <1>4, <1>10, <2>5
<1> QED BY <1>8, <1>9, <1>10

\* SETRANGE.
LEMMA SetrangeOutcome ==
    ASSUME NEW s, NEW c, MayRun(s, c), c.op = "setrange"
    PROVE  Outcome(s, c, setrangeCommand(s, c))
<1> DEFINE x == c.x
<1>1. PICK e : /\ e = expireIfNeeded(s, x) /\ Aged(s, e)
               /\ s.role # "master" => e = s
  BY LookedUp
<1>2. s \in Servers /\ x \in Cell /\ now \in Nat /\ c.v \in Int /\ c \in Sendable
  BY MayRunParts
<1>3. /\ e \in Servers /\ e.role = s.role /\ D(e).val = e.val /\ D(e).exp = e.exp
      /\ e.val[x] \in Value
  BY <1>1, <1>2, AgedParts
<1> DEFINE new == Max({e.val[x], c.v} \ {None})
           u == dbPut(e, x, new)
<1>4. setrangeCommand(s, c) = IF c.v = 0 THEN e ELSE Propagated(u, c)
  BY <1>1 DEF setrangeCommand
<1>5. new \in Value BY <1>2, <1>3, MaxOfTwo DEF Value
<1>6. new = Max({D(e).val[x], c.v} \ {None}) BY <1>3
<1> HIDE DEF new
<1>7. u \in Servers /\ u.role = s.role /\ u.out = e.out /\ D(u) = With(D(e), x, new, e.exp[x])
  BY <1>2, <1>3, <1>5, PutIs
<1> HIDE DEF u
<1>8. CASE c.v = 0
  <2>1. Applied(D(s), c, Clock(s)) = D(s) BY <1>8 DEF Applied
  <2> QED BY <1>1, <1>4, <1>8, <2>1, OutcomeStop
<1>9. CASE c.v # 0
  <2>1. Applied(D(e), c, Clock(s)) = With(D(e), x, new, e.exp[x])
    BY <1>3, <1>6, <1>9 DEF Applied
  <2>2. Outcome(s, c, Propagated(u, c)) BY <1>1, <1>2, <1>7, <2>1, OutcomeGo
  <2> QED BY <1>4, <1>9, <2>2
<1> QED BY <1>8, <1>9

\* Looking a second key up.
LEMMA LookedUpTwice ==
    ASSUME NEW s, NEW e, Aged(s, e), NEW x \in Cell, NEW y \in Cell, now \in Nat,
           expireIfNeeded(e, x) = e, ~(e.role = "master" /\ Expired(e, x))
    PROVE  LET u == expireIfNeeded(e, y)
           IN  /\ Aged(s, u) /\ expireIfNeeded(u, y) = u /\ expireIfNeeded(u, x) = u
               /\ u.val[x] = e.val[x] /\ u.exp[x] = e.exp[x]
<1> DEFINE u == expireIfNeeded(e, y)
<1>1. e \in Servers BY DEF Aged
<1>2. Aged(s, u) BY AgedExpire
<1>3. /\ u \in Servers /\ u.role = e.role /\ expireIfNeeded(u, y) = u
      /\ \A z \in Cell : z # y => u.val[z] = e.val[z] /\ u.exp[z] = e.exp[z]
  BY <1>1, ExpireCells
<1>4. CASE x = y BY <1>2, <1>3, <1>4
<1>5. CASE x # y
  <2>1. u.val[x] = e.val[x] /\ u.exp[x] = e.exp[x] BY <1>3, <1>5
  <2> HIDE DEF u
  <2>2. Expired(u, x) => Expired(e, x) BY <1>3, <2>1 DEF Expired, Clock
  <2>3. ~(u.role = "master" /\ Expired(u, x)) BY <1>3, <2>2
  <2>4. expireIfNeeded(u, x) = u BY <1>3, <2>3, ExpireIs
  <2> QED BY <1>2, <1>3, <2>1, <2>4 DEF u
<1> QED BY <1>4, <1>5

\* MSET and MSETNX: the second key is looked up after the first one is set.
LEMMA MsetOutcome ==
    ASSUME NEW s, NEW c, MayRun(s, c), c.op = "mset"
    PROVE  Outcome(s, c, msetGenericCommand(s, c))
<1> DEFINE x == c.x
           y == c.y
           t == IF c.opt = "nx" THEN expireIfNeeded(expireIfNeeded(s, x), y) ELSE s
           busy == c.opt = "nx" /\ (t.val[x] # None \/ t.val[y] # None)
           k == setKey(t, x, c.v)
           u == setKey(k, y, c.v)
<1>1. msetGenericCommand(s, c) = IF busy THEN t ELSE Propagated(u, c)
  BY DEF msetGenericCommand
<1>2. /\ s \in Servers /\ x \in Cell /\ y \in Cell /\ now \in Nat /\ c.v \in Value
      /\ c \in Sendable /\ Aged(s, s) /\ D(s).val = s.val
  BY MayRunParts
<1>3. PICK e1, e2 :
        /\ e1 = expireIfNeeded(t, x) /\ e2 = expireIfNeeded(e1, y)
        /\ Aged(s, t) /\ Aged(s, e1) /\ Aged(s, e2) /\ expireIfNeeded(e1, x) = e1
        /\ c.opt = "nx" => e1 = t /\ e2 = t
  <2>1. CASE c.opt = "nx"
    <3> DEFINE e == expireIfNeeded(s, x)
    <3>1. Aged(s, e) /\ expireIfNeeded(e, x) = e BY LookedUp
    <3>2. ~(e.role = "master" /\ Expired(e, x)) BY <1>2, ExpireCells
    <3>3. t = expireIfNeeded(e, y) BY <2>1
    <3> HIDE DEF e
    <3>4. Aged(s, t) /\ expireIfNeeded(t, y) = t /\ expireIfNeeded(t, x) = t
      BY <1>2, <3>1, <3>2, <3>3, LookedUpTwice
    <3> QED BY <3>4
  <2>2. CASE c.opt # "nx"
    <3>1. t = s BY <2>2
    <3>2. Aged(s, expireIfNeeded(s, x)) /\ expireIfNeeded(expireIfNeeded(s, x), x) = expireIfNeeded(s, x)
      BY LookedUp
    <3>3. Aged(s, expireIfNeeded(expireIfNeeded(s, x), y)) BY <1>2, <3>2, AgedExpire
    <3> QED BY <1>2, <2>2, <3>1, <3>2, <3>3
  <2> QED BY <2>1, <2>2
<1>4. CASE busy
  <2>1. s.role # "master" => Applied(D(s), c, Clock(s)) = D(s)
    <3> SUFFICES ASSUME s.role # "master" PROVE Applied(D(s), c, Clock(s)) = D(s) OBVIOUS
    <3>1. t = s BY <1>3, AgedParts
    <3>2. c.opt = "nx" /\ (D(s).val[x] # None \/ D(s).val[y] # None) BY <1>2, <1>4, <3>1
    <3> QED BY <3>2 DEF Applied
  <2> QED BY <1>1, <1>3, <1>4, <2>1, OutcomeStop
<1>5. CASE ~busy
  <2>1. /\ t \in Servers /\ t.role = s.role /\ e1 \in Servers /\ e2 \in Servers
        /\ e1.role = s.role /\ e2.role = s.role
        /\ D(e1) \in Dataset /\ D(e2) \in Dataset /\ D(e2).val = e2.val /\ D(e2).exp = e2.exp
        /\ D(e1).val = e1.val /\ D(e1).exp = e1.exp
    BY <1>3, AgedParts
  <2>2. c.opt = "nx" => e2.val[x] = None /\ e2.val[y] = None BY <1>3, <1>5
  <2> HIDE DEF t, busy
  <2>3. /\ k \in Servers /\ k.role = s.role /\ k.out = e1.out
        /\ D(k) = With(D(e1), x, c.v, Never)
    BY <1>2, <1>3, <2>1, SetKeyIs
  <2> HIDE DEF k
  <2> DEFINE g == expireIfNeeded(k, y)
  <2>4. /\ u \in Servers /\ u.role = s.role /\ u.out = g.out
        /\ D(u) = With(D(g), y, c.v, Never)
    BY <1>2, <2>3, SetKeyIs
  <2> HIDE DEF u
  <2>5. D(k).val = k.val /\ D(k).exp = k.exp BY <2>3, ServerParts
  <2>6. \A z \in Cell : /\ k.val[z] = IF z = x THEN c.v ELSE e1.val[z]
                        /\ k.exp[z] = IF z = x THEN Never ELSE e1.exp[z]
    <3>1. \A z \in Cell : /\ D(k).val[z] = IF z = x THEN c.v ELSE D(e1).val[z]
                          /\ D(k).exp[z] = IF z = x THEN Never ELSE D(e1).exp[z]
      BY <1>2, <2>1, <2>3, WithIs DEF Never
    <3> QED BY <2>1, <2>5, <3>1
  <2>7. g.out = e2.out
    <3>1. CASE x = y
      <4>1. ~Expired(k, y) BY <1>2, <2>6, <3>1 DEF Expired, Never
      <4>2. g = k BY <1>2, <2>3, <4>1, ExpireIs
      <4>3. e2 = e1 BY <1>3, <3>1
      <4> QED BY <2>3, <4>2, <4>3
    <3>2. CASE x # y
      <4>1. Clock(k) = Clock(e1) BY <2>1, <2>3 DEF Clock
      <4>2. Expired(k, y) <=> Expired(e1, y) BY <1>2, <2>6, <3>2, <4>1 DEF Expired
      <4>3. CASE s.role = "master" /\ Expired(k, y)
        <5>1. g.out = Append(k.out, Del(y)) BY <1>2, <2>3, <4>3, ExpireIs
        <5>2. expireIfNeeded(e1, y).out = Append(e1.out, Del(y)) BY <1>2, <2>1, <4>2, <4>3, ExpireIs
        <5> QED BY <1>3, <2>3, <5>1, <5>2
      <4>4. CASE ~(s.role = "master" /\ Expired(k, y))
        <5>1. g = k BY <1>2, <2>3, <4>4, ExpireIs
        <5>2. expireIfNeeded(e1, y) = e1 BY <1>2, <2>1, <4>2, <4>4, ExpireIs
        <5> QED BY <1>3, <2>3, <5>1, <5>2
      <4> QED BY <4>3, <4>4
    <3> QED BY <3>1, <3>2
  <2>8. /\ g \in Servers
        /\ \A z \in Cell : z # y => g.val[z] = k.val[z] /\ g.exp[z] = k.exp[z]
    BY <1>2, <2>3, ExpireCells
  <2>9. \A z \in Cell : z # y => e2.val[z] = e1.val[z] /\ e2.exp[z] = e1.exp[z]
    BY <1>2, <1>3, <2>1, ExpireCells
  <2>10. D(g) \in Dataset /\ D(g).val = g.val /\ D(g).exp = g.exp BY <2>8, ServerParts
  <2> HIDE DEF g
  <2> DEFINE a == With(D(e2), x, c.v, Never)
             b == With(a, y, c.v, Never)
  <2>11. a \in Dataset /\ \A z \in Cell : /\ a.val[z] = IF z = x THEN c.v ELSE e2.val[z]
                                          /\ a.exp[z] = IF z = x THEN Never ELSE e2.exp[z]
    BY <1>2, <2>1, WithIs DEF Never
  <2>12. b \in Dataset /\ \A z \in Cell : /\ b.val[z] = IF z = y THEN c.v ELSE a.val[z]
                                          /\ b.exp[z] = IF z = y THEN Never ELSE a.exp[z]
    <3> HIDE DEF a
    <3> QED BY <1>2, <2>11, WithIs DEF Never
  <2>13. D(u) \in Dataset
         /\ \A z \in Cell : /\ D(u).val[z] = IF z = y THEN c.v ELSE g.val[z]
                            /\ D(u).exp[z] = IF z = y THEN Never ELSE g.exp[z]
    BY <1>2, <2>4, <2>10, WithIs DEF Never
  <2>14. D(u) = b
    <3> HIDE DEF a, b
    <3>1. \A z \in Cell : D(u).val[z] = b.val[z] /\ D(u).exp[z] = b.exp[z]
      BY <2>6, <2>8, <2>9, <2>11, <2>12, <2>13
    <3> QED BY <2>12, <2>13, <3>1, SameDataset
  <2>15. Applied(D(e2), c, Clock(s)) = b BY <2>1, <2>2 DEF Applied
  <2> HIDE DEF b
  <2>16. Outcome(s, c, Propagated(u, c)) BY <1>2, <1>3, <2>4, <2>7, <2>14, <2>15, OutcomeGo
  <2> QED BY <1>1, <1>5, <2>16
<1> QED BY <1>4, <1>5

\* DEL.
LEMMA DelOutcome ==
    ASSUME NEW s, NEW c, MayRun(s, c), c.op = "del"
    PROVE  Outcome(s, c, delCommand(s, c))
<1> DEFINE x == c.x
           y == c.y
           a == dbDelete(s, x)
           u == dbDelete(a, y)
<1>1. /\ s \in Servers /\ x \in Cell /\ y \in Cell /\ c \in Sendable /\ Aged(s, s)
      /\ D(s) \in Dataset /\ Timely(D(s)) /\ D(s).val = s.val
  BY MayRunParts
<1>2. a \in Servers /\ D(a) = Erased(D(s), x) /\ a.role = s.role /\ a.out = s.out
  BY <1>1, DeleteIs
<1> HIDE DEF a
<1>3. u \in Servers /\ D(u) = Erased(D(a), y) /\ u.role = s.role /\ u.out = s.out
  BY <1>1, <1>2, DeleteIs
<1> HIDE DEF u
<1>4. Applied(D(s), c, Clock(s)) = Erased(Erased(D(s), x), y) BY DEF Applied
<1>5. CASE s.val[x] = None /\ s.val[y] = None
  <2>1. D(s).exp[x] = Never /\ D(s).exp[y] = Never BY <1>1, <1>5 DEF Timely
  <2>2. Erased(D(s), x) = D(s) BY <1>1, <1>5, <2>1, WithSame DEF Erased
  <2>3. Erased(D(s), y) = D(s) BY <1>1, <1>5, <2>1, WithSame DEF Erased
  <2>4. delCommand(s, c) = s BY <1>5 DEF delCommand
  <2> QED BY <1>1, <1>4, <2>2, <2>3, <2>4, OutcomeStop
<1>6. CASE ~(s.val[x] = None /\ s.val[y] = None)
  <2>1. delCommand(s, c) = Propagated(u, c) BY <1>6 DEF delCommand, u, a
  <2> QED BY <1>1, <1>2, <1>3, <1>4, <2>1, OutcomeGo
<1> QED BY <1>5, <1>6

\* RENAME and RENAMENX: what is found when both keys have been looked up.
LEMMA RenameOutcome ==
    ASSUME NEW s, NEW c, MayRun(s, c), c.op = "rename"
    PROVE  Outcome(s, c, renameGenericCommand(s, c))
<1> DEFINE x == c.x
           y == c.y
           t == expireIfNeeded(s, x)
           u == expireIfNeeded(t, y)
           a == dbDelete(u, y)
           b == dbPut(a, y, t.val[x])
           w == setExpire(b, y, t.exp[x])
           k == dbDelete(w, x)
<1>1. /\ s \in Servers /\ x \in Cell /\ y \in Cell /\ now \in Nat /\ c \in Sendable
      /\ D(s).val = s.val /\ D(s).exp = s.exp
  BY MayRunParts
<1>2. /\ Aged(s, t) /\ expireIfNeeded(t, x) = t /\ ~(t.role = "master" /\ Expired(t, x))
      /\ s.role # "master" => t = s
  BY <1>1, LookedUp, ExpireCells
<1> HIDE DEF t
<1>3. Aged(s, u) /\ u.val[x] = t.val[x] /\ u.exp[x] = t.exp[x]
  BY <1>1, <1>2, LookedUpTwice
<1>4. renameGenericCommand(s, c) =
        IF t.val[x] = None THEN t
        ELSE IF u.val[y] # None /\ c.opt = "nx" THEN u ELSE Propagated(k, c)
  BY DEF renameGenericCommand, t
<1> HIDE DEF u
<1>5. /\ t \in Servers /\ t.val[x] \in Value /\ t.exp[x] \in Nat \cup {Never}
      /\ u \in Servers /\ u.role = s.role /\ D(u) \in Dataset
      /\ D(u).val = u.val /\ D(u).exp = u.exp
      /\ s.role # "master" => t = s /\ u = s
  BY <1>1, <1>2, <1>3, AgedParts
<1>6. CASE t.val[x] = None
  <2>1. s.role # "master" => Applied(D(s), c, Clock(s)) = D(s)
    BY <1>1, <1>5, <1>6 DEF Applied
  <2> QED BY <1>2, <1>4, <1>6, <2>1, OutcomeStop
<1>7. CASE t.val[x] # None /\ u.val[y] # None /\ c.opt = "nx"
  <2>1. s.role # "master" => Applied(D(s), c, Clock(s)) = D(s)
    BY <1>1, <1>5, <1>7 DEF Applied
  <2> QED BY <1>3, <1>4, <1>7, <2>1, OutcomeStop
<1>8. CASE t.val[x] # None /\ ~(u.val[y] # None /\ c.opt = "nx")
  <2>1. a \in Servers /\ D(a) = Erased(D(u), y) /\ a.role = s.role /\ a.out = u.out
    BY <1>1, <1>5, DeleteIs
  <2> HIDE DEF a
  <2>2. /\ b \in Servers /\ D(b) = With(D(a), y, t.val[x], a.exp[y])
        /\ b.role = s.role /\ b.out = u.out
    BY <1>1, <1>5, <2>1, PutIs
  <2> HIDE DEF b
  <2>3. /\ w \in Servers /\ D(w) = With(D(b), y, b.val[y], t.exp[x])
        /\ w.role = s.role /\ w.out = u.out
    BY <1>1, <1>5, <2>2, TimeIs
  <2> HIDE DEF w
  <2>4. k \in Servers /\ D(k) = Erased(D(w), x) /\ k.role = s.role /\ k.out = u.out
    BY <1>1, <2>3, DeleteIs
  <2> HIDE DEF k
  <2>5. D(a) \in Dataset /\ D(a).exp = a.exp /\ a.exp[y] \in Nat \cup {Never}
    BY <1>1, <2>1, ServerParts
  <2>6. D(b).val[y] = t.val[x] BY <1>1, <1>5, <2>2, <2>5, WithIs DEF Never
  <2>7. b.val[y] = t.val[x] BY <2>2, <2>6, ServerParts
  <2>8. D(w) = With(D(a), y, t.val[x], t.exp[x])
    BY <1>1, <1>5, <2>2, <2>3, <2>5, <2>7, WithWith DEF Never
  <2>9. None \in Value /\ Never \in Nat \cup {Never} BY DEF Value
  <2>10. D(w) = With(D(u), y, t.val[x], t.exp[x])
    BY <1>1, <1>5, <2>1, <2>8, <2>9, WithWith DEF Erased, Never
  <2>11. Applied(D(u), c, Clock(s)) = Erased(With(D(u), y, t.val[x], t.exp[x]), x)
    BY <1>3, <1>5, <1>8 DEF Applied
  <2>12. D(k) = Applied(D(u), c, Clock(s)) BY <2>4, <2>10, <2>11
  <2>13. Outcome(s, c, Propagated(k, c)) BY <1>1, <1>3, <2>4, <2>12, OutcomeGo
  <2> QED BY <1>4, <1>8, <2>13
<1> QED BY <1>6, <1>7, <1>8

\* MOVE.
LEMMA MoveOutcome ==
    ASSUME NEW s, NEW c, MayRun(s, c), c.op = "move"
    PROVE  Outcome(s, c, moveCommand(s, c))
<1> DEFINE x == c.x
           y == c.y
           t == expireIfNeeded(s, x)
           u == expireIfNeeded(t, y)
           b == dbPut(u, y, t.val[x])
           k == dbDelete(b, x)
<1>1. /\ s \in Servers /\ x \in Cell /\ y \in Cell /\ now \in Nat /\ c \in Sendable
      /\ D(s).val = s.val /\ D(s).exp = s.exp
  BY MayRunParts
<1>2. /\ Aged(s, t) /\ expireIfNeeded(t, x) = t /\ ~(t.role = "master" /\ Expired(t, x))
      /\ s.role # "master" => t = s
  BY <1>1, LookedUp, ExpireCells
<1> HIDE DEF t
<1>3. Aged(s, u) /\ u.val[x] = t.val[x] /\ u.exp[x] = t.exp[x]
  BY <1>1, <1>2, LookedUpTwice
<1>4. moveCommand(s, c) =
        IF t.val[x] = None THEN t
        ELSE IF u.val[y] # None THEN u ELSE Propagated(k, c)
  BY DEF moveCommand, t
<1> HIDE DEF u
<1>5. /\ t \in Servers /\ t.val[x] \in Value /\ t.exp[x] \in Nat \cup {Never}
      /\ u \in Servers /\ u.role = s.role /\ D(u) \in Dataset
      /\ D(u).val = u.val /\ D(u).exp = u.exp
      /\ s.role # "master" => t = s /\ u = s
  BY <1>1, <1>2, <1>3, AgedParts
<1>6. CASE t.val[x] = None
  <2>1. s.role # "master" => Applied(D(s), c, Clock(s)) = D(s)
    BY <1>1, <1>5, <1>6 DEF Applied
  <2> QED BY <1>2, <1>4, <1>6, <2>1, OutcomeStop
<1>7. CASE t.val[x] # None /\ u.val[y] # None
  <2>1. s.role # "master" => Applied(D(s), c, Clock(s)) = D(s)
    BY <1>1, <1>5, <1>7 DEF Applied
  <2> QED BY <1>3, <1>4, <1>7, <2>1, OutcomeStop
<1>8. CASE t.val[x] # None /\ u.val[y] = None
  <2>1. /\ b \in Servers /\ D(b) = With(D(u), y, t.val[x], u.exp[y])
        /\ b.role = s.role /\ b.out = u.out
    BY <1>1, <1>5, PutIs
  <2> HIDE DEF b
  <2>2. k \in Servers /\ D(k) = Erased(D(b), x) /\ k.role = s.role /\ k.out = u.out
    BY <1>1, <2>1, DeleteIs
  <2> HIDE DEF k
  <2>3. Applied(D(u), c, Clock(s)) = Erased(With(D(u), y, t.val[x], u.exp[y]), x)
    BY <1>3, <1>5, <1>8 DEF Applied
  <2>4. D(k) = Applied(D(u), c, Clock(s)) BY <2>1, <2>2, <2>3
  <2>5. Outcome(s, c, Propagated(k, c)) BY <1>1, <1>3, <2>2, <2>4, OutcomeGo
  <2> QED BY <1>4, <1>8, <2>5
<1> QED BY <1>6, <1>7, <1>8

\* PERSIST.
LEMMA PersistOutcome ==
    ASSUME NEW s, NEW c, MayRun(s, c), c.op = "persist"
    PROVE  Outcome(s, c, persistCommand(s, c))
<1> DEFINE x == c.x
           u == setExpire(s, x, Never)
<1>1. /\ s \in Servers /\ x \in Cell /\ c \in Sendable /\ Aged(s, s) /\ D(s) \in Dataset
      /\ D(s).val = s.val /\ D(s).exp = s.exp
  BY MayRunParts
<1>2. Applied(D(s), c, Clock(s)) = With(D(s), x, s.val[x], Never) BY <1>1 DEF Applied
<1>3. s.val[x] = None => s.exp[x] = Never BY <1>1, AgedParts
<1>4. CASE s.val[x] = None \/ s.exp[x] = Never
  <2>1. Applied(D(s), c, Clock(s)) = D(s) BY <1>1, <1>2, <1>3, <1>4, WithSame
  <2> QED BY <1>1, <1>4, <2>1, OutcomeStop DEF persistCommand
<1>5. CASE ~(s.val[x] = None \/ s.exp[x] = Never)
  <2>1. u \in Servers /\ D(u) = With(D(s), x, s.val[x], Never) /\ u.role = s.role /\ u.out = s.out
    BY <1>1, TimeIs
  <2>2. persistCommand(s, c) = Propagated(u, c) BY <1>5 DEF persistCommand
  <2> HIDE DEF u
  <2> QED BY <1>1, <1>2, <2>1, <2>2, OutcomeGo
<1> QED BY <1>4, <1>5

\* RESTORE.
LEMMA RestoreOutcome ==
    ASSUME NEW s, NEW c, MayRun(s, c), c.op = "restore"
    PROVE  Outcome(s, c, restoreCommand(s, c))
<1> DEFINE x == c.x
           t == expireIfNeeded(s, x)
           u == dbPut(t, x, c.v)
           w == IF c.ttl = 0 THEN u ELSE setExpire(u, x, Clock(s) + c.ttl)
           f == IF c.ttl = 0 THEN t.exp[x] ELSE Clock(s) + c.ttl
<1>1. /\ s \in Servers /\ x \in Cell /\ now \in Nat /\ Clock(s) \in Nat /\ c.v \in Value
      /\ c.ttl \in Int /\ c.ttl >= 0 /\ c \in Sendable
      /\ D(s).val = s.val /\ D(s).exp = s.exp
  BY MayRunParts
<1>2. Aged(s, t) /\ (s.role # "master" => t = s) BY LookedUp
<1>3. restoreCommand(s, c) = IF t.val[x] # None THEN t ELSE Propagated(w, c)
  BY DEF restoreCommand
<1> HIDE DEF t
<1>4. /\ t \in Servers /\ t.role = s.role /\ D(t) \in Dataset
      /\ D(t).val = t.val /\ D(t).exp = t.exp /\ t.exp[x] \in Nat \cup {Never}
  BY <1>1, <1>2, AgedParts
<1>5. CASE t.val[x] # None
  <2>1. s.role # "master" => Applied(D(s), c, Clock(s)) = D(s)
    BY <1>1, <1>2, <1>5 DEF Applied
  <2> QED BY <1>2, <1>3, <1>5, <2>1, OutcomeStop
<1>6. CASE t.val[x] = None
  <2>1. u \in Servers /\ D(u) = With(D(t), x, c.v, t.exp[x]) /\ u.role = s.role /\ u.out = t.out
    BY <1>1, <1>4, PutIs
  <2> HIDE DEF u
  <2>2. w \in Servers /\ D(w) = With(D(t), x, c.v, f) /\ w.role = s.role /\ w.out = t.out
    <3>1. CASE c.ttl = 0 BY <2>1, <3>1
    <3>2. CASE c.ttl # 0
      <4> DEFINE g == Clock(s) + c.ttl
      <4>1. g \in Nat \cup {Never} BY <1>1
      <4>2. f = g /\ w = setExpire(u, x, g) BY <3>2
      <4> HIDE DEF g
      <4>3. /\ setExpire(u, x, g) \in Servers /\ D(setExpire(u, x, g)) = With(D(u), x, u.val[x], g)
            /\ setExpire(u, x, g).role = s.role /\ setExpire(u, x, g).out = t.out
        BY <1>1, <2>1, <4>1, TimeIs
      <4>4. D(u).val[x] = c.v BY <1>1, <1>4, <2>1, WithIs DEF Never
      <4>5. u.val[x] = c.v BY <2>1, <4>4, ServerParts
      <4>6. With(D(u), x, c.v, g) = With(D(t), x, c.v, g) BY <1>1, <1>4, <2>1, <4>1, WithWith DEF Never
      <4> QED BY <4>2, <4>3, <4>5, <4>6
    <3> QED BY <3>1, <3>2
  <2> HIDE DEF w
  <2>3. Applied(D(t), c, Clock(s)) = With(D(t), x, c.v, f) BY <1>4, <1>6 DEF Applied
  <2>4. Outcome(s, c, Propagated(w, c)) BY <1>1, <1>2, <2>2, <2>3, OutcomeGo
  <2> QED BY <1>3, <1>6, <2>4
<1> QED BY <1>5, <1>6

\* EXPIRE and its kin: a time in the past is a DEL for the slave.
LEMMA ExpireOutcome ==
    ASSUME NEW s, NEW c, MayRun(s, c), c.op = "expire"
    PROVE  Outcome(s, c, expireGenericCommand(s, c))
<1> DEFINE x == c.x
           t == expireIfNeeded(s, x)
           when == IF c.opt = "at" THEN c.ttl ELSE Clock(s) + c.ttl
           gone == when <= Clock(s) /\ s.role = "master"
           a == dbDelete(t, x)
           u == setExpire(t, x, when)
<1>1. /\ s \in Servers /\ x \in Cell /\ now \in Nat /\ Clock(s) \in Nat /\ c.ttl \in Int
      /\ D(s).val = s.val /\ D(s).exp = s.exp
  BY MayRunParts
<1>2. Aged(s, t) /\ (s.role # "master" => t = s) BY LookedUp
<1>3. expireGenericCommand(s, c) =
        IF t.val[x] = None THEN t
        ELSE IF gone THEN Propagated(a, Del(x)) ELSE Propagated(u, c)
  BY DEF expireGenericCommand
<1> HIDE DEF t
<1>4. /\ t \in Servers /\ t.role = s.role /\ D(t) \in Dataset
      /\ D(t).val = t.val /\ D(t).exp = t.exp
  BY <1>1, <1>2, AgedParts
<1>5. CASE t.val[x] = None
  <2>1. s.role # "master" => Applied(D(s), c, Clock(s)) = D(s)
    BY <1>1, <1>2, <1>5 DEF Applied
  <2> QED BY <1>2, <1>3, <1>5, <2>1, OutcomeStop
<1>6. CASE t.val[x] # None /\ gone
  <2>1. a \in Servers /\ D(a) = Erased(D(t), x) /\ a.role = s.role /\ a.out = t.out
    BY <1>1, <1>4, DeleteIs
  <2> HIDE DEF a
  <2>2. Del(x) \in Sendable /\ D(a) = Applied(D(t), Del(x), Clock(s))
    BY <1>1, <1>4, <2>1, DelSent, DelApplied
  <2>3. Timeless(Del(x)) BY <1>1, DelSent DEF Timeless
  <2>4. Outcome(s, c, Propagated(a, Del(x))) BY <1>2, <1>6, <2>1, <2>2, <2>3, OutcomeGo
  <2> QED BY <1>3, <1>6, <2>4
<1>7. CASE t.val[x] # None /\ ~gone
  <2>1. c \in Sendable
    <3>1. CASE s.role # "master" BY <3>1 DEF MayRun
    <3>2. CASE s.role = "master"
      <4>1. when > Clock(s) BY <1>1, <1>7, <3>2
      <4>2. c.ttl > 0 BY <1>1, <4>1
      <4> QED BY <4>2 DEF MayRun, Sendable
    <3> QED BY <3>1, <3>2
  <2>2. c.ttl > 0 BY <2>1 DEF Sendable
  <2>3. when \in Nat \cup {Never} BY <1>1, <2>2
  <2> HIDE DEF when
  <2>4. u \in Servers /\ D(u) = With(D(t), x, t.val[x], when) /\ u.role = s.role /\ u.out = t.out
    BY <1>1, <1>4, <2>3, TimeIs
  <2> HIDE DEF u
  <2>5. Applied(D(t), c, Clock(s)) = With(D(t), x, t.val[x], when)
    BY <1>4, <1>7 DEF Applied, when
  <2>6. Outcome(s, c, Propagated(u, c)) BY <1>2, <2>1, <2>4, <2>5, OutcomeGo
  <2> QED BY <1>3, <1>7, <2>6
<1> QED BY <1>5, <1>6, <1>7

\* There are finitely many cells.
LEMMA CellFinite == IsFiniteSet(Cell)
BY KeyspaceConstants, FS_Product DEF Cell

\* Deleting a set of cells one by one.
LEMMA DeletedAll ==
    ASSUME NEW s \in Servers, NEW X \in SUBSET Cell
    PROVE  LET r == FoldLeft(dbDelete, s, SetToSeq(X))
           IN  /\ r \in Servers /\ r.role = s.role /\ r.out = s.out
               /\ \A z \in Cell : /\ D(r).val[z] = IF z \in X THEN None ELSE s.val[z]
                                  /\ D(r).exp[z] = IF z \in X THEN Never ELSE s.exp[z]
<1>1. IsFiniteSet(X) BY CellFinite, FS_Subset
<1>2. PICK q \in Seq(Cell) : /\ q = SetToSeq(X)
                             /\ \A i \in 1..Len(q) : q[i] \in X
                             /\ \A x \in X : \E i \in 1..Len(q) : q[i] = x
  <2>1. SetToSeq(X) \in Seq(X) BY <1>1, SetToSeqIs
  <2>2. SetToSeq(X) \in Seq(Cell) BY <2>1
  <2>3. \A i \in 1..Len(SetToSeq(X)) : SetToSeq(X)[i] \in X BY <2>1
  <2> QED BY <1>1, <2>2, <2>3, SetToSeqIs
<1>3. PICK f \in [0..Len(q) -> Servers] :
        /\ f[0] = s
        /\ \A k \in 1..Len(q) : f[k] = dbDelete(f[k - 1], q[k])
        /\ FoldLeft(dbDelete, s, q) = f[Len(q)]
  BY DeleteStages
<1>4. PICK n \in Nat : n = Len(q) OBVIOUS
<1> DEFINE Gone(k, z) == \E i \in 1..k : q[i] = z
           Good(k) == /\ f[k].role = s.role /\ f[k].out = s.out
                      /\ \A z \in Cell : /\ f[k].val[z] = IF Gone(k, z) THEN None ELSE s.val[z]
                                         /\ f[k].exp[z] = IF Gone(k, z) THEN Never ELSE s.exp[z]
           P == {k \in Nat : k <= n => Good(k)}
<1>5. 0 \in P
  <2>1. \A z \in Cell : ~Gone(0, z) OBVIOUS
  <2> HIDE DEF Gone
  <2> QED BY <1>3, <2>1
<1>6. \A k \in P : k + 1 \in P
  <2> SUFFICES ASSUME NEW k \in Nat, k <= n => Good(k), k + 1 <= n PROVE Good(k + 1)
    OBVIOUS
  <2>1. k \in 0..n /\ k + 1 \in 1..n /\ (k + 1) - 1 = k BY <1>4
  <2>2. Good(k) BY <2>1
  <2>3. f[k] \in Servers /\ q[k + 1] \in Cell /\ f[k + 1] = dbDelete(f[k], q[k + 1])
    BY <1>3, <1>4, <2>1
  <2>4. \A z \in Cell : Gone(k + 1, z) <=> Gone(k, z) \/ z = q[k + 1]
    <3> SUFFICES ASSUME NEW z \in Cell
                 PROVE  Gone(k + 1, z) <=> Gone(k, z) \/ z = q[k + 1]
      OBVIOUS
    <3>1. 1..(k + 1) = 1..k \cup {k + 1} BY <2>1
    <3> QED BY <3>1
  <2> HIDE DEF Gone
  <2>5. PICK v \in Dataset : v = D(f[k]) /\ v.val = f[k].val /\ v.exp = f[k].exp
    BY <2>3, ServerParts
  <2>6. PICK t \in Servers : t = f[k + 1] /\ D(t) = Erased(v, q[k + 1])
                             /\ t.role = f[k].role /\ t.out = f[k].out
    BY <2>3, <2>5, DeleteIs
  <2>7. D(t).val = t.val /\ D(t).exp = t.exp BY <2>6, ServerParts
  <2>8. \A z \in Cell : /\ t.val[z] = IF z = q[k + 1] THEN None ELSE v.val[z]
                        /\ t.exp[z] = IF z = q[k + 1] THEN Never ELSE v.exp[z]
    BY <2>3, <2>6, <2>7, ErasedIs
  <2> QED BY <2>2, <2>4, <2>5, <2>6, <2>8
<1> HIDE DEF Good
<1>7. P = Nat
  <2>1. P \in SUBSET Nat OBVIOUS
  <2> HIDE DEF P
  <2> QED BY <1>5, <1>6, <2>1, NatSet
<1>8. Good(n) BY <1>7
<1>9. \A z \in Cell : Gone(n, z) <=> z \in X BY <1>2, <1>4
<1>10. f[n] \in Servers BY <1>3, <1>4
<1>11. D(f[n]).val = f[n].val /\ D(f[n]).exp = f[n].exp BY <1>10, ServerParts
<1> HIDE DEF Gone
<1> QED BY <1>2, <1>3, <1>4, <1>8, <1>9, <1>10, <1>11 DEF Good

\* FLUSHDB.
LEMMA FlushdbOutcome ==
    ASSUME NEW s, NEW c, MayRun(s, c), c.op = "flushdb"
    PROVE  Outcome(s, c, flushdbCommand(s, c))
<1> DEFINE X == In(s, c.x[1])
           t == FoldLeft(dbDelete, s, SetToSeq(X))
           v == D(s)
           w == [val |-> [z \in Cell |-> IF z[1] = c.x[1] THEN None ELSE v.val[z]],
                 exp |-> [z \in Cell |-> IF z[1] = c.x[1] THEN Never ELSE v.exp[z]]]
<1>1. /\ s \in Servers /\ c \in Sendable /\ Aged(s, s) /\ v \in Dataset
      /\ v.val = s.val /\ v.exp = s.exp
  BY MayRunParts
<1>2. \A z \in Cell : s.val[z] = None => s.exp[z] = Never BY <1>1, AgedParts
<1>3. flushdbCommand(s, c) = IF X = {} THEN s ELSE Propagated(t, c)
  BY DEF flushdbCommand
<1>4. X \in SUBSET Cell /\ \A z \in Cell : z \in X <=> z[1] = c.x[1] /\ s.val[z] # None
  BY DEF In
<1>5. Applied(v, c, Clock(s)) = w
  <2> HIDE DEF v
  <2> QED BY DEF Applied
<1>6. w \in Dataset
  <2>1. \A z \in Cell : v.val[z] \in Value /\ v.exp[z] \in Nat \cup {Never} BY <1>1 DEF Dataset
  <2>2. None \in Value /\ Never \in Nat \cup {Never} BY DEF Value
  <2> HIDE DEF v
  <2> QED BY <2>1, <2>2 DEF Dataset
<1>7. \A z \in Cell : /\ w.val[z] = IF z \in X THEN None ELSE s.val[z]
                      /\ w.exp[z] = IF z \in X THEN Never ELSE s.exp[z]
  <2> HIDE DEF v, X
  <2> QED BY <1>1, <1>2, <1>4
<1> HIDE DEF v, w, X
<1>8. CASE X = {}
  <2>1. w = v BY <1>1, <1>6, <1>7, <1>8, SameDataset
  <2> QED BY <1>1, <1>3, <1>5, <1>8, <2>1, OutcomeStop DEF v
<1>9. CASE X # {}
  <2>1. /\ t \in Servers /\ t.role = s.role /\ t.out = s.out
        /\ \A z \in Cell : /\ D(t).val[z] = IF z \in X THEN None ELSE s.val[z]
                           /\ D(t).exp[z] = IF z \in X THEN Never ELSE s.exp[z]
    BY <1>1, <1>4, DeletedAll
  <2> HIDE DEF t
  <2>2. D(t) \in Dataset BY <2>1, ServerParts
  <2>3. D(t) = w BY <1>6, <1>7, <2>1, <2>2, SameDataset
  <2>4. D(t) = Applied(D(s), c, Clock(s)) BY <1>5, <2>3 DEF v
  <2>5. Outcome(s, c, Propagated(t, c)) BY <1>1, <2>1, <2>4, OutcomeGo
  <2> QED BY <1>3, <1>9, <2>5
<1> QED BY <1>8, <1>9

\* FLUSHALL.
LEMMA FlushallOutcome ==
    ASSUME NEW s, NEW c, MayRun(s, c), c.op = "flushall"
    PROVE  Outcome(s, c, flushallCommand(s, c))
<1> DEFINE t == FoldLeft(dbDelete, s, SetToSeq(Cell))
           w == [val |-> [z \in Cell |-> None], exp |-> [z \in Cell |-> Never]]
<1>1. s \in Servers /\ c \in Sendable /\ Aged(s, s) BY MayRunParts
<1>2. flushallCommand(s, c) = Propagated(t, c) BY DEF flushallCommand
<1>3. Applied(D(s), c, Clock(s)) = w BY DEF Applied
<1>4. w \in Dataset BY DEF Dataset, Value
<1>5. /\ t \in Servers /\ t.role = s.role /\ t.out = s.out
      /\ \A z \in Cell : D(t).val[z] = None /\ D(t).exp[z] = Never
  BY <1>1, DeletedAll
<1>6. \A z \in Cell : w.val[z] = None /\ w.exp[z] = Never OBVIOUS
<1> HIDE DEF t, w
<1>7. D(t) \in Dataset BY <1>5, ServerParts
<1>8. D(t) = w BY <1>4, <1>5, <1>6, <1>7, SameDataset
<1>9. Outcome(s, c, Propagated(t, c)) BY <1>1, <1>3, <1>5, <1>8, OutcomeGo
<1> QED BY <1>2, <1>9

\* GET and the commands that look one key up.
LEMMA GetOutcome ==
    ASSUME NEW s, NEW c, MayRun(s, c), c.op = "get"
    PROVE  Outcome(s, c, lookupKeyRead(s, c))
<1>1. Aged(s, expireIfNeeded(s, c.x)) BY LookedUp
<1>2. Applied(D(s), c, Clock(s)) = D(s) BY DEF Applied
<1> QED BY <1>1, <1>2, OutcomeStop DEF lookupKeyRead

\* Looking a set of keys up.
LEMMA AgedAll ==
    ASSUME NEW s, Aged(s, s), NEW X \in SUBSET Cell, now \in Nat
    PROVE  Aged(s, ExpireAll(s, X))
<1>1. IsFiniteSet(X) BY CellFinite, FS_Subset
<1>2. PICK q \in Seq(Cell) : q = SetToSeq(X)
  <2>1. SetToSeq(X) \in Seq(X) BY <1>1, SetToSeqIs
  <2> QED BY <2>1
<1>3. s \in Servers BY DEF Aged
<1>4. PICK f \in [0..Len(q) -> Servers] :
        /\ f[0] = s
        /\ \A k \in 1..Len(q) : f[k] = expireIfNeeded(f[k - 1], q[k])
        /\ FoldLeft(expireIfNeeded, s, q) = f[Len(q)]
  BY <1>3, ExpireStages
<1>5. PICK n \in Nat : n = Len(q) OBVIOUS
<1> DEFINE P == {k \in Nat : k <= n => Aged(s, f[k])}
<1>6. 0 \in P BY <1>4
<1>7. \A k \in P : k + 1 \in P
  <2> SUFFICES ASSUME NEW k \in Nat, k <= n => Aged(s, f[k]), k + 1 <= n
               PROVE  Aged(s, f[k + 1])
    OBVIOUS
  <2>1. k + 1 \in 1..n /\ (k + 1) - 1 = k /\ Aged(s, f[k]) OBVIOUS
  <2>2. q[k + 1] \in Cell /\ f[k + 1] = expireIfNeeded(f[k], q[k + 1])
    BY <1>4, <1>5, <2>1
  <2> QED BY <2>1, <2>2, AgedExpire
<1>8. P = Nat
  <2>1. P \in SUBSET Nat OBVIOUS
  <2> HIDE DEF P
  <2> QED BY <1>6, <1>7, <2>1, NatSet
<1>9. Aged(s, f[n]) BY <1>8
<1> QED BY <1>2, <1>4, <1>5, <1>9 DEF ExpireAll

\* KEYS.
LEMMA KeysOutcome ==
    ASSUME NEW s, NEW c, MayRun(s, c), c.op = "keys"
    PROVE  Outcome(s, c, keysCommand(s, c))
<1>1. now \in Nat /\ Aged(s, s) BY MayRunParts
<1>2. In(s, c.x[1]) \in SUBSET Cell BY DEF In
<1>3. Aged(s, ExpireAll(s, In(s, c.x[1]))) BY <1>1, <1>2, AgedAll
<1>4. Applied(D(s), c, Clock(s)) = D(s) BY DEF Applied
<1> QED BY <1>3, <1>4, OutcomeStop DEF keysCommand

\* What one command does, on a master, a slave or the loader of the file.
LEMMA ExecOutcome ==
    ASSUME NEW s, NEW c, MayRun(s, c)
    PROVE  Outcome(s, c, Exec(s, c))
<1>1. c.op \in Ops BY DEF MayRun, Command
<1>2. CASE c.op \in {"set", "setex"}
  <2>1. Exec(s, c) = setGenericCommand(s, c) BY <1>2 DEF Exec
  <2> QED BY <1>2, <2>1, SetOutcome
<1>3. CASE c.op = "getset"
  <2>1. Exec(s, c) = getsetCommand(s, c) BY <1>3 DEF Exec
  <2> QED BY <1>3, <2>1, GetsetOutcome
<1>4. CASE c.op \in {"incr", "append"}
  <2>1. Exec(s, c) = Changed(s, c, FALSE) BY <1>4 DEF Exec, incrDecrCommand, appendCommand
  <2> QED BY <1>4, <2>1, ChangedOutcome
<1>5. CASE c.op = "incrbyfloat"
  <2>1. Exec(s, c) = Changed(s, c, TRUE) BY <1>5 DEF Exec, incrbyfloatCommand
  <2> QED BY <1>5, <2>1, ChangedOutcome
<1>6. CASE c.op = "setrange"
  <2>1. Exec(s, c) = setrangeCommand(s, c) BY <1>6 DEF Exec
  <2> QED BY <1>6, <2>1, SetrangeOutcome
<1>7. CASE c.op = "mset"
  <2>1. Exec(s, c) = msetGenericCommand(s, c) BY <1>7 DEF Exec
  <2> QED BY <1>7, <2>1, MsetOutcome
<1>8. CASE c.op = "del"
  <2>1. Exec(s, c) = delCommand(s, c) BY <1>8 DEF Exec
  <2> QED BY <1>8, <2>1, DelOutcome
<1>9. CASE c.op = "rename"
  <2>1. Exec(s, c) = renameGenericCommand(s, c) BY <1>9 DEF Exec
  <2> QED BY <1>9, <2>1, RenameOutcome
<1>10. CASE c.op = "move"
  <2>1. Exec(s, c) = moveCommand(s, c) BY <1>10 DEF Exec
  <2> QED BY <1>10, <2>1, MoveOutcome
<1>11. CASE c.op = "expire"
  <2>1. Exec(s, c) = expireGenericCommand(s, c) BY <1>11 DEF Exec
  <2> QED BY <1>11, <2>1, ExpireOutcome
<1>12. CASE c.op = "persist"
  <2>1. Exec(s, c) = persistCommand(s, c) BY <1>12 DEF Exec
  <2> QED BY <1>12, <2>1, PersistOutcome
<1>13. CASE c.op = "restore"
  <2>1. Exec(s, c) = restoreCommand(s, c) BY <1>13 DEF Exec
  <2> QED BY <1>13, <2>1, RestoreOutcome
<1>14. CASE c.op = "flushdb"
  <2>1. Exec(s, c) = flushdbCommand(s, c) BY <1>14 DEF Exec
  <2> QED BY <1>14, <2>1, FlushdbOutcome
<1>15. CASE c.op = "flushall"
  <2>1. Exec(s, c) = flushallCommand(s, c) BY <1>15 DEF Exec
  <2> QED BY <1>15, <2>1, FlushallOutcome
<1>16. CASE c.op = "keys"
  <2>1. Exec(s, c) = keysCommand(s, c) BY <1>16 DEF Exec
  <2> QED BY <1>16, <2>1, KeysOutcome
<1>17. CASE c.op = "get"
  <2>1. Exec(s, c) = lookupKeyRead(s, c) BY <1>17 DEF Exec
  <2> QED BY <1>17, <2>1, GetOutcome
<1> QED
  BY <1>1, <1>2, <1>3, <1>4, <1>5, <1>6, <1>7, <1>8, <1>9, <1>10, <1>11, <1>12, <1>13,
     <1>14, <1>15, <1>16, <1>17 DEF Ops

-----------------------------------------------------------------------------
(* A server that runs what it is sent, and the append only file.           *)

Copies == {s \in Servers : s.role # "master" /\ Timely(D(s)) /\ s.out = <<>>}

\* What was propagated has been taken.
LEMMA EmptiedIs ==
    ASSUME NEW e \in Servers
    PROVE  LET r == [e EXCEPT !.out = <<>>]
           IN  r \in Servers /\ r.role = e.role /\ r.out = <<>> /\ D(r) = D(e)
<1> DEFINE r == [e EXCEPT !.out = <<>>]
<1>1. <<>> \in Seq(Sendable) OBVIOUS
<1>2. r \in Servers BY <1>1 DEF Servers
<1>3. r.role = e.role /\ r.val = e.val /\ r.exp = e.exp /\ r.out = <<>> BY DEF Servers
<1> HIDE DEF r
<1>4. D(r) = D(e) BY <1>3 DEF D
<1> QED BY <1>2, <1>3, <1>4 DEF r

\* One command, on such a server.
LEMMA CopyRuns ==
    ASSUME NEW s \in Copies, NEW c \in Sendable, now \in Nat
    PROVE  LET r == [Exec(s, c) EXCEPT !.out = <<>>]
           IN  r \in Copies /\ r.role = s.role /\ D(r) = Applied(D(s), c, Clock(s))
<1>1. MayRun(s, c) BY DEF Copies, MayRun, Sendable
<1>2. PICK e : e = Exec(s, c) /\ Outcome(s, c, e) BY <1>1, ExecOutcome
<1>3. /\ e \in Servers /\ Timely(D(e)) /\ e.role = s.role /\ s.role # "master"
      /\ D(e) = Applied(D(s), c, Clock(s))
  BY <1>2 DEF Outcome, Copies
<1> DEFINE r == [e EXCEPT !.out = <<>>]
<1>4. r \in Servers /\ r.role = e.role /\ r.out = <<>> /\ D(r) = D(e) BY <1>3, EmptiedIs
<1> HIDE DEF r
<1>5. r \in Copies /\ r.role = s.role /\ D(r) = Applied(D(s), c, Clock(s))
  BY <1>3, <1>4 DEF Copies
<1> QED BY <1>2, <1>5 DEF r

\* All commands of q are run.
LEMMA RunStages ==
    ASSUME NEW base \in Copies, NEW q \in Seq(Sendable),
           now \in Nat
    PROVE  \E f \in [0..Len(q) -> Copies] :
             /\ f[0] = base
             /\ \A k \in 1..Len(q) : f[k] = [Exec(f[k - 1], q[k]) EXCEPT !.out = <<>>]
             /\ Run(base, q) = f[Len(q)]
<1> DEFINE n == Len(q)
           e(v, i) == [Exec(v, q[i]) EXCEPT !.out = <<>>]
           step == [i \in 1..n |-> [v \in Copies |-> e(v, i)]]
           Eqn(g) == g = [s \in SUBSET DOMAIN q |->
                       IF s = {} THEN base ELSE e(g[s \ {Max(s)}], Max(s))]
           h == CHOOSE g : Eqn(g)
<1>1. n \in Nat /\ DOMAIN q = 1..n OBVIOUS
<1>2. \A i \in 1..n : \A v \in Copies : e(v, i) \in Copies BY CopyRuns
<1>3. Run(base, q) = h[DOMAIN q] BY DEF FoldLeft, MapThenFoldSet, Run
<1> HIDE DEF n, e
<1>4. step \in [1..n -> [Copies -> Copies]] BY <1>2
<1>5. \A i \in 1..n : \A v \in Copies : step[i][v] = e(v, i) OBVIOUS
<1> HIDE DEF step
<1>6. PICK g \in [SUBSET (1..n) -> Copies] : FoldRule(g, n, base, step)
  BY <1>1, <1>4, FoldExists
<1>7. ASSUME NEW s \in SUBSET (1..n), s # {}
      PROVE  Max(s) \in 1..n /\ s \ {Max(s)} \in SUBSET (1..n)
  BY <1>1, <1>7, MaxIn
<1>8. Eqn(g)
  <2>1. \A s \in SUBSET (1..n) : g[s] = IF s = {} THEN base ELSE e(g[s \ {Max(s)}], Max(s))
    BY <1>5, <1>6, <1>7 DEF FoldRule
  <2>2. g = [s \in SUBSET (1..n) |-> g[s]] BY <1>6
  <2> QED BY <1>1, <2>1, <2>2
<1>9. Eqn(h) BY <1>8
<1> HIDE DEF h
<1>10. \A s \in SUBSET (1..n) :
          h[s] = IF s = {} THEN base ELSE e(h[s \ {Max(s)}], Max(s))
  BY <1>1, <1>9
<1>11. FoldGoes(h, n, Copies, base, step)
  <2>1. h[{}] = base BY <1>10
  <2>2. ASSUME NEW s \in SUBSET (1..n), s # {}, h[s \ {Max(s)}] \in Copies
        PROVE  h[s] = step[Max(s)][h[s \ {Max(s)}]]
    BY <1>5, <1>7, <1>10, <2>2
  <2> QED BY <2>1, <2>2 DEF FoldGoes
<1>0. n \in Nat BY <1>1
<1>14. Taken(h, n, Copies, base, step) BY <1>0, <1>4, <1>11, FoldTaken
<1>12. PICK f \in [0..n -> Copies] :
          /\ f[0] = base /\ f[n] = h[1..n]
          /\ \A k \in 1..n : f[k] = step[k][f[k - 1]]
  BY <1>14 DEF Taken
<1>13. ASSUME NEW k \in 1..n PROVE f[k] = e(f[k - 1], k)
  <2>1. k - 1 \in 0..n BY <1>1
  <2> QED BY <1>5, <1>12, <2>1
<1> QED BY <1>1, <1>3, <1>12, <1>13 DEF e, n

\* What comes of it.
LEMMA RunIs ==
    ASSUME NEW s \in Copies, NEW q \in Seq(Sendable), now \in Nat
    PROVE  LET r == Run(s, q)
           IN  r \in Copies /\ r.role = s.role /\ Leads(D(s), q, D(r), {Clock(s)})
<1>1. PICK f \in [0..Len(q) -> Copies] :
        /\ f[0] = s
        /\ \A k \in 1..Len(q) : f[k] = [Exec(f[k - 1], q[k]) EXCEPT !.out = <<>>]
        /\ Run(s, q) = f[Len(q)]
  BY RunStages
<1>2. PICK n \in Nat : n = Len(q) OBVIOUS
<1>3. \A k \in 1..n : /\ f[k].role = f[k - 1].role
                      /\ D(f[k]) = Applied(D(f[k - 1]), q[k], Clock(f[k - 1]))
  <2> SUFFICES ASSUME NEW k \in 1..n
               PROVE  /\ f[k].role = f[k - 1].role
                      /\ D(f[k]) = Applied(D(f[k - 1]), q[k], Clock(f[k - 1]))
    OBVIOUS
  <2>1. f[k - 1] \in Copies /\ q[k] \in Sendable BY <1>1, <1>2
  <2>2. f[k] = [Exec(f[k - 1], q[k]) EXCEPT !.out = <<>>] BY <1>1, <1>2
  <2> QED BY <2>1, <2>2, CopyRuns
<1> DEFINE P == {k \in Nat : k <= n => f[k].role = s.role}
<1>4. 0 \in P BY <1>1
<1>5. \A k \in P : k + 1 \in P
  <2> SUFFICES ASSUME NEW k \in Nat, k <= n => f[k].role = s.role, k + 1 <= n
               PROVE  f[k + 1].role = s.role
    OBVIOUS
  <2>1. k + 1 \in 1..n /\ (k + 1) - 1 = k OBVIOUS
  <2> QED BY <1>3, <2>1
<1>6. P = Nat
  <2>1. P \in SUBSET Nat OBVIOUS
  <2> HIDE DEF P
  <2> QED BY <1>4, <1>5, <2>1, NatSet
<1>7. \A k \in 0..n : f[k].role = s.role /\ Clock(f[k]) = Clock(s)
  <2>1. \A k \in 0..n : f[k].role = s.role BY <1>6
  <2> QED BY <2>1 DEF Clock
<1> DEFINE g == [k \in 0..n |-> D(f[k])]
<1>8. \A k \in 0..n : f[k] \in Copies /\ D(f[k]) \in Dataset /\ Timely(D(f[k]))
  <2> SUFFICES ASSUME NEW k \in 0..n
               PROVE  f[k] \in Copies /\ D(f[k]) \in Dataset /\ Timely(D(f[k]))
    OBVIOUS
  <2>1. f[k] \in Copies BY <1>1, <1>2
  <2> QED BY <2>1, ServerParts DEF Copies
<1>9. g \in [0..n -> Dataset] BY <1>8
<1>10. \A k \in 0..n : g[k] = D(f[k]) OBVIOUS
<1> HIDE DEF g
<1>11. g[0] = D(s) /\ g[n] = D(f[n]) BY <1>1, <1>10
<1>12. \A k \in 0..n : Timely(g[k]) BY <1>8, <1>10
<1>13. \A k \in 1..n : \E t \in {Clock(s)} : g[k] = Applied(g[k - 1], q[k], t)
  <2> SUFFICES ASSUME NEW k \in 1..n
               PROVE  g[k] = Applied(g[k - 1], q[k], Clock(s))
    OBVIOUS
  <2>1. k - 1 \in 0..n /\ k \in 0..n OBVIOUS
  <2> QED BY <1>3, <1>7, <1>10, <2>1
<1>14. Leads(D(s), q, D(f[n]), {Clock(s)}) BY <1>2, <1>9, <1>11, <1>12, <1>13, LeadsHere
<1> QED BY <1>1, <1>2, <1>7, <1>8, <1>14

\* At one time the commands lead to one dataset.
LEMMA LeadsSame ==
    ASSUME NEW v, NEW q \in Seq(Sendable), NEW w, NEW z, NEW t,
           Leads(v, q, w, {t}), Leads(v, q, z, {t})
    PROVE  w = z
<1>1. PICK f \in [0..Len(q) -> Dataset] :
        /\ f[0] = v /\ f[Len(q)] = w
        /\ \A k \in 1..Len(q) : \E i \in {t} : f[k] = Applied(f[k - 1], q[k], i)
  BY DEF Leads
<1>2. PICK g \in [0..Len(q) -> Dataset] :
        /\ g[0] = v /\ g[Len(q)] = z
        /\ \A k \in 1..Len(q) : \E i \in {t} : g[k] = Applied(g[k - 1], q[k], i)
  BY DEF Leads
<1>3. PICK n \in Nat : n = Len(q) OBVIOUS
<1> DEFINE P == {k \in Nat : k <= n => f[k] = g[k]}
<1>4. 0 \in P BY <1>1, <1>2
<1>5. \A k \in P : k + 1 \in P
  <2> SUFFICES ASSUME NEW k \in Nat, k <= n => f[k] = g[k], k + 1 <= n
               PROVE  f[k + 1] = g[k + 1]
    OBVIOUS
  <2>1. k + 1 \in 1..n /\ (k + 1) - 1 = k /\ f[k] = g[k] OBVIOUS
  <2>2. f[k + 1] = Applied(f[k], q[k + 1], t) BY <1>1, <1>3, <2>1
  <2>3. g[k + 1] = Applied(g[k], q[k + 1], t) BY <1>2, <1>3, <2>1
  <2> QED BY <2>1, <2>2, <2>3
<1>6. P = Nat
  <2>1. P \in SUBSET Nat OBVIOUS
  <2> HIDE DEF P
  <2> QED BY <1>4, <1>5, <2>1, NatSet
<1> QED BY <1>1, <1>2, <1>3, <1>6

\* The commands of a translation.
Shapes == [op : Ops, x : Cell, y : Cell, v : Int, opt : {"none", "nx", "xx", "at"}, ttl : Int]

\* The time of a command is made an instant.
LEMMA Timed ==
    ASSUME NEW c \in Command, c.op = "expire", NEW e \in Int, e > 0
    PROVE  [c EXCEPT !.opt = "at", !.ttl = e] \in Sendable
<1> DEFINE a == [c EXCEPT !.opt = "at"]
           k == [a EXCEPT !.ttl = e]
<1>1. c \in Shapes BY DEF Command, Shapes
<1>2. a \in Shapes /\ a.op = c.op BY <1>1 DEF Shapes
<1> HIDE DEF a
<1>3. k \in Shapes /\ k.op = a.op /\ k.ttl = e BY <1>2 DEF Shapes
<1> HIDE DEF k
<1>4. k \in Sendable BY <1>2, <1>3 DEF Sendable, Command, Shapes
<1> QED BY <1>4 DEF a, k

\* A command is made a SET without a time.
LEMMA Untied ==
    ASSUME NEW c \in Command
    PROVE  [c EXCEPT !.op = "set", !.ttl = 0] \in Sendable
<1> DEFINE a == [c EXCEPT !.op = "set"]
           k == [a EXCEPT !.ttl = 0]
<1>1. c \in Shapes BY DEF Command, Shapes
<1>2. a \in Shapes /\ a.op = "set" BY <1>1 DEF Shapes, Ops
<1> HIDE DEF a
<1>3. k \in Shapes /\ k.op = a.op /\ k.ttl = 0 BY <1>2 DEF Shapes
<1> HIDE DEF k
<1>4. k \in Sendable BY <1>2, <1>3 DEF Sendable, Command, Shapes
<1> QED BY <1>4 DEF a, k

\* What the append only file holds of a command.
LEMMA FedType ==
    ASSUME NEW c \in Sendable, now \in Nat
    PROVE  feedAppendOnlyFile(c) \in Seq(Sendable)
<1>1. c \in Command /\ (c.op = "expire" => c.ttl > 0) /\ c.x \in Cell /\ c.ttl \in Int
  BY DEF Sendable, Command
<1>2. CASE c.op = "expire" /\ c.opt # "at"
  <2> DEFINE k == [c EXCEPT !.opt = "at", !.ttl = now + c.ttl]
  <2>1. PICK e \in Int : e = now + c.ttl /\ e > 0 BY <1>1, <1>2
  <2>2. k = [c EXCEPT !.opt = "at", !.ttl = e] BY <2>1
  <2>3. k \in Sendable BY <1>1, <1>2, <2>1, <2>2, Timed
  <2>4. feedAppendOnlyFile(c) = <<k>> BY <1>2 DEF feedAppendOnlyFile
  <2> HIDE DEF k
  <2> QED BY <2>3, <2>4
<1>3. CASE c.op = "setex"
  <2> DEFINE k == [c EXCEPT !.op = "set", !.ttl = 0]
             j == Cmd("expire", c.x, c.x, 0, "at", now + c.ttl)
  <2>1. k \in Sendable BY <1>1, <1>3, Untied
  <2>2. c.ttl > 0 BY <1>1, <1>3 DEF Command
  <2>3. j \in Sendable BY <1>1, <2>2 DEF Sendable, Command, Ops, Cmd
  <2>4. feedAppendOnlyFile(c) = <<k, j>> BY <1>3 DEF feedAppendOnlyFile
  <2> HIDE DEF k, j
  <2> QED BY <2>1, <2>3, <2>4
<1>4. CASE ~(c.op = "expire" /\ c.opt # "at") /\ c.op # "setex"
  <2>1. feedAppendOnlyFile(c) = <<c>> BY <1>4 DEF feedAppendOnlyFile
  <2> QED BY <2>1
<1> QED BY <1>2, <1>3, <1>4

\* All commands of q are written.
LEMMA FedStages ==
    ASSUME NEW q \in Seq(Sendable),
           now \in Nat
    PROVE  \E f \in [0..Len(q) -> Seq(Sendable)] :
             /\ f[0] = <<>>
             /\ \A k \in 1..Len(q) : f[k] = f[k - 1] \o feedAppendOnlyFile(q[k])
             /\ Written(q) = f[Len(q)]
<1> DEFINE n == Len(q)
           e(v, i) == v \o feedAppendOnlyFile(q[i])
           step == [i \in 1..n |-> [v \in Seq(Sendable) |-> e(v, i)]]
           Eqn(g) == g = [s \in SUBSET DOMAIN q |->
                       IF s = {} THEN <<>> ELSE e(g[s \ {Max(s)}], Max(s))]
           h == CHOOSE g : Eqn(g)
<1>1. n \in Nat /\ DOMAIN q = 1..n /\ <<>> \in Seq(Sendable) OBVIOUS
<1>2. \A i \in 1..n : \A v \in Seq(Sendable) : e(v, i) \in Seq(Sendable) BY FedType
<1>3. Written(q) = h[DOMAIN q] BY DEF FoldLeft, MapThenFoldSet, Written
<1> HIDE DEF n, e
<1>4. step \in [1..n -> [Seq(Sendable) -> Seq(Sendable)]] BY <1>2
<1>5. \A i \in 1..n : \A v \in Seq(Sendable) : step[i][v] = e(v, i) OBVIOUS
<1> HIDE DEF step
<1>6. PICK g \in [SUBSET (1..n) -> Seq(Sendable)] : FoldRule(g, n, <<>>, step)
  BY <1>1, <1>4, FoldExists
<1>7. ASSUME NEW s \in SUBSET (1..n), s # {}
      PROVE  Max(s) \in 1..n /\ s \ {Max(s)} \in SUBSET (1..n)
  BY <1>1, <1>7, MaxIn
<1>8. Eqn(g)
  <2>1. \A s \in SUBSET (1..n) : g[s] = IF s = {} THEN <<>> ELSE e(g[s \ {Max(s)}], Max(s))
    BY <1>5, <1>6, <1>7 DEF FoldRule
  <2>2. g = [s \in SUBSET (1..n) |-> g[s]] BY <1>6
  <2> QED BY <1>1, <2>1, <2>2
<1>9. Eqn(h) BY <1>8
<1> HIDE DEF h
<1>10. \A s \in SUBSET (1..n) :
          h[s] = IF s = {} THEN <<>> ELSE e(h[s \ {Max(s)}], Max(s))
  BY <1>1, <1>9
<1>11. FoldGoes(h, n, Seq(Sendable), <<>>, step)
  <2>1. h[{}] = <<>> BY <1>10
  <2>2. ASSUME NEW s \in SUBSET (1..n), s # {}, h[s \ {Max(s)}] \in Seq(Sendable)
        PROVE  h[s] = step[Max(s)][h[s \ {Max(s)}]]
    BY <1>5, <1>7, <1>10, <2>2
  <2> QED BY <2>1, <2>2 DEF FoldGoes
<1>0. n \in Nat /\ <<>> \in Seq(Sendable) BY <1>1
<1>14. Taken(h, n, Seq(Sendable), <<>>, step) BY <1>0, <1>4, <1>11, FoldTaken
<1>12. PICK f \in [0..n -> Seq(Sendable)] :
          /\ f[0] = <<>> /\ f[n] = h[1..n]
          /\ \A k \in 1..n : f[k] = step[k][f[k - 1]]
  BY <1>14 DEF Taken
<1>13. ASSUME NEW k \in 1..n PROVE f[k] = e(f[k - 1], k)
  <2>1. k - 1 \in 0..n BY <1>1
  <2> QED BY <1>5, <1>12, <2>1
<1> QED BY <1>1, <1>3, <1>12, <1>13 DEF e, n

\* One command leads to the next dataset.
LEMMA LeadsOne ==
    ASSUME NEW v \in Dataset, Timely(v), NEW c \in Sendable, NEW t \in Nat
    PROVE  Leads(v, <<c>>, Applied(v, c, t), {t})
<1>1. Leads(v, <<>>, v, {t}) BY LeadsNone
<1>2. <<>> \in Seq(Sendable) /\ t \in {t} /\ {t} \in SUBSET Nat OBVIOUS
<1>3. Leads(v, Append(<<>>, c), Applied(v, c, t), {t}) BY <1>1, <1>2, LeadsAppend
<1>4. Append(<<>>, c) = <<c>> OBVIOUS
<1> QED BY <1>3, <1>4

\* Two commands, one after the other.
LEMMA PairIs ==
    ASSUME NEW S, NEW a \in S, NEW b \in S
    PROVE  Append(<<a>>, b) = <<a, b>>
<1>1. <<a>> \in Seq(S) OBVIOUS
<1>2. Len(<<a>>) = 1 OBVIOUS
<1>3. <<a>>[1] = a OBVIOUS
<1>4. PICK p \in Seq(S) : p = <<a>> BY <1>1
<1>12. <<a, b>> \in Seq(S) OBVIOUS
<1>5. PICK q \in Seq(S) : q = <<a, b>> BY <1>12
<1>6. Len(q) = 2 BY <1>5
<1>7. q[1] = a /\ q[2] = b BY <1>5
<1>8. Len(p) = 1 /\ p[1] = a BY <1>2, <1>3, <1>4
<1>9. /\ Append(p, b) \in Seq(S) /\ Len(Append(p, b)) = 2
      /\ Append(p, b)[1] = a /\ Append(p, b)[2] = b
  <2>1. Append(p, b) \in Seq(S) /\ Len(Append(p, b)) = Len(p) + 1 OBVIOUS
  <2>2. Append(p, b)[Len(p) + 1] = b /\ \A i \in 1..Len(p) : Append(p, b)[i] = p[i]
    OBVIOUS
  <2>5. PICK k \in Nat : k = Len(p) OBVIOUS
  <2>6. k + 1 = 2 BY <1>8, <2>5
  <2>3. Append(p, b)[2] = b BY <2>2, <2>5, <2>6
  <2>4. Append(p, b)[1] = a BY <1>8, <2>2
  <2> QED BY <1>8, <2>1, <2>3, <2>4
<1>10. \A i \in 1..Len(Append(p, b)) : Append(p, b)[i] = q[i] BY <1>7, <1>9
<1>11. Append(p, b) = q BY <1>6, <1>9, <1>10, SeqEqual
<1> QED BY <1>4, <1>5, <1>11

\* The file holds c so that it does the same at any time.
LEMMA FedOne ==
    ASSUME NEW v \in Dataset, Timely(v), NEW c \in Sendable, Restorable(c), now \in Nat
    PROVE  Leads(v, feedAppendOnlyFile(c), Applied(v, c, now), {LoadTime})
<1>1. LoadTime \in Nat BY KeyspaceConstants
<1>2. /\ c \in Command /\ (c.op = "expire" => c.ttl > 0) /\ c.x \in Cell /\ c.y \in Cell
      /\ c.ttl \in Int /\ c.v \in Int /\ c.op \in Ops
      /\ c.opt \in {"none", "nx", "xx", "at"}
  BY DEF Sendable, Command
<1>3. CASE c.op = "expire" /\ c.opt # "at"
  <2> DEFINE k == [c EXCEPT !.opt = "at", !.ttl = now + c.ttl]
  <2> DEFINE e == now + c.ttl
  <2>6. e \in Int /\ e > 0 BY <1>2, <1>3
  <2>7. k = [c EXCEPT !.opt = "at", !.ttl = e] OBVIOUS
  <2> HIDE DEF e
  <2>1. [c EXCEPT !.opt = "at", !.ttl = e] \in Sendable BY <1>2, <1>3, <2>6, Timed
  <2>2. k.op = "expire" /\ k.x = c.x /\ k.opt = "at" /\ k.ttl = now + c.ttl
    BY <1>2, <1>3 DEF Command
  <2>3. feedAppendOnlyFile(c) = <<k>> BY <1>3 DEF feedAppendOnlyFile
  <2>8. k \in Sendable BY <2>1, <2>7
  <2> HIDE DEF k
  <2>4. Leads(v, <<k>>, Applied(v, k, LoadTime), {LoadTime}) BY <1>1, <2>8, LeadsOne
  <2>5. Applied(v, k, LoadTime) = Applied(v, c, now) BY <1>3, <2>2 DEF Applied
  <2> QED BY <2>3, <2>4, <2>5
<1>4. CASE c.op = "setex"
  <2> DEFINE k == [c EXCEPT !.op = "set", !.ttl = 0]
             j == Cmd("expire", c.x, c.x, 0, "at", now + c.ttl)
             w == With(v, c.x, c.v, Never)
             e == now + c.ttl
  <2>1. k \in Sendable BY <1>2, <1>4, Untied
  <2>2. c.ttl > 0 /\ c.opt = "none" BY <1>2, <1>4 DEF Command
  <2>3. j \in Sendable BY <1>2, <2>2 DEF Sendable, Command, Ops, Cmd
  <2>4. k.op = "set" /\ k.x = c.x /\ k.v = c.v /\ k.opt = "none" /\ k.ttl = 0
    BY <1>2, <1>4, <2>2 DEF Command
  <2>5. j.op = "expire" /\ j.x = c.x /\ j.opt = "at" /\ j.ttl = e BY DEF Cmd
  <2>6. feedAppendOnlyFile(c) = <<k, j>> BY <1>4 DEF feedAppendOnlyFile
  <2> HIDE DEF k, j
  <2>7. Applied(v, k, LoadTime) = w BY <2>4 DEF Applied
  <2>8. c.v \in Value /\ c.v # None BY <1>2, KeyspaceConstants DEF Value
  <2>9. w \in Dataset /\ Timely(w) BY <1>1, <2>1, <2>7, AppliedType
  <2>10. w.val[c.x] = c.v BY <1>2, <2>8, WithIs DEF Never
  <2> HIDE DEF w
  <2>11. Applied(w, j, LoadTime) = With(w, c.x, c.v, e) BY <2>5, <2>8, <2>10 DEF Applied
  <2>12. e \in Nat \cup {Never} BY <1>2, <2>2
  <2>13. Applied(v, c, now) = With(v, c.x, c.v, e) BY <1>4, <2>2 DEF Applied
  <2> HIDE DEF e
  <2>14. With(w, c.x, c.v, e) = With(v, c.x, c.v, e)
    BY <1>2, <2>8, <2>12, WithWith DEF w, Never
  <2>15. Leads(v, <<k>>, w, {LoadTime}) BY <1>1, <2>1, <2>7, LeadsOne
  <2>16. <<k>> \in Seq(Sendable) /\ {LoadTime} \in SUBSET Nat /\ LoadTime \in {LoadTime}
    BY <1>1, <2>1
  <2>17. Leads(v, Append(<<k>>, j), Applied(w, j, LoadTime), {LoadTime})
    BY <2>3, <2>15, <2>16, LeadsAppend
  <2>18. Append(<<k>>, j) = <<k, j>> BY <2>1, <2>3, PairIs
  <2> QED BY <2>6, <2>11, <2>13, <2>14, <2>17, <2>18
<1>5. CASE ~(c.op = "expire" /\ c.opt # "at") /\ c.op # "setex"
  <2>1. feedAppendOnlyFile(c) = <<c>> BY <1>5 DEF feedAppendOnlyFile
  <2>2. Leads(v, <<c>>, Applied(v, c, LoadTime), {LoadTime}) BY <1>1, LeadsOne
  <2>3. Applied(v, c, LoadTime) = Applied(v, c, now) BY <1>5 DEF Applied, Restorable
  <2> QED BY <2>1, <2>2, <2>3
<1> QED BY <1>3, <1>4, <1>5

\* What is written of q leads, at the load, where q led.
LEMMA FedLeads ==
    ASSUME NEW v, NEW q \in Seq(Sendable), NEW w, now \in Nat, Leads(v, q, w, {now}),
           \A i \in 1..Len(q) : Restorable(q[i])
    PROVE  LET p == Written(q)
           IN  p \in Seq(Sendable) /\ Leads(v, p, w, {LoadTime})
<1>1. <<>> \in Seq(Sendable) /\ LoadTime \in Nat /\ {LoadTime} \in SUBSET Nat
  BY KeyspaceConstants
<1>2. PICK f \in [0..Len(q) -> Seq(Sendable)] :
        /\ f[0] = <<>>
        /\ \A k \in 1..Len(q) : f[k] = f[k - 1] \o feedAppendOnlyFile(q[k])
        /\ Written(q) = f[Len(q)]
  BY <1>1, FedStages
<1>3. PICK g \in [0..Len(q) -> Dataset] :
        /\ g[0] = v /\ g[Len(q)] = w
        /\ \A k \in 0..Len(q) : Timely(g[k])
        /\ \A k \in 1..Len(q) : \E t \in {now} : g[k] = Applied(g[k - 1], q[k], t)
  BY DEF Leads
<1>4. PICK n \in Nat : n = Len(q) OBVIOUS
<1> DEFINE Good(k) == Leads(v, f[k], g[k], {LoadTime})
           P == {k \in Nat : k <= n => Good(k)}
<1>5. 0 \in P
  <2>1. g[0] \in Dataset /\ Timely(g[0]) BY <1>3, <1>4
  <2>2. Leads(v, <<>>, v, {LoadTime}) BY <1>3, <2>1, LeadsNone
  <2> QED BY <1>2, <1>3, <2>2
<1>6. \A k \in P : k + 1 \in P
  <2> SUFFICES ASSUME NEW k \in Nat, k <= n => Good(k), k + 1 <= n
               PROVE  Good(k + 1)
    <3> HIDE DEF Good
    <3> QED OBVIOUS
  <2>1. k + 1 \in 1..n /\ k \in 0..n /\ (k + 1) - 1 = k /\ Leads(v, f[k], g[k], {LoadTime})
    OBVIOUS
  <2>2. PICK c \in Sendable : c = q[k + 1] /\ Restorable(c) BY <1>4, <2>1
  <2>3. g[k] \in Dataset /\ Timely(g[k]) /\ g[k + 1] = Applied(g[k], c, now)
    BY <1>3, <1>4, <2>1, <2>2
  <2>4. Leads(g[k], feedAppendOnlyFile(c), g[k + 1], {LoadTime}) BY <2>2, <2>3, FedOne
  <2>5. f[k] \in Seq(Sendable) /\ f[k + 1] = f[k] \o feedAppendOnlyFile(c)
    BY <1>2, <1>4, <2>1, <2>2
  <2>6. feedAppendOnlyFile(c) \in Seq(Sendable) BY FedType
  <2> QED BY <1>1, <2>1, <2>4, <2>5, <2>6, LeadsConcat
<1> HIDE DEF Good
<1>7. P = Nat
  <2>1. P \in SUBSET Nat OBVIOUS
  <2> HIDE DEF P
  <2> QED BY <1>5, <1>6, <2>1, NatSet
<1>8. Good(n) BY <1>7
<1> QED BY <1>2, <1>3, <1>4, <1>8 DEF Good

-----------------------------------------------------------------------------
(* The invariant                                                           *)

\* No key has a time.
NoTimes(v) == \A x \in Cell : v.exp[x] = Never

\* What happens to the master, by commands that are propagated.
Happens(r) ==
    /\ r \in Servers /\ Timely(D(r)) /\ r.role = "master"
    /\ Leads(D(db), r.out, D(r), {now})
    /\ \A i \in 1..Len(r.out) : Timeless(r.out[i]) \/ r.out[i] \in plan.commands

KsTypes ==
    /\ now \in Nat
    /\ db \in Servers /\ db.role = "master" /\ db.out = <<>> /\ Timely(D(db))
    /\ slave \in Copies /\ slave.role = "slave"
    /\ aof \in Copies /\ aof.role = "loading"
    /\ sent \in Seq(Sendable)
    /\ plan \in [commands : SUBSET Command, ops : Int, aof : BOOLEAN]

\* The commands the scenario sends.
Planned ==
    /\ plan.aof => \A c \in plan.commands : Restorable(c)
    /\ (\E c \in plan.commands : c.op = "incrbyfloat") =>
         NoTimes(D(db)) /\ \A c \in plan.commands : ~GivesTime(c)

\* What is sent makes the master of something the slave follows.
Behind ==
    \E v \in Dataset : Follows(D(slave), v) /\ Leads(v, sent, D(db), 0..now)

\* The load of the file gives the master.
Kept == plan.aof => D(aof) = D(db)

KsInv == KsTypes /\ Planned /\ Behind /\ Kept

\* Without commands that give a time no key gets one.
LEMMA AppliedNoTimes ==
    ASSUME NEW v \in Dataset, NoTimes(v), NEW c \in Sendable, ~GivesTime(c), NEW t
    PROVE  NoTimes(Applied(v, c, t))
<1>1. /\ c.op \in Ops /\ c.x \in Cell /\ c.y \in Cell /\ c.v \in Int /\ c.op # "incrbyfloat"
      /\ c.op \notin {"setex", "expire"} /\ (c.op \in {"set", "restore"} => c.ttl = 0)
  BY DEF Sendable, Command, GivesTime, Restorable
<1>2. \A x \in Cell : v.val[x] \in Value BY DEF Dataset
<1>3. \A w \in Dataset, x \in Cell, a \in Value :
        NoTimes(w) => With(w, x, a, Never) \in Dataset /\ NoTimes(With(w, x, a, Never))
  BY WithIs DEF NoTimes, Never
<1>4. c.v \in Value /\ None \in Value BY <1>1 DEF Value
<1>5. NoTimes(v) /\ v.exp[c.x] = Never /\ v.exp[c.y] = Never BY <1>1 DEF NoTimes
<1>6. CASE c.op \in {"set", "getset"}
  <2>1. Applied(v, c, t) = v \/ Applied(v, c, t) = With(v, c.x, c.v, Never)
    BY <1>1, <1>6 DEF Applied
  <2> QED BY <1>1, <1>3, <1>4, <1>5, <2>1
<1>7. CASE c.op \in {"incr", "append"}
  <2> DEFINE sum == (IF v.val[c.x] = None THEN 0 ELSE v.val[c.x]) + c.v
  <2>1. sum \in Value BY <1>1, <1>2 DEF Value
  <2>2. Applied(v, c, t) = v \/ Applied(v, c, t) = With(v, c.x, sum, Never)
    BY <1>5, <1>7 DEF Applied
  <2> HIDE DEF sum
  <2> QED BY <1>1, <1>3, <1>5, <2>1, <2>2
<1>8. CASE c.op = "setrange"
  <2> DEFINE new == Max({v.val[c.x], c.v} \ {None})
  <2>1. new \in Value BY <1>1, <1>2, MaxOfTwo DEF Value
  <2>2. Applied(v, c, t) = v \/ Applied(v, c, t) = With(v, c.x, new, Never)
    BY <1>5, <1>8 DEF Applied
  <2> HIDE DEF new
  <2> QED BY <1>1, <1>3, <1>5, <2>1, <2>2
<1>9. CASE c.op = "mset"
  <2>1. \/ Applied(v, c, t) = v
        \/ Applied(v, c, t) = With(With(v, c.x, c.v, Never), c.y, c.v, Never)
    BY <1>9 DEF Applied
  <2> QED BY <1>1, <1>3, <1>4, <1>5, <2>1
<1>10. CASE c.op = "del"
  <2>1. Applied(v, c, t) = With(With(v, c.x, None, Never), c.y, None, Never)
    BY <1>10 DEF Applied, Erased
  <2> QED BY <1>1, <1>3, <1>4, <1>5, <2>1
<1>11. CASE c.op \in {"rename", "move"}
  <2>1. \/ Applied(v, c, t) = v
        \/ Applied(v, c, t) = With(With(v, c.y, v.val[c.x], Never), c.x, None, Never)
    BY <1>5, <1>11 DEF Applied, Erased
  <2> QED BY <1>1, <1>2, <1>3, <1>4, <1>5, <2>1
<1>12. CASE c.op = "persist"
  <2>1. Applied(v, c, t) = With(v, c.x, v.val[c.x], Never) BY <1>12 DEF Applied
  <2> QED BY <1>1, <1>2, <1>3, <1>5, <2>1
<1>13. CASE c.op = "restore"
  <2>1. Applied(v, c, t) = v \/ Applied(v, c, t) = With(v, c.x, c.v, Never)
    BY <1>1, <1>5, <1>13 DEF Applied
  <2> QED BY <1>1, <1>3, <1>4, <1>5, <2>1
<1>14. CASE c.op \in {"flushdb", "flushall"} BY <1>5, <1>14 DEF Applied, NoTimes
<1>15. CASE c.op \in {"keys", "get"}
  <2>1. Applied(v, c, t) = v BY <1>15 DEF Applied
  <2> QED BY <1>5, <2>1
<1> QED
  BY <1>1, <1>6, <1>7, <1>8, <1>9, <1>10, <1>11, <1>12, <1>13, <1>14, <1>15 DEF Ops

\* The same for many commands.
LEMMA LeadsNoTimes ==
    ASSUME NEW v, NEW q \in Seq(Sendable), NEW w, NEW T, Leads(v, q, w, T), NoTimes(v),
           \A i \in 1..Len(q) : ~GivesTime(q[i])
    PROVE  NoTimes(w)
<1>1. PICK f \in [0..Len(q) -> Dataset] :
        /\ f[0] = v /\ f[Len(q)] = w
        /\ \A k \in 1..Len(q) : \E t \in T : f[k] = Applied(f[k - 1], q[k], t)
  BY DEF Leads
<1>2. PICK n \in Nat : n = Len(q) OBVIOUS
<1> DEFINE P == {k \in Nat : k <= n => NoTimes(f[k])}
<1>3. 0 \in P BY <1>1
<1>4. \A k \in P : k + 1 \in P
  <2> SUFFICES ASSUME NEW k \in Nat, k <= n => NoTimes(f[k]), k + 1 <= n
               PROVE  NoTimes(f[k + 1])
    OBVIOUS
  <2>1. k + 1 \in 1..n /\ k \in 0..n /\ (k + 1) - 1 = k /\ NoTimes(f[k]) OBVIOUS
  <2>2. PICK c \in Sendable : c = q[k + 1] /\ ~GivesTime(c) BY <1>2, <2>1
  <2>3. PICK t \in T : f[k + 1] = Applied(f[k], c, t) BY <1>1, <1>2, <2>1, <2>2
  <2>4. f[k] \in Dataset BY <1>1, <1>2, <2>1
  <2> QED BY <2>1, <2>2, <2>3, <2>4, AppliedNoTimes
<1>5. P = Nat
  <2>1. P \in SUBSET Nat OBVIOUS
  <2> HIDE DEF P
  <2> QED BY <1>3, <1>4, <2>1, NatSet
<1> QED BY <1>1, <1>2, <1>5

\* A command without a time changes neither of the conditions on scenarios.
LEMMA TimelessIs ==
    ASSUME NEW k, Timeless(k)
    PROVE  Restorable(k) /\ ~GivesTime(k)
BY DEF Timeless, Restorable, GivesTime

\* What happens to the master keeps the invariant.
LEMMA DoneKeeps ==
    ASSUME KsInv, NEW r, Happens(r), Done(r), plan' = [plan EXCEPT !.ops = plan'.ops],
           plan'.ops \in Int
    PROVE  KsInv'
<1> USE DEF KsInv
<1>1. /\ r \in Servers /\ Timely(D(r)) /\ r.role = "master" /\ r.out \in Seq(Sendable)
      /\ D(r) \in Dataset
      /\ Leads(D(db), r.out, D(r), {now})
      /\ \A i \in 1..Len(r.out) : Timeless(r.out[i]) \/ r.out[i] \in plan.commands
  BY ServerParts DEF Happens
<1>2. now' = now /\ now \in Nat /\ slave' = slave /\ sent' = sent \o r.out
  BY DEF Done, KsTypes
<1>3. db' \in Servers /\ db'.role = "master" /\ db'.out = <<>> /\ D(db') = D(r)
  BY <1>1, EmptiedIs DEF Done
<1>4. sent' \in Seq(Sendable) BY <1>1, <1>2, ConcatProperties DEF KsTypes
<1>5. /\ plan' \in [commands : SUBSET Command, ops : Int, aof : BOOLEAN]
      /\ plan'.commands = plan.commands /\ plan'.aof = plan.aof
  BY DEF KsTypes
<1>6. plan.aof => \A i \in 1..Len(r.out) : Restorable(r.out[i])
  BY <1>1, TimelessIs DEF Planned
<1>7. aof' \in Copies /\ aof'.role = "loading" /\ (plan.aof => D(aof') = D(db'))
  <2>1. CASE ~plan.aof
    <3>1. aof' = aof BY <2>1 DEF Done
    <3> QED BY <2>1, <3>1 DEF KsTypes
  <2>2. CASE plan.aof
    <3> DEFINE p == Written(r.out)
    <3>1. aof' = Run(aof, p) BY <2>2 DEF Done
    <3>2. p \in Seq(Sendable) /\ Leads(D(db), p, D(r), {LoadTime})
      BY <1>1, <1>2, <1>6, <2>2, FedLeads
    <3> HIDE DEF p
    <3>3. aof \in Copies /\ aof.role = "loading" /\ D(aof) = D(db)
      BY <2>2 DEF KsTypes, Kept
    <3>4. aof' \in Copies /\ aof'.role = "loading" /\ Leads(D(aof), p, D(aof'), {Clock(aof)})
      BY <1>2, <3>1, <3>2, <3>3, RunIs
    <3>5. Clock(aof) = LoadTime BY <3>3 DEF Clock
    <3>6. Leads(D(db), p, D(aof'), {LoadTime}) BY <3>3, <3>4, <3>5
    <3>7. D(aof') = D(r) BY <3>2, <3>6, LeadsSame
    <3> QED BY <1>3, <3>4, <3>7
  <2> QED BY <2>1, <2>2
<1>8. KsTypes' BY <1>1, <1>2, <1>3, <1>4, <1>5, <1>7 DEF KsTypes
<1>9. Planned'
  <2>1. plan'.aof => \A c \in plan'.commands : Restorable(c) BY <1>5 DEF Planned
  <2>2. ASSUME \E c \in plan.commands : c.op = "incrbyfloat"
        PROVE  NoTimes(D(db')) /\ \A c \in plan.commands : ~GivesTime(c)
    <3>1. NoTimes(D(db)) /\ \A c \in plan.commands : ~GivesTime(c) BY <2>2 DEF Planned
    <3>2. \A i \in 1..Len(r.out) : ~GivesTime(r.out[i]) BY <1>1, <3>1, TimelessIs
    <3>3. NoTimes(D(r)) BY <1>1, <3>1, <3>2, LeadsNoTimes
    <3> QED BY <1>3, <3>1, <3>3
  <2> QED BY <1>5, <2>1, <2>2 DEF Planned
<1>10. Behind'
  <2>1. PICK v \in Dataset : Follows(D(slave), v) /\ Leads(v, sent, D(db), 0..now)
    BY DEF Behind
  <2>2. {now} \subseteq 0..now /\ 0..now \in SUBSET Nat BY <1>2
  <2>3. Leads(D(db), r.out, D(r), 0..now) BY <1>1, <2>2, LeadsMore
  <2>4. sent \in Seq(Sendable) BY DEF KsTypes
  <2>5. Leads(v, sent \o r.out, D(r), 0..now) BY <1>1, <2>1, <2>2, <2>3, <2>4, LeadsConcat
  <2>6. Follows(D(slave'), v) /\ Leads(v, sent', D(db'), 0..now')
    BY <1>2, <1>3, <2>1, <2>5
  <2> QED BY <2>6 DEF Behind
<1>11. Kept' BY <1>5, <1>7 DEF Kept
<1> QED BY <1>8, <1>9, <1>10, <1>11

\* A command of a client.
LEMMA CallKeeps ==
    ASSUME KsInv, NEW c \in plan.commands, Call(c)
    PROVE  KsInv'
<1> DEFINE r == Exec(db, c)
<1>1. /\ db \in Servers /\ db.role = "master" /\ db.out = <<>> /\ Timely(D(db)) /\ now \in Nat
      /\ plan \in [commands : SUBSET Command, ops : Int, aof : BOOLEAN] /\ c \in Command
      /\ D(db).exp = db.exp
  BY ServerParts DEF KsInv, KsTypes
<1>2. c.op = "incrbyfloat" => \A x \in Cell : db.exp[x] = Never
  BY <1>1 DEF KsInv, Planned, NoTimes
<1>3. MayRun(db, c) BY <1>1, <1>2 DEF MayRun
<1>4. Outcome(db, c, r) BY <1>3, ExecOutcome
<1>5. Done(r) /\ plan' = [plan EXCEPT !.ops = plan.ops - 1] BY DEF Call
<1> HIDE DEF r
<1>6. Happens(r) BY <1>1, <1>4 DEF Outcome, Happens
<1>7. plan' = [plan EXCEPT !.ops = plan'.ops] /\ plan'.ops \in Int BY <1>1, <1>5
<1> QED BY <1>5, <1>6, <1>7, DoneKeeps

\* Keys that expire or are evicted.
LEMMA AgedKeeps ==
    ASSUME KsInv, NEW r, Aged(db, r), Done(r), plan' = [plan EXCEPT !.ops = plan'.ops],
           plan'.ops \in Int
    PROVE  KsInv'
<1>1. db.role = "master" BY DEF KsInv, KsTypes
<1>2. Happens(r) BY <1>1 DEF Aged, Happens
<1> QED BY <1>2, DoneKeeps

\* The master before anything has expired.
LEMMA SelfAged ==
    ASSUME KsInv
    PROVE  Aged(db, db) /\ db \in Servers /\ db.role = "master" /\ now \in Nat
           /\ plan \in [commands : SUBSET Command, ops : Int, aof : BOOLEAN]
<1>1. /\ db \in Servers /\ db.role = "master" /\ db.out = <<>> /\ Timely(D(db)) /\ now \in Nat
      /\ D(db) \in Dataset
  BY ServerParts DEF KsInv, KsTypes
<1>2. Leads(D(db), <<>>, D(db), {now}) BY <1>1, LeadsNone
<1>3. Len(<<>>) = 0 OBVIOUS
<1>4. Aged(db, db) BY <1>1, <1>2, <1>3 DEF Aged
<1> QED BY <1>1, <1>4 DEF KsInv, KsTypes

\* The cron and RANDOMKEY, that find keys past their time.
LEMMA ExpireKeeps ==
    ASSUME KsInv, NEW X \in SUBSET Cell, Done(ExpireAll(db, X)), UNCHANGED plan
    PROVE  KsInv'
<1>1. Aged(db, ExpireAll(db, X)) BY SelfAged, AgedAll
<1>2. plan' = [plan EXCEPT !.ops = plan'.ops] /\ plan'.ops \in Int BY SelfAged
<1> QED BY <1>1, <1>2, AgedKeeps

\* Eviction, key after key.
LEMMA EvictKeeps ==
    ASSUME KsInv, NEW volatile \in BOOLEAN, FreeMemoryIfNeeded(volatile)
    PROVE  KsInv'
<1>1. PICK X \in SUBSET Cell : Done(FoldLeft(Evict, db, SetToSeq(X)))
  BY DEF FreeMemoryIfNeeded
<1>2. plan' = [plan EXCEPT !.ops = plan.ops - 1] BY DEF FreeMemoryIfNeeded
<1>3. plan' = [plan EXCEPT !.ops = plan'.ops] /\ plan'.ops \in Int BY <1>2, SelfAged
<1>4. IsFiniteSet(X) BY CellFinite, FS_Subset
<1>5. PICK q \in Seq(Cell) : q = SetToSeq(X)
  <2>1. SetToSeq(X) \in Seq(X) BY <1>4, SetToSeqIs
  <2> QED BY <2>1
<1>6. PICK f \in [0..Len(q) -> Servers] :
        /\ f[0] = db
        /\ \A k \in 1..Len(q) : f[k] = Evict(f[k - 1], q[k])
        /\ FoldLeft(Evict, db, q) = f[Len(q)]
  BY SelfAged, EvictStages
<1>7. PICK n \in Nat : n = Len(q) OBVIOUS
<1> DEFINE P == {k \in Nat : k <= n => Aged(db, f[k])}
<1>8. 0 \in P BY <1>6, SelfAged
<1>9. \A k \in P : k + 1 \in P
  <2> SUFFICES ASSUME NEW k \in Nat, k <= n => Aged(db, f[k]), k + 1 <= n
               PROVE  Aged(db, f[k + 1])
    OBVIOUS
  <2>1. k + 1 \in 1..n /\ k \in 0..n /\ (k + 1) - 1 = k /\ Aged(db, f[k]) OBVIOUS
  <2>2. PICK x \in Cell : x = q[k + 1] BY <1>7, <2>1
  <2>3. PICK e \in Servers : e = f[k] BY <1>6, <1>7, <2>1
  <2> DEFINE u == Propagated(e, Del(x))
             t == dbDelete(u, x)
  <2>4. f[k + 1] = t BY <1>6, <1>7, <2>1, <2>2, <2>3 DEF Evict
  <2>5. u \in Servers /\ D(u) = D(e) /\ u.role = e.role /\ u.out = Append(e.out, Del(x))
    BY DelSent, SentIs
  <2> HIDE DEF u
  <2>6. t \in Servers /\ D(t) = Erased(D(e), x) /\ t.role = e.role
        /\ t.out = Append(e.out, Del(x))
    BY <2>5, DeleteIs
  <2> HIDE DEF t
  <2>7. Aged(db, e) /\ e.role = db.role BY <2>1, <2>3 DEF Aged
  <2>8. Aged(db, t) BY <2>6, <2>7, SelfAged, AgedDelete
  <2> QED BY <2>4, <2>8
<1>10. P = Nat
  <2>1. P \in SUBSET Nat OBVIOUS
  <2> HIDE DEF P
  <2> QED BY <1>8, <1>9, <2>1, NatSet
<1>11. Aged(db, f[n]) BY <1>10
<1>12. Done(f[n]) BY <1>1, <1>5, <1>6, <1>7
<1> QED BY <1>3, <1>11, <1>12, AgedKeeps

\* The slave runs a command, maybe later than the master.
LEMMA SlaveKeeps ==
    ASSUME KsInv, SlaveRuns
    PROVE  KsInv'
<1> USE DEF KsInv
<1>1. /\ sent \in Seq(Sendable) /\ sent # <<>> /\ now \in Nat
      /\ slave \in Copies /\ slave.role = "slave"
      /\ now' = now /\ db' = db /\ aof' = aof /\ plan' = plan
      /\ slave' = Run(slave, <<Head(sent)>>) /\ sent' = Tail(sent)
  BY DEF KsTypes, SlaveRuns
<1>2. PICK c \in Sendable : c = Head(sent) BY <1>1
<1>3. Tail(sent) \in Seq(Sendable) BY <1>1
<1>4. PICK v \in Dataset : Follows(D(slave), v) /\ Leads(v, sent, D(db), 0..now)
  BY DEF Behind
<1>5. PICK t \in 0..now : Leads(Applied(v, c, t), Tail(sent), D(db), 0..now)
  BY <1>1, <1>2, <1>4, LeadsTail
<1>6. t \in Nat /\ now >= t BY <1>1
<1>7. Timely(v) BY <1>1, <1>4, LeadsTypes
<1>8. D(slave) \in Dataset /\ Timely(D(slave)) BY <1>1, ServerParts DEF Copies
<1>9. <<c>> \in Seq(Sendable) OBVIOUS
<1>10. slave' \in Copies /\ slave'.role = "slave" /\ Leads(D(slave), <<c>>, D(slave'), {Clock(slave)})
  BY <1>1, <1>2, <1>9, RunIs
<1>11. Clock(slave) = now BY <1>1 DEF Clock
<1>12. Leads(D(slave), <<c>>, Applied(D(slave), c, now), {now}) BY <1>1, <1>8, LeadsOne
<1>13. D(slave') = Applied(D(slave), c, now) BY <1>9, <1>10, <1>11, <1>12, LeadsSame
<1>14. Follows(D(slave'), Applied(v, c, t))
  BY <1>1, <1>4, <1>6, <1>7, <1>8, <1>13, AppliedFollows
<1>15. Applied(v, c, t) \in Dataset BY <1>6, <1>7, AppliedType
<1>16. Behind' BY <1>1, <1>5, <1>14, <1>15 DEF Behind
<1>17. KsTypes' BY <1>1, <1>3, <1>10 DEF KsTypes
<1>18. Planned' /\ Kept' BY <1>1 DEF Planned, Kept
<1> QED BY <1>16, <1>17, <1>18

\* Time passes.
LEMMA TickKeeps ==
    ASSUME KsInv, Tick
    PROVE  KsInv'
<1> USE DEF KsInv
<1>1. /\ now \in Nat /\ now' = now + 1 /\ sent \in Seq(Sendable)
      /\ db' = db /\ slave' = slave /\ sent' = sent /\ aof' = aof /\ plan' = plan
  BY DEF Tick, KsTypes
<1>2. 0..now \subseteq 0..now' BY <1>1
<1>3. PICK v \in Dataset : Follows(D(slave), v) /\ Leads(v, sent, D(db), 0..now)
  BY DEF Behind
<1>4. Leads(v, sent, D(db), 0..now') BY <1>1, <1>2, <1>3, LeadsMore
<1>5. Behind' BY <1>1, <1>3, <1>4 DEF Behind
<1>6. KsTypes' BY <1>1 DEF KsTypes
<1>7. Planned' /\ Kept' BY <1>1 DEF Planned, Kept
<1> QED BY <1>5, <1>6, <1>7

\* Every step keeps the invariant.
LEMMA KsInvNext ==
    ASSUME KsInv, [KsNext]_ksVars
    PROVE  KsInv'
<1>1. CASE UNCHANGED ksVars
  BY <1>1 DEF ksVars, KsInv, KsTypes, Planned, Behind, Kept
<1>2. CASE \E c \in plan.commands : Call(c) BY <1>2, CallKeeps
<1>3. CASE \E X \in SUBSET PastTime(Db) : ActiveExpireCycle(X)
  <2>1. PICK X \in SUBSET PastTime(Db) : ActiveExpireCycle(X) BY <1>3
  <2>2. X \in SUBSET Cell BY DEF PastTime
  <2>3. Done(ExpireAll(db, X)) /\ UNCHANGED plan BY <2>1 DEF ActiveExpireCycle
  <2> QED BY <2>2, <2>3, ExpireKeeps
<1>4. CASE \E d \in Db : \E X \in SUBSET PastTime({d}) : RandomKey(X)
  <2>1. PICK d \in Db : \E X \in SUBSET PastTime({d}) : RandomKey(X) BY <1>4
  <2>2. PICK X \in SUBSET PastTime({d}) : RandomKey(X) BY <2>1
  <2>3. X \in SUBSET Cell BY DEF PastTime
  <2>4. Done(ExpireAll(db, X)) /\ UNCHANGED plan BY <2>2 DEF RandomKey
  <2> QED BY <2>3, <2>4, ExpireKeeps
<1>5. CASE \E volatile \in BOOLEAN : FreeMemoryIfNeeded(volatile) BY <1>5, EvictKeeps
<1>6. CASE SlaveRuns BY <1>6, SlaveKeeps
<1>7. CASE Tick BY <1>7, TickKeeps
<1> QED BY <1>1, <1>2, <1>3, <1>4, <1>5, <1>6, <1>7 DEF KsNext

\* A first server.
LEMMA StartIs ==
    ASSUME NEW i, i.val \in [Cell -> Value], i.exp \in [Cell -> Nat \cup {Never}],
           \A x \in Cell : i.exp[x] # Never => i.val[x] # None,
           NEW role \in {"master", "slave", "loading"}
    PROVE  LET s == Server(role, i.val, i.exp)
           IN  /\ s \in Servers /\ s.role = role /\ s.out = <<>> /\ Timely(D(s))
               /\ D(s) = [val |-> i.val, exp |-> i.exp]
<1>1. <<>> \in Seq(Sendable) OBVIOUS
<1> QED BY <1>1 DEF Server, Servers, D, Timely

\* The invariant holds at first.
LEMMA KsInvInit ==
    ASSUME NEW S, Scenarios(S), KsInit(S)
    PROVE  KsInv
<1>0. PICK p \in S : \E i \in p.start :
        /\ plan = [commands |-> p.commands, ops |-> p.ops, aof |-> p.aof]
        /\ db = Server("master", i.val, i.exp)
        /\ slave = Server("slave", i.val, i.exp)
        /\ aof = Server("loading", i.val, i.exp)
  BY DEF KsInit
<1>1. PICK i \in p.start :
        /\ plan = [commands |-> p.commands, ops |-> p.ops, aof |-> p.aof]
        /\ db = Server("master", i.val, i.exp)
        /\ slave = Server("slave", i.val, i.exp)
        /\ aof = Server("loading", i.val, i.exp)
  BY <1>0
<1>2. now = 0 /\ sent = <<>> BY DEF KsInit
<1>3. /\ p.commands \subseteq Command /\ p.ops \in Nat /\ p.aof \in BOOLEAN
      /\ i.val \in [Cell -> Value] /\ i.exp \in [Cell -> Nat \cup {Never}]
      /\ \A x \in Cell : i.exp[x] # Never => i.val[x] # None
      /\ (\E c \in p.commands : c.op = "incrbyfloat") =>
            /\ \A c \in p.commands : ~GivesTime(c)
            /\ \A x \in Cell : i.exp[x] = Never
      /\ p.aof => \A c \in p.commands : Restorable(c)
  BY <1>1 DEF Scenarios
<1> DEFINE v == [val |-> i.val, exp |-> i.exp]
<1>4. /\ db \in Servers /\ db.role = "master" /\ db.out = <<>> /\ Timely(D(db)) /\ D(db) = v
      /\ slave \in Servers /\ slave.role = "slave" /\ slave.out = <<>> /\ Timely(D(slave))
      /\ D(slave) = v
      /\ aof \in Servers /\ aof.role = "loading" /\ aof.out = <<>> /\ Timely(D(aof))
      /\ D(aof) = v
  BY <1>1, <1>3, StartIs
<1>5. v \in Dataset BY <1>3 DEF Dataset
<1>6. v.exp = i.exp OBVIOUS
<1> HIDE DEF v
<1>7. KsTypes
  <2>1. sent \in Seq(Sendable) /\ now \in Nat BY <1>2
  <2>2. plan \in [commands : SUBSET Command, ops : Int, aof : BOOLEAN] BY <1>1, <1>3
  <2> QED BY <1>4, <2>1, <2>2 DEF KsTypes, Copies
<1>8. Planned
  <2>1. plan.commands = p.commands /\ plan.aof = p.aof BY <1>1
  <2> QED BY <1>3, <1>4, <1>6, <2>1 DEF Planned, NoTimes
<1>9. Follows(v, v)
  <2>1. \A z \in Cell : v.exp[z] \in Int BY <1>3, <1>6 DEF Never
  <2> QED BY <2>1 DEF Follows
<1>10. Leads(v, sent, v, 0..now) BY <1>2, <1>4, <1>5, LeadsNone
<1>11. Behind BY <1>4, <1>5, <1>9, <1>10 DEF Behind
<1>12. Kept BY <1>4 DEF Kept
<1> QED BY <1>7, <1>8, <1>11, <1>12 DEF KsInv

\* The invariant has what the properties say.
LEMMA KsInvHolds ==
    ASSUME KsInv
    PROVE  SlaveFollows /\ LoadRestores
<1>1. \A s \in {db, slave, aof} : \A x \in Cell : s.exp[x] # Never => s.val[x] # None
  <2>1. \A s \in {db, slave, aof} : s \in Servers /\ Timely(D(s))
    BY DEF KsInv, KsTypes, Copies
  <2> QED BY <2>1, ServerParts DEF Timely
<1>2. ASSUME sent = <<>>
      PROVE  /\ slave.val = db.val
             /\ \A x \in Cell : /\ slave.exp[x] >= db.exp[x]
                                /\ db.exp[x] = Never => slave.exp[x] = Never
  <2>1. PICK v \in Dataset : Follows(D(slave), v) /\ Leads(v, sent, D(db), 0..now)
    BY DEF KsInv, Behind
  <2>2. sent \in Seq(Sendable) BY DEF KsInv, KsTypes
  <2>3. D(db) = v BY <1>2, <2>1, <2>2, LeadsTypes
  <2>4. D(db).val = db.val /\ D(db).exp = db.exp /\ D(slave).val = slave.val
        /\ D(slave).exp = slave.exp
    BY ServerParts DEF KsInv, KsTypes, Copies
  <2> QED BY <2>1, <2>3, <2>4 DEF Follows
<1>3. LoadRestores
  <2>1. D(db).val = db.val /\ D(db).exp = db.exp /\ D(aof).val = aof.val /\ D(aof).exp = aof.exp
    BY ServerParts DEF KsInv, KsTypes, Copies
  <2> QED BY <2>1 DEF KsInv, Kept, LoadRestores
<1> QED BY <1>1, <1>2, <1>3 DEF SlaveFollows

\* Whatever is executed, expires and is evicted, in every scenario: a time
\* belongs to a key (what getExpire, setExpire and removeExpire of db.c assert),
\* and a slave that has executed all it was sent has the keys and values of its
\* master and the same keys with a time, none of them earlier.
THEOREM SlaveFollowsHolds ==
    ASSUME NEW CONSTANT S, Scenarios(S)
    PROVE  KsInit(S) /\ [][KsNext]_ksVars => []SlaveFollows
<1>1. KsInit(S) => KsInv BY KsInvInit
<1>2. KsInv /\ [KsNext]_ksVars => KsInv' BY KsInvNext
<1>3. KsInv => SlaveFollows BY KsInvHolds
<1> QED BY <1>1, <1>2, <1>3, PTL

\* Loading the append only file gives the dataset of the master with the times
\* its keys had, whenever it is loaded: feedAppendOnlyFile writes instants, and
\* the load deletes nothing for its time.
THEOREM LoadRestoresHolds ==
    ASSUME NEW CONSTANT S, Scenarios(S)
    PROVE  KsInit(S) /\ [][KsNext]_ksVars => []LoadRestores
<1>1. KsInit(S) => KsInv BY KsInvInit
<1>2. KsInv /\ [KsNext]_ksVars => KsInv' BY KsInvNext
<1>3. KsInv => LoadRestores BY KsInvHolds
<1> QED BY <1>1, <1>2, <1>3, PTL

-----------------------------------------------------------------------------
(* Background threads (Bio)                                                *)

\* The lock of a type is held exactly by the thread that is at a place where
\* it holds it.
Locks ==
    \A t \in Type :
        /\ mutex[t] = "worker" <=> worker[t] \in {"check", "delete", "discount"}
        /\ mutex[t] = "main" <=> main.at # "idle" /\ main.type = t

\* The queue of a type holds its newest jobs in order, the first one being
\* the one the thread works on.
Queued ==
    \A t \in Type :
        /\ Len(queue[t]) <= created[t]
        /\ \A i \in 1..Len(queue[t]) :
              queue[t][i] = created[t] - Len(queue[t]) + i
        /\ worker[t] \in {"run", "ran", "delete"} =>
              queue[t] # <<>> /\ ln[t] = queue[t][1]

\* How far the counter is off while a thread updates it under the lock.
Counted ==
    \A t \in Type :
        /\ worker[t] = "discount" => pending[t] = Len(queue[t]) + 1
        /\ main.at = "count" /\ main.type = t => pending[t] = Len(queue[t]) - 1
        /\ worker[t] # "discount" /\ ~(main.at = "count" /\ main.type = t) =>
              pending[t] = Len(queue[t])

\* What is no longer queued was executed; the first of the queue was too when
\* its thread has run it and not deleted it yet.
Executed ==
    \A t \in Type :
        /\ worker[t] \in {"ran", "delete"} =>
              Len(executed[t]) + Len(queue[t]) = created[t] + 1
        /\ worker[t] \notin {"ran", "delete"} =>
              Len(executed[t]) + Len(queue[t]) = created[t]
        /\ \A i \in 1..Len(executed[t]) : executed[t][i] = i

\* A 0 that was read stays true until the main thread creates a job.
ReadZero ==
    \A t \in Type : val[t] = 0 => /\ queue[t] = <<>>
                                  /\ main.at \in {"count", "signal"} => main.type # t

IInv == TypeOK /\ Locks /\ Queued /\ Counted /\ Executed /\ ReadZero
-----------------------------------------------------------------------------
(* Every step keeps the invariant *)

\* One more on both sides.
LEMMA BalanceUp == \A a, b, c \in Int : a + b = c => a + (b + 1) = c + 1
OBVIOUS

\* One more or one less on both sides.
LEMMA Balance ==
    \A a, b, c \in Int :
        /\ a + b = c => (a + 1) + b = c + 1 /\ a + (b + 1) = c + 1
        /\ a + b = c + 1 => a + (b + 1) = (c + 1) + 1 /\ a + (b - 1) = c
        /\ c - b + (a + 1) = c - (b - 1) + a
OBVIOUS

\* The main thread takes a lock to create a job.
LEMMA CreateLockInv ==
    ASSUME IInv, NEW u \in Type, CreateLock(u)
    PROVE  IInv'
<1> USE DEF CreateLock, Lock, MainGoes
<1>1. TypeOK' BY DEF IInv, TypeOK, Counted, Locks
<1>2. Locks' BY DEF IInv, TypeOK, Locks
<1>3. Queued' BY DEF IInv, TypeOK, Queued, Locks
<1>4. Counted' BY DEF IInv, TypeOK, Counted, Locks
<1>5. Executed' BY DEF IInv, TypeOK, Executed, Locks
<1>6. ReadZero' BY DEF IInv, TypeOK, ReadZero, Locks, Counted, Queued
<1> QED BY <1>1, <1>2, <1>3, <1>4, <1>5, <1>6 DEF IInv

\* The counter catches up with the queue.
LEMMA CreateCountInv ==
    ASSUME IInv, CreateCount
    PROVE  IInv'
<1> USE DEF CreateCount, MainGoes
<1>1. TypeOK' BY DEF IInv, TypeOK, Counted, Locks
<1>2. Locks' BY DEF IInv, TypeOK, Locks
<1>3. Queued' BY DEF IInv, TypeOK, Queued, Locks
<1>4. Counted'
  <2> SUFFICES ASSUME NEW t \in Type
               PROVE  /\ worker'[t] = "discount" => pending'[t] = Len(queue'[t]) + 1
                      /\ main'.at = "count" /\ main'.type = t =>
                            pending'[t] = Len(queue'[t]) - 1
                      /\ worker'[t] # "discount"
                         /\ ~(main'.at = "count" /\ main'.type = t) =>
                            pending'[t] = Len(queue'[t])
    BY DEF Counted
  <2>0. /\ worker[t] = "discount" => pending[t] = Len(queue[t]) + 1
        /\ main.at = "count" /\ main.type = t =>
              pending[t] = Len(queue[t]) - 1
        /\ worker[t] # "discount"
           /\ ~(main.at = "count" /\ main.type = t) =>
              pending[t] = Len(queue[t])
        /\ pending[t] \in Nat /\ Len(queue[t]) \in Nat
    BY LenProperties DEF IInv, Counted, TypeOK
  <2>1. queue' = queue /\ worker' = worker /\ main'.type = main.type
        /\ main'.at = "signal" /\ main.at = "count"
    OBVIOUS
  <2>2. CASE t = main.type
    <3>1. pending'[t] = pending[t] + 1 BY <2>2 DEF IInv, TypeOK
    <3> QED BY <2>0, <2>1, <2>2, <3>1
  <2>3. CASE t # main.type
    <3>1. pending'[t] = pending[t] BY <2>3 DEF IInv, TypeOK
    <3> QED BY <2>0, <2>1, <2>3, <3>1
  <2> QED BY <2>2, <2>3
<1>5. Executed' BY DEF IInv, TypeOK, Executed, Locks
<1>6. ReadZero' BY DEF IInv, TypeOK, ReadZero, Locks, Counted, Queued
<1> QED BY <1>1, <1>2, <1>3, <1>4, <1>5, <1>6 DEF IInv

\* A waiting thread is woken.
LEMMA CreateSignalInv ==
    ASSUME IInv, CreateSignal
    PROVE  IInv'
<1> USE DEF CreateSignal, MainGoes
<1>1. TypeOK' BY DEF IInv, TypeOK, Counted, Locks
<1>2. Locks' BY DEF IInv, TypeOK, Locks
<1>3. Queued' BY DEF IInv, TypeOK, Queued, Locks
<1>4. Counted' BY DEF IInv, TypeOK, Counted, Locks
<1>5. Executed' BY DEF IInv, TypeOK, Executed, Locks
<1>6. ReadZero' BY DEF IInv, TypeOK, ReadZero, Locks, Counted, Queued
<1> QED BY <1>1, <1>2, <1>3, <1>4, <1>5, <1>6 DEF IInv

\* The main thread takes a lock to read a counter.
LEMMA PendingLockInv ==
    ASSUME IInv, NEW u \in Type, PendingLock(u)
    PROVE  IInv'
<1> USE DEF PendingLock, Lock, MainGoes
<1>1. TypeOK' BY DEF IInv, TypeOK, Counted, Locks
<1>2. Locks' BY DEF IInv, TypeOK, Locks
<1>3. Queued' BY DEF IInv, TypeOK, Queued, Locks
<1>4. Counted' BY DEF IInv, TypeOK, Counted, Locks
<1>5. Executed' BY DEF IInv, TypeOK, Executed, Locks
<1>6. ReadZero' BY DEF IInv, TypeOK, ReadZero, Locks, Counted, Queued
<1> QED BY <1>1, <1>2, <1>3, <1>4, <1>5, <1>6 DEF IInv

\* A 0 is read when the queue is empty and its last job was deleted.
LEMMA PendingReadInv ==
    ASSUME IInv, PendingRead
    PROVE  IInv'
<1> USE DEF PendingRead, MainGoes
<1>1. TypeOK' BY DEF IInv, TypeOK, Counted, Locks
<1>2. Locks' BY DEF IInv, TypeOK, Locks
<1>3. Queued' BY DEF IInv, TypeOK, Queued, Locks
<1>4. Counted' BY DEF IInv, TypeOK, Counted, Locks
<1>5. Executed' BY DEF IInv, TypeOK, Executed, Locks
<1>6. ReadZero' BY DEF IInv, TypeOK, ReadZero, Locks, Counted, Queued
<1> QED BY <1>1, <1>2, <1>3, <1>4, <1>5, <1>6 DEF IInv

\* The main thread gives a lock up.
LEMMA MainUnlockInv ==
    ASSUME IInv, MainUnlock
    PROVE  IInv'
<1> USE DEF MainUnlock, Unlock, Idle
<1>1. TypeOK' BY DEF IInv, TypeOK, Counted, Locks
<1>2. Locks' BY DEF IInv, TypeOK, Locks
<1>3. Queued' BY DEF IInv, TypeOK, Queued, Locks
<1>4. Counted' BY DEF IInv, TypeOK, Counted, Locks
<1>5. Executed' BY DEF IInv, TypeOK, Executed, Locks
<1>6. ReadZero' BY DEF IInv, TypeOK, ReadZero, Locks, Counted, Queued
<1> QED BY <1>1, <1>2, <1>3, <1>4, <1>5, <1>6 DEF IInv

\* A background thread takes its lock.
LEMMA WorkerLockInv ==
    ASSUME IInv, NEW u \in Type, WorkerLock(u)
    PROVE  IInv'
<1> USE DEF WorkerLock, WorkerGoes, Lock
<1>1. TypeOK' BY SMTT(30) DEF IInv, TypeOK, Counted, Locks
<1>2. Locks' BY DEF IInv, TypeOK, Locks
<1>3. Queued' BY SMTT(30) DEF IInv, TypeOK, Queued, Locks
<1>4. Counted'
  <2> SUFFICES ASSUME NEW t \in Type
               PROVE  /\ worker'[t] = "discount" => pending'[t] = Len(queue'[t]) + 1
                      /\ main'.at = "count" /\ main'.type = t =>
                            pending'[t] = Len(queue'[t]) - 1
                      /\ worker'[t] # "discount"
                         /\ ~(main'.at = "count" /\ main'.type = t) =>
                            pending'[t] = Len(queue'[t])
    BY DEF Counted
  <2>0. /\ worker[t] = "discount" => pending[t] = Len(queue[t]) + 1
        /\ main.at = "count" /\ main.type = t =>
              pending[t] = Len(queue[t]) - 1
        /\ worker[t] # "discount"
           /\ ~(main.at = "count" /\ main.type = t) =>
              pending[t] = Len(queue[t])
        /\ pending[t] \in Nat /\ Len(queue[t]) \in Nat
    BY LenProperties DEF IInv, Counted, TypeOK
  <2>1. queue' = queue /\ pending' = pending /\ main' = main
    OBVIOUS
  <2>2. (worker'[t] = "discount") = (worker[t] = "discount")
    BY DEF IInv, TypeOK
  <2> QED BY <2>0, <2>1, <2>2, ZenonT(40)
<1>5. Executed' BY DEF IInv, TypeOK, Executed, Locks
<1>6. ReadZero' BY DEF IInv, TypeOK, ReadZero, Locks, Counted, Queued
<1> QED BY <1>1, <1>2, <1>3, <1>4, <1>5, <1>6 DEF IInv

\* A background thread waits for a job.
LEMMA WorkerWaitInv ==
    ASSUME IInv, NEW u \in Type, WorkerWait(u)
    PROVE  IInv'
<1> USE DEF WorkerWait, WorkerGoes, Unlock
<1>1. TypeOK' BY DEF IInv, TypeOK, Counted, Locks
<1>2. Locks' BY DEF IInv, TypeOK, Locks
<1>3. Queued' BY DEF IInv, TypeOK, Queued, Locks
<1>4. Counted' BY DEF IInv, TypeOK, Counted, Locks
<1>5. Executed' BY DEF IInv, TypeOK, Executed, Locks
<1>6. ReadZero' BY DEF IInv, TypeOK, ReadZero, Locks, Counted, Queued
<1> QED BY <1>1, <1>2, <1>3, <1>4, <1>5, <1>6 DEF IInv

\* A background thread wakes up without a job.
LEMMA SpuriousWakeupInv ==
    ASSUME IInv, NEW u \in Type, SpuriousWakeup(u)
    PROVE  IInv'
<1> USE DEF SpuriousWakeup, WorkerGoes
<1>1. TypeOK' BY DEF IInv, TypeOK, Counted, Locks
<1>2. Locks' BY DEF IInv, TypeOK, Locks
<1>3. Queued' BY SMTT(30) DEF IInv, TypeOK, Queued, Locks
<1>4. Counted' BY DEF IInv, TypeOK, Counted, Locks
<1>5. Executed' BY DEF IInv, TypeOK, Executed, Locks
<1>6. ReadZero' BY DEF IInv, TypeOK, ReadZero, Locks, Counted, Queued
<1> QED BY <1>1, <1>2, <1>3, <1>4, <1>5, <1>6 DEF IInv

\* A background thread takes the first job and gives the lock up.
LEMMA WorkerTakeInv ==
    ASSUME IInv, NEW u \in Type, WorkerTake(u)
    PROVE  IInv'
<1> USE DEF WorkerTake, WorkerGoes, Unlock
<1>0. queue[u] \in Seq(Nat) /\ queue[u] # <<>> /\ Head(queue[u]) \in Nat
      /\ Head(queue[u]) = queue[u][1]
  <2>1. queue[u] \in Seq(Nat) BY DEF IInv, TypeOK
  <2> QED BY <2>1, HeadTailProperties
<1>1. TypeOK' BY <1>0 DEF IInv, TypeOK
<1>2. Locks' BY DEF IInv, TypeOK, Locks
<1>3. Queued'
  <2> SUFFICES ASSUME NEW t \in Type
               PROVE  /\ Len(queue[t]) <= created[t]
                      /\ \A i \in 1..Len(queue[t]) :
                            queue[t][i] = created[t] - Len(queue[t]) + i
                      /\ worker'[t] \in {"run", "ran", "delete"} =>
                            queue[t] # <<>> /\ ln'[t] = queue[t][1]
    BY DEF Queued
  <2>1. CASE t = u
    <3>1. ln'[t] = queue[t][1] BY <1>0, <2>1 DEF IInv, TypeOK
    <3> QED BY <1>0, <2>1, <3>1 DEF IInv, Queued
  <2>2. CASE t # u
    <3>1. ln'[t] = ln[t] /\ worker'[t] = worker[t] BY <2>2 DEF IInv, TypeOK
    <3> QED BY <3>1 DEF IInv, Queued
  <2> QED BY <2>1, <2>2
<1>4. Counted' BY DEF IInv, TypeOK, Counted, Locks
<1>5. Executed' BY DEF IInv, TypeOK, Executed, Locks
<1>6. ReadZero' BY DEF IInv, TypeOK, ReadZero, Locks, Counted, Queued
<1> QED BY <1>1, <1>2, <1>3, <1>4, <1>5, <1>6 DEF IInv

\* A background thread takes its lock after a job.
LEMMA WorkerRelockInv ==
    ASSUME IInv, NEW u \in Type, WorkerRelock(u)
    PROVE  IInv'
<1> USE DEF WorkerRelock, WorkerGoes, Lock
<1>1. TypeOK' BY DEF IInv, TypeOK, Counted, Locks
<1>2. Locks' BY DEF IInv, TypeOK, Locks
<1>3. Queued' BY SMTT(30) DEF IInv, TypeOK, Queued, Locks
<1>4. Counted' BY DEF IInv, TypeOK, Counted, Locks
<1>5. Executed' BY DEF IInv, TypeOK, Executed, Locks
<1>6. ReadZero' BY DEF IInv, TypeOK, ReadZero, Locks, Counted, Queued
<1> QED BY <1>1, <1>2, <1>3, <1>4, <1>5, <1>6 DEF IInv

\* The counter catches up with the queue.
LEMMA WorkerDiscountInv ==
    ASSUME IInv, NEW u \in Type, WorkerDiscount(u)
    PROVE  IInv'
<1> USE DEF WorkerDiscount, WorkerGoes
<1>1. TypeOK'
  <2>1. pending[u] = Len(queue[u]) + 1
    BY DEF IInv, Counted
  <2>2. ~(main.at = "count" /\ main.type = u)
    BY DEF IInv, Locks, TypeOK
  <2>3. Len(queue[u]) \in Nat BY LenProperties DEF IInv, TypeOK
  <2>4. pending[u] - 1 \in Nat BY <2>1, <2>2, <2>3
  <2> QED BY <2>4 DEF IInv, TypeOK
<1>2. Locks' BY DEF IInv, TypeOK, Locks
<1>3. Queued' BY DEF IInv, TypeOK, Queued, Locks
<1>4. Counted'
  <2> SUFFICES ASSUME NEW t \in Type
               PROVE  /\ worker'[t] = "discount" => pending'[t] = Len(queue'[t]) + 1
                      /\ main'.at = "count" /\ main'.type = t =>
                            pending'[t] = Len(queue'[t]) - 1
                      /\ worker'[t] # "discount"
                         /\ ~(main'.at = "count" /\ main'.type = t) =>
                            pending'[t] = Len(queue'[t])
    BY DEF Counted
  <2>0. /\ worker[t] = "discount" => pending[t] = Len(queue[t]) + 1
        /\ main.at = "count" /\ main.type = t =>
              pending[t] = Len(queue[t]) - 1
        /\ worker[t] # "discount"
           /\ ~(main.at = "count" /\ main.type = t) =>
              pending[t] = Len(queue[t])
        /\ pending[t] \in Nat /\ Len(queue[t]) \in Nat
    BY LenProperties DEF IInv, Counted, TypeOK
  <2>1. queue' = queue /\ main' = main /\ worker[u] = "discount"
    OBVIOUS
  <2>2. CASE t = u
    <3>1. pending'[t] = pending[t] - 1 /\ worker'[t] = "check"
      BY <2>2 DEF IInv, TypeOK
    <3> QED BY <2>0, <2>1, <2>2, <3>1
  <2>3. CASE t # u
    <3>1. pending'[t] = pending[t] /\ worker'[t] = worker[t]
      BY <2>3 DEF IInv, TypeOK
    <3> QED BY <2>0, <2>1, <3>1
  <2> QED BY <2>2, <2>3
<1>5. Executed' BY DEF IInv, TypeOK, Executed, Locks
<1>6. ReadZero' BY DEF IInv, TypeOK, ReadZero, Locks, Counted, Queued
<1> QED BY <1>1, <1>2, <1>3, <1>4, <1>5, <1>6 DEF IInv

\* A new job goes to the end of the queue with the next number.
LEMMA CreateAddInv ==
    ASSUME IInv, CreateAdd
    PROVE  IInv'
<1> DEFINE u == main.type
           n == created[u] + 1
<1>0. /\ u \in Type /\ created[u] \in Nat /\ n \in Nat
      /\ queue \in [Type -> Seq(Nat)] /\ queue[u] \in Seq(Nat)
      /\ created \in [Type -> Nat] /\ val \in [Type -> Nat \cup {-1}]
      /\ main.at = "add" /\ main \in [at : {"idle", "add", "count", "signal",
                                            "read", "unlock"}, type : Type]
  BY DEF IInv, TypeOK, CreateAdd
<1>1. /\ created' = [created EXCEPT ![u] = n]
      /\ queue' = [queue EXCEPT ![u] = Append(queue[u], n)]
      /\ val' = [val EXCEPT ![u] = -1]
      /\ main' = [at |-> "count", type |-> u]
      /\ mutex' = mutex /\ pending' = pending /\ worker' = worker
      /\ ln' = ln /\ executed' = executed
  BY DEF CreateAdd, MainGoes
<1>2. /\ Append(queue[u], n) \in Seq(Nat)
      /\ Len(queue[u]) \in Nat
      /\ Len(Append(queue[u], n)) = Len(queue[u]) + 1
      /\ \A i \in 1..Len(queue[u]) : Append(queue[u], n)[i] = queue[u][i]
      /\ Append(queue[u], n)[Len(queue[u]) + 1] = n
  BY <1>0, AppendProperties, LenProperties
<1>3. /\ queue'[u] = Append(queue[u], n) /\ created'[u] = n /\ val'[u] = -1
      /\ \A t \in Type : t # u => /\ queue'[t] = queue[t]
                                  /\ created'[t] = created[t]
                                  /\ val'[t] = val[t]
      /\ main'.at = "count" /\ main'.type = u
  BY <1>0, <1>1
<1>4. TypeOK'
  BY <1>0, <1>1, <1>2 DEF IInv, TypeOK
<1>5. Locks'
  BY <1>0, <1>1, <1>3 DEF IInv, Locks
<1> HIDE DEF u, n
<1>6. Queued'
  <2> SUFFICES ASSUME NEW t \in Type
               PROVE  /\ Len(queue'[t]) <= created'[t]
                      /\ \A i \in 1..Len(queue'[t]) :
                            queue'[t][i] = created'[t] - Len(queue'[t]) + i
                      /\ worker'[t] \in {"run", "ran", "delete"} =>
                            queue'[t] # <<>> /\ ln'[t] = queue'[t][1]
    BY DEF Queued
  <2>1. CASE t # u
    BY <1>1, <1>3, <2>1 DEF IInv, Queued
  <2>2. CASE t = u
    <3>1. Len(queue'[u]) = Len(queue[u]) + 1 BY <1>2, <1>3
    <3>2. ASSUME NEW i \in 1..Len(queue'[u])
          PROVE  queue'[u][i] = created'[u] - Len(queue'[u]) + i
      <4>1. CASE i \in 1..Len(queue[u])
        <5>1. queue'[u][i] = queue[u][i] BY <1>2, <1>3, <4>1
        <5>2. queue[u][i] = created[u] - Len(queue[u]) + i
          BY <1>0, <4>1 DEF IInv, Queued
        <5> QED BY <1>0, <1>2, <1>3, <3>1, <5>1, <5>2 DEF n
      <4>2. CASE i = Len(queue[u]) + 1
        BY <1>0, <1>2, <1>3, <3>1, <4>2
      <4> QED BY <1>2, <3>1, <4>1, <4>2
    <3>3. ASSUME worker'[u] \in {"run", "ran", "delete"}
          PROVE  queue'[u] # <<>> /\ ln'[u] = queue'[u][1]
      <4>1. queue[u] # <<>> /\ ln[u] = queue[u][1]
        BY <1>0, <1>1, <3>3 DEF IInv, Queued
      <4>2. Len(queue[u]) # 0 BY <1>0, <4>1, EmptySeq
      <4>3. queue'[u][1] = queue[u][1] BY <1>2, <1>3, <4>2
      <4>4. queue'[u] # <<>> BY <1>2, <3>1, EmptySeq
      <4> QED BY <1>1, <4>1, <4>3, <4>4
    <3>4. Len(queue'[u]) <= created'[u]
      BY <1>0, <1>2, <1>3, <3>1 DEF IInv, Queued, n
    <3> QED BY <2>2, <3>2, <3>3, <3>4
  <2> QED BY <2>1, <2>2
<1>7. Counted'
  <2> SUFFICES ASSUME NEW t \in Type
               PROVE  /\ worker'[t] = "discount" => pending'[t] = Len(queue'[t]) + 1
                      /\ main'.at = "count" /\ main'.type = t =>
                            pending'[t] = Len(queue'[t]) - 1
                      /\ worker'[t] # "discount"
                         /\ ~(main'.at = "count" /\ main'.type = t) =>
                            pending'[t] = Len(queue'[t])
    BY DEF Counted
  <2>0. /\ worker[t] = "discount" => pending[t] = Len(queue[t]) + 1
        /\ main.at = "count" /\ main.type = t =>
              pending[t] = Len(queue[t]) - 1
        /\ worker[t] # "discount"
           /\ ~(main.at = "count" /\ main.type = t) =>
              pending[t] = Len(queue[t])
        /\ pending[t] \in Nat /\ Len(queue[t]) \in Nat
    BY LenProperties DEF IInv, Counted, TypeOK
  <2>1. CASE t = u
    <3>1. worker[u] # "discount" BY <1>0 DEF IInv, Locks, u
    <3>2. pending[u] = Len(queue[u]) BY <1>0, <2>0, <2>1, <3>1
    <3>3. Len(queue'[u]) = Len(queue[u]) + 1 BY <1>2, <1>3
    <3>4. pending[u] = Len(queue'[u]) - 1 BY <1>2, <3>2, <3>3
    <3> QED BY <1>1, <1>3, <2>1, <3>1, <3>4
  <2>2. CASE t # u
    BY <1>0, <1>1, <1>3, <2>0, <2>2
  <2> QED BY <2>1, <2>2
<1>8. Executed'
  <2> SUFFICES ASSUME NEW t \in Type
               PROVE  /\ worker'[t] \in {"ran", "delete"} =>
                            Len(executed'[t]) + Len(queue'[t]) = created'[t] + 1
                      /\ worker'[t] \notin {"ran", "delete"} =>
                            Len(executed'[t]) + Len(queue'[t]) = created'[t]
                      /\ \A i \in 1..Len(executed'[t]) : executed'[t][i] = i
    BY DEF Executed
  <2>0. /\ worker[t] \in {"ran", "delete"} =>
              Len(executed[t]) + Len(queue[t]) = created[t] + 1
        /\ worker[t] \notin {"ran", "delete"} =>
              Len(executed[t]) + Len(queue[t]) = created[t]
        /\ \A i \in 1..Len(executed[t]) : executed[t][i] = i
        /\ Len(executed[t]) \in Nat /\ Len(queue[t]) \in Nat
        /\ created[t] \in Nat
    BY LenProperties DEF IInv, Executed, TypeOK
  <2>1. CASE t = u
    <3>1. Len(queue'[u]) = Len(queue[u]) + 1 BY <1>2, <1>3
    <3>2. created'[u] = created[u] + 1 BY <1>3 DEF n
    <3>3. /\ Len(executed[u]) \in Int /\ Len(queue[u]) \in Int
          /\ created[u] \in Int
      BY <2>0, <2>1
    <3>4. CASE worker[u] \in {"ran", "delete"}
      <4>1. Len(executed[u]) + Len(queue[u]) = created[u] + 1 BY <2>0, <2>1, <3>4
      <4>3. Len(executed[u]) + (Len(queue[u]) + 1) = (created[u] + 1) + 1
        BY ONLY <3>3, <4>1, Balance, ZenonT(60)
      <4>2. Len(executed[u]) + Len(queue'[u]) = created'[u] + 1
        BY ONLY <3>1, <3>2, <4>3, Zenon
      <4> QED BY <1>1, <2>0, <2>1, <3>4, <4>2
    <3>5. CASE worker[u] \notin {"ran", "delete"}
      <4>1. Len(executed[u]) + Len(queue[u]) = created[u] BY <2>0, <2>1, <3>5
      <4>3. Len(executed[u]) + (Len(queue[u]) + 1) = created[u] + 1
        BY ONLY <3>3, <4>1, BalanceUp, ZenonT(60)
      <4>2. Len(executed[u]) + Len(queue'[u]) = created'[u]
        BY ONLY <3>1, <3>2, <4>3, Zenon
      <4> QED BY <1>1, <2>0, <2>1, <3>5, <4>2
    <3> QED BY <3>4, <3>5
  <2>2. CASE t # u
    BY <1>1, <1>3, <2>0, <2>2
  <2> QED BY <2>1, <2>2
<1>9. ReadZero'
  BY <1>0, <1>1, <1>3 DEF IInv, ReadZero
<1> QED BY <1>4, <1>5, <1>6, <1>7, <1>8, <1>9 DEF IInv

\* The job that runs is the oldest one not executed yet.
LEMMA WorkerRunInv ==
    ASSUME IInv, NEW u \in Type, WorkerRun(u)
    PROVE  IInv'
<1>0. /\ worker[u] = "run" /\ worker \in [Type -> {"start", "check", "wait",
              "relock", "run", "ran", "delete", "discount"}]
      /\ executed \in [Type -> Seq(Nat)] /\ executed[u] \in Seq(Nat)
      /\ ln[u] \in Nat /\ created[u] \in Nat
      /\ queue[u] \in Seq(Nat) /\ Len(queue[u]) \in Nat
      /\ Len(executed[u]) \in Nat
  BY LenProperties DEF IInv, TypeOK, WorkerRun, WorkerGoes
<1>1. /\ worker' = [worker EXCEPT ![u] = "ran"]
      /\ executed' = [executed EXCEPT ![u] = Append(executed[u], ln[u])]
      /\ mutex' = mutex /\ queue' = queue /\ pending' = pending /\ ln' = ln
      /\ main' = main /\ val' = val /\ created' = created
  BY DEF WorkerRun, WorkerGoes
<1>2. /\ Append(executed[u], ln[u]) \in Seq(Nat)
      /\ Len(Append(executed[u], ln[u])) = Len(executed[u]) + 1
      /\ \A i \in 1..Len(executed[u]) : Append(executed[u], ln[u])[i] = executed[u][i]
      /\ Append(executed[u], ln[u])[Len(executed[u]) + 1] = ln[u]
  BY <1>0, AppendProperties
<1>3. /\ worker'[u] = "ran" /\ executed'[u] = Append(executed[u], ln[u])
      /\ \A t \in Type : t # u => /\ worker'[t] = worker[t]
                                  /\ executed'[t] = executed[t]
  BY <1>0, <1>1
<1>4. TypeOK' BY <1>0, <1>1, <1>2 DEF IInv, TypeOK
<1>5. Locks' BY <1>0, <1>1, <1>3 DEF IInv, Locks
<1>6. Queued' BY <1>0, <1>1, <1>3 DEF IInv, Queued
<1>7. Counted' BY <1>0, <1>1, <1>3 DEF IInv, Counted
<1>8. Executed'
  <2>1. /\ Len(executed[u]) + Len(queue[u]) = created[u]
        /\ \A i \in 1..Len(executed[u]) : executed[u][i] = i
    BY <1>0 DEF IInv, Executed
  <2>2. queue[u] # <<>> /\ ln[u] = queue[u][1] BY <1>0 DEF IInv, Queued
  <2>3. Len(queue[u]) # 0 BY <1>0, <2>2, EmptySeq
  <2>4. queue[u][1] = created[u] - Len(queue[u]) + 1
    BY <1>0, <2>3 DEF IInv, Queued
  <2>5. ln[u] = Len(executed[u]) + 1 BY <1>0, <2>1, <2>2, <2>4
  <2>6. \A i \in 1..(Len(executed[u]) + 1) : executed'[u][i] = i
    BY <1>0, <1>2, <1>3, <2>1, <2>5
  <2>7. Len(executed'[u]) + Len(queue'[u]) = created'[u] + 1
    <3>1. Len(executed'[u]) = Len(executed[u]) + 1 BY <1>2, <1>3
    <3>2. queue'[u] = queue[u] /\ created'[u] = created[u] BY <1>1
    <3>3. /\ Len(executed[u]) \in Int /\ Len(queue[u]) \in Int
          /\ created[u] \in Int
      BY <1>0
    <3>4. (Len(executed[u]) + 1) + Len(queue[u]) = created[u] + 1
      BY <2>1, <3>3, Balance, ZenonT(60)
    <3> QED BY ONLY <3>1, <3>2, <3>4, Zenon
  <2> SUFFICES ASSUME NEW t \in Type
               PROVE  /\ worker'[t] \in {"ran", "delete"} =>
                            Len(executed'[t]) + Len(queue'[t]) = created'[t] + 1
                      /\ worker'[t] \notin {"ran", "delete"} =>
                            Len(executed'[t]) + Len(queue'[t]) = created'[t]
                      /\ \A i \in 1..Len(executed'[t]) : executed'[t][i] = i
    BY DEF Executed
  <2>8. CASE t = u BY <1>2, <1>3, <2>6, <2>7, <2>8
  <2>9. CASE t # u BY <1>1, <1>3, <2>9 DEF IInv, Executed
  <2> QED BY <2>8, <2>9
<1>9. ReadZero' BY <1>1 DEF IInv, ReadZero
<1> QED BY <1>4, <1>5, <1>6, <1>7, <1>8, <1>9 DEF IInv

\* The node deleted is the first one of the queue.
LEMMA WorkerDeleteInv ==
    ASSUME IInv, NEW u \in Type, WorkerDelete(u)
    PROVE  IInv'
<1> DEFINE q == queue[u]
           L == Len(q)
<1>0. /\ worker[u] = "delete" /\ worker \in [Type -> {"start", "check", "wait",
              "relock", "run", "ran", "delete", "discount"}]
      /\ created[u] \in Nat /\ queue \in [Type -> Seq(Nat)]
      /\ q \in Seq(Nat) /\ L \in Nat /\ DOMAIN q = 1..L
      /\ \A i \in 1..L : q[i] \in Nat
  BY LenProperties, ElementOfSeq DEF IInv, TypeOK, WorkerDelete, WorkerGoes
<1>1. /\ q # <<>> /\ ln[u] = q[1] /\ L <= created[u]
      /\ \A i \in 1..L : q[i] = created[u] - L + i
  BY <1>0 DEF IInv, Queued
<1>2. L # 0 BY <1>0, <1>1, EmptySeq
<1> HIDE DEF L
<1>3. PICK i \in DOMAIN q : q[i] = ln[u] /\ queue' = [queue EXCEPT ![u] = Without(q, i)]
  BY DEF WorkerDelete
<1>4. i = 1
  <2>1. q[1] = created[u] - L + 1 BY <1>0, <1>1, <1>2
  <2>2. q[i] = created[u] - L + i BY <1>0, <1>1, <1>3
  <2>3. i \in Nat BY <1>0, <1>3
  <2> QED BY <1>0, <1>1, <1>3, <2>1, <2>2, <2>3
<1> DEFINE r == [j \in 1..(L - 1) |-> q[j + 1]]
<1>5. Without(q, i) = r
  <2>1. Without(q, i) = [j \in 1..(L - 1) |-> IF j < 1 THEN q[j] ELSE q[j + 1]]
    BY <1>4 DEF Without, L
  <2> QED BY <1>0, <1>2, <2>1
<1>6. r \in Seq(Nat) /\ Len(r) = L - 1
  <2>1. \A j \in 1..(L - 1) : j + 1 \in 1..L BY <1>0
  <2>2. L - 1 \in Nat BY <1>0, <1>2
  <2>3. \A j \in 1..(L - 1) : r[j] \in Nat BY <1>0, <2>1
  <2> QED BY <2>2, <2>3, IsASeq
<1>7. \A j \in 1..(L - 1) : r[j] = created[u] - (L - 1) + j
  <2> SUFFICES ASSUME NEW j \in 1..(L - 1)
               PROVE  r[j] = created[u] - (L - 1) + j
    OBVIOUS
  <2>1. j + 1 \in 1..L /\ j \in Int BY <1>0
  <2>2. r[j] = q[j + 1] OBVIOUS
  <2>3. q[j + 1] = created[u] - L + (j + 1) BY <1>1, <2>1
  <2>4. created[u] \in Int /\ L \in Int /\ j \in Int BY <1>0, <2>1
  <2> QED BY <2>2, <2>3, <2>4, Balance
<1> HIDE DEF r, q
<1>8. /\ queue' = [queue EXCEPT ![u] = r]
      /\ worker' = [worker EXCEPT ![u] = "discount"]
      /\ mutex' = mutex /\ pending' = pending /\ ln' = ln /\ main' = main
      /\ val' = val /\ created' = created /\ executed' = executed
  BY <1>3, <1>5 DEF WorkerDelete, WorkerGoes
<1>9. /\ worker'[u] = "discount" /\ queue'[u] = r
      /\ \A t \in Type : t # u => worker'[t] = worker[t] /\ queue'[t] = queue[t]
  BY <1>0, <1>8
<1>10. TypeOK' BY <1>0, <1>6, <1>8 DEF IInv, TypeOK
<1>11. Locks' BY <1>0, <1>8, <1>9 DEF IInv, Locks
<1>12. Queued'
  <2>1. Len(queue'[u]) <= created'[u] BY <1>0, <1>1, <1>6, <1>8, <1>9
  <2>2. \A j \in 1..Len(queue'[u]) : queue'[u][j] = created'[u] - Len(queue'[u]) + j
    BY <1>6, <1>7, <1>8, <1>9
  <2> SUFFICES ASSUME NEW t \in Type
               PROVE  /\ Len(queue'[t]) <= created'[t]
                      /\ \A j \in 1..Len(queue'[t]) :
                            queue'[t][j] = created'[t] - Len(queue'[t]) + j
                      /\ worker'[t] \in {"run", "ran", "delete"} =>
                            queue'[t] # <<>> /\ ln'[t] = queue'[t][1]
    BY DEF Queued
  <2>3. CASE t = u BY <1>9, <2>1, <2>2, <2>3
  <2>4. CASE t # u BY <1>8, <1>9, <2>4 DEF IInv, Queued
  <2> QED BY <2>3, <2>4
<1>13. Counted'
  <2> SUFFICES ASSUME NEW t \in Type
               PROVE  /\ worker'[t] = "discount" => pending'[t] = Len(queue'[t]) + 1
                      /\ main'.at = "count" /\ main'.type = t =>
                            pending'[t] = Len(queue'[t]) - 1
                      /\ worker'[t] # "discount"
                         /\ ~(main'.at = "count" /\ main'.type = t) =>
                            pending'[t] = Len(queue'[t])
    BY DEF Counted
  <2>0. /\ worker[t] = "discount" => pending[t] = Len(queue[t]) + 1
        /\ main.at = "count" /\ main.type = t =>
              pending[t] = Len(queue[t]) - 1
        /\ worker[t] # "discount"
           /\ ~(main.at = "count" /\ main.type = t) =>
              pending[t] = Len(queue[t])
        /\ pending[t] \in Nat
    BY DEF IInv, Counted, TypeOK
  <2>1. CASE t = u
    <3>1. ~(main.at = "count" /\ main.type = u) BY <1>0 DEF IInv, Locks
    <3>2. pending[u] = L BY <1>0, <2>0, <2>1, <3>1 DEF q, L
    <3>3. Len(queue'[u]) + 1 = L BY <1>0, <1>6, <1>9
    <3> QED BY <1>8, <1>9, <2>1, <3>1, <3>2, <3>3
  <2>2. CASE t # u BY <1>8, <1>9, <2>0, <2>2
  <2> QED BY <2>1, <2>2
<1>14. Executed'
  <2> SUFFICES ASSUME NEW t \in Type
               PROVE  /\ worker'[t] \in {"ran", "delete"} =>
                            Len(executed'[t]) + Len(queue'[t]) = created'[t] + 1
                      /\ worker'[t] \notin {"ran", "delete"} =>
                            Len(executed'[t]) + Len(queue'[t]) = created'[t]
                      /\ \A j \in 1..Len(executed'[t]) : executed'[t][j] = j
    BY DEF Executed
  <2>0. /\ worker[t] \in {"ran", "delete"} =>
              Len(executed[t]) + Len(queue[t]) = created[t] + 1
        /\ worker[t] \notin {"ran", "delete"} =>
              Len(executed[t]) + Len(queue[t]) = created[t]
        /\ \A j \in 1..Len(executed[t]) : executed[t][j] = j
        /\ Len(executed[t]) \in Nat /\ created[t] \in Nat
    BY LenProperties DEF IInv, Executed, TypeOK
  <2>1. CASE t = u
    <3>1. Len(executed[u]) + L = created[u] + 1 BY <1>0, <2>0, <2>1 DEF q, L
    <3>2. Len(queue'[u]) = L - 1 BY <1>6, <1>9
    <3>3. Len(executed[u]) + Len(queue'[u]) = created[u]
      <4>1. Len(executed[u]) \in Int /\ L \in Int /\ created[u] \in Int
        BY <1>0, <2>0, <2>1
      <4> QED BY <3>1, <3>2, <4>1, Balance
    <3> QED BY <1>8, <1>9, <2>0, <2>1, <3>3
  <2>2. CASE t # u BY <1>8, <1>9, <2>0, <2>2
  <2> QED BY <2>1, <2>2
<1>15. ReadZero'
  <2>1. val[u] # 0 BY <1>1 DEF IInv, ReadZero, q
  <2> QED BY <1>8, <1>9, <2>1 DEF IInv, ReadZero
<1> QED BY <1>10, <1>11, <1>12, <1>13, <1>14, <1>15 DEF IInv

\* The invariant holds when the threads start.
LEMMA InitInv == Init => IInv
<1> SUFFICES ASSUME Init PROVE IInv OBVIOUS
<1>1. <<>> \in Seq(Nat) /\ Len(<<>>) = 0 BY EmptySeq
<1>2. Idle \in [at : {"idle"}, type : Type] BY BioConstants DEF Idle
<1>3. TypeOK BY <1>1, <1>2 DEF Init, TypeOK
<1>4. main.at = "idle" BY <1>2 DEF Init
<1>5. Locks BY <1>4 DEF Init, Locks
<1>0. \A t \in Type : /\ Len(queue[t]) = 0 /\ Len(executed[t]) = 0
                       /\ created[t] = 0 /\ worker[t] = "start"
  BY <1>1 DEF Init
<1>10. 1..0 = {} /\ 0 + 0 = 0 /\ 0 <= 0 OBVIOUS
<1>6. Queued BY <1>0, <1>10 DEF Queued
<1>7. Counted BY <1>1, <1>4 DEF Init, Counted
<1>8. Executed BY <1>0, <1>10 DEF Executed
<1>9. ReadZero BY DEF Init, ReadZero
<1> QED BY <1>3, <1>5, <1>6, <1>7, <1>8, <1>9 DEF IInv

\* Every step keeps the invariant.
LEMMA StepInv == IInv /\ [Next]_vars => IInv'
<1> SUFFICES ASSUME IInv, [Next]_vars PROVE IInv' OBVIOUS
<1>1. CASE \E t \in Type : CreateLock(t) \/ PendingLock(t)
  BY <1>1, CreateLockInv, PendingLockInv
<1>2. CASE MainStep
  BY <1>2, CreateAddInv, CreateCountInv, CreateSignalInv, PendingReadInv,
     MainUnlockInv DEF MainStep
<1>3. CASE \E t \in Type : WorkerStep(t) \/ SpuriousWakeup(t)
  BY <1>3, WorkerLockInv, WorkerWaitInv, WorkerTakeInv, WorkerRunInv,
     WorkerRelockInv, WorkerDeleteInv, WorkerDiscountInv, SpuriousWakeupInv
     DEF WorkerStep
<1>4. CASE UNCHANGED vars
  BY <1>4 DEF vars, IInv, TypeOK, Locks, Queued, Counted, Executed, ReadZero
<1> QED BY <1>1, <1>2, <1>3, <1>4 DEF Next

\* IInv is an invariant of the specification.
LEMMA Inductive == Spec => []IInv
BY InitInv, StepInv, PTL DEF Spec
-----------------------------------------------------------------------------
\* Every variable keeps its type: bio_pending, an unsigned number, never goes
\* below zero.
THEOREM TypeCorrect == Spec => []TypeOK
<1>1. IInv => TypeOK BY DEF IInv
<1> QED BY Inductive, <1>1, PTL

\* Once bioPendingJobsOfType returned 0, and until the next job is created, all
\* jobs created before have been executed.
THEOREM ZeroMeansDoneHolds == Spec => []ZeroMeansDone
<1>1. ASSUME IInv PROVE ZeroMeansDone
  <2> SUFFICES ASSUME NEW t \in Type, val[t] = 0
               PROVE  Len(executed[t]) = created[t]
    BY DEF ZeroMeansDone
  <2>1. queue[t] = <<>> BY <1>1 DEF IInv, ReadZero
  <2>2. Len(queue[t]) = 0 BY <2>1, EmptySeq
  <2>3. worker[t] \notin {"ran", "delete"} BY <1>1, <2>1 DEF IInv, Queued
  <2>4. Len(executed[t]) + Len(queue[t]) = created[t]
    BY <1>1, <2>3 DEF IInv, Executed
  <2>5. Len(executed[t]) \in Nat /\ created[t] \in Nat
    BY <1>1, LenProperties DEF IInv, TypeOK
  <2> QED BY <2>2, <2>4, <2>5
<1> QED BY Inductive, <1>1, PTL

\* The jobs of a type are executed once each in the order of their creation.
THEOREM InOrder == Spec => []ExecutedInOrder
<1>1. ASSUME IInv PROVE ExecutedInOrder
  <2> SUFFICES ASSUME NEW t \in Type, NEW i \in DOMAIN executed[t]
               PROVE  executed[t][i] = i
    BY DEF ExecutedInOrder
  <2>1. DOMAIN executed[t] = 1..Len(executed[t])
    BY <1>1, LenProperties DEF IInv, TypeOK
  <2> QED BY <1>1, <2>1 DEF IInv, Executed
<1> QED BY Inductive, <1>1, PTL

\* bio_pending is the length of the list whenever the lock is free.
THEOREM PendingExact == Spec => []PendingIsLength
<1>1. ASSUME IInv PROVE PendingIsLength
  <2> SUFFICES ASSUME NEW t \in Type, mutex[t] = "free"
               PROVE  pending[t] = Len(queue[t])
    BY DEF PendingIsLength
  <2>1. worker[t] # "discount" /\ ~(main.at = "count" /\ main.type = t)
    BY <1>1 DEF IInv, Locks
  <2> QED BY <1>1, <2>1 DEF IInv, Counted
<1> QED BY Inductive, <1>1, PTL
=============================================================================
