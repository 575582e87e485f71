----------------------------- MODULE AofProofs -----------------------------
(***************************************************************************)
(* Proofs about Aof for any databases, processes and number of writes.     *)
(***************************************************************************)
EXTENDS Aof, SequenceTheorems, WellFoundedInduction, TLAPS

\* The database selected when a log has been loaded.
End(db, log) == SelectedAt(db, log, Len(log))

\* Loading gives t, or the beginning of t.
Matches(base, db, log, t) ==
    /\ Len(base) + Len(log) <= Len(t)
    /\ \A i \in 1..Len(base) : t[i] = base[i]
    /\ \A i \in 1..Len(log) :
          t[Len(base) + i] = [id |-> log[i].id, db |-> SelectedAt(db, log, i)]

-----------------------------------------------------------------------------
(* The inductive invariant *)

Up == phase \in {"run", "poll", "switch"}

\* What the state of the file, its descriptor and the phase say of the rest.
Modes ==
    /\ state # "ON" => buf = <<>>
    /\ state # "OFF" => fd = "open"
    /\ state = "OFF" \/ aofchild = None => rwbuf = <<>>
    /\ phase = "switch" => aofchild # None
    /\ Up => ~file.torn
    /\ ~Up => /\ state = "ON" /\ buf = <<>> /\ rwbuf = <<>> /\ selected = None
              /\ aofchild = None
    /\ policy # "always" => acked = 0

\* The file has the beginning of the dataset.
FileMatches == Matches(file.base, file.db, file.log, data)

\* With the buffer it has all of it, and the next write knows the database
\* the loader would be in.
OnMatches ==
    phase \in {"run", "poll"} /\ state = "ON" =>
        /\ Matches(file.base, file.db, file.log \o buf, data)
        /\ Len(file.base) + Len(file.log \o buf) = Len(data)
        /\ selected # None => End(file.db, file.log \o buf) = selected

\* The snapshot of the child that rewrites is the beginning of the dataset, and
\* with the differences all of it, in whatever database the snapshot ends.
ChildMatches ==
    phase \in {"run", "poll"} /\ aofchild # None /\ procs[aofchild].st # "err" =>
        LET base == procs[aofchild].base
        IN /\ Prefix(base, data)
           /\ state = "OFF" => acked <= Len(base)
           /\ state # "OFF" =>
                 /\ Len(base) + Len(rwbuf) = Len(data)
                 /\ \A d \in Db : /\ Matches(base, d, rwbuf, data)
                                  /\ selected # None => End(d, rwbuf) = selected

\* Between the rename and the switch the named file has the dataset.
SwitchMatches ==
    phase = "switch" =>
        /\ state # "OFF" => Len(file.base) + Len(file.log) = Len(data)
        /\ state = "OFF" => acked <= Len(file.base)

\* What was acknowledged is on the disk, but for a file that was just renamed.
Durable == phase # "switch" => acked <= Len(file.base) + synced

IInv ==
    /\ TypeOK /\ Modes /\ StateMeansFile
    /\ FileMatches /\ OnMatches /\ ChildMatches /\ SwitchMatches
    /\ Durable /\ NoAckedLost

-----------------------------------------------------------------------------
(* Least and greatest numbers *)

\* A set of numbers has a least one.
LEMMA LeastNumber ==
    ASSUME NEW T \in SUBSET Nat, T # {}
    PROVE  \E x \in T : \A y \in T : x <= y
<1> DEFINE R == {ss \in Nat \X Nat : ss[1] < ss[2]}
<1>1. IsWellFoundedOn(R, Nat) BY NatLessThanWellFounded DEF OpToRel
<1>2. \A x, y \in Nat : y < x => <<y, x>> \in R OBVIOUS
<1> HIDE DEF R
<1>3. PICK x \in T : \A y \in T : ~(<<y, x>> \in R) BY <1>1, WFMin
<1>4. \A y \in T : ~(y < x) BY <1>2, <1>3
<1> QED BY <1>4

\* A set of numbers with a bound has a greatest one.
LEMMA GreatestNumber ==
    ASSUME NEW n \in Nat, NEW T \in SUBSET (1..n), T # {}
    PROVE  /\ Max(T) \in T
           /\ \A y \in T : y <= Max(T)
<1> DEFINE U == {n - y : y \in T}
<1>1. U \in SUBSET Nat /\ U # {}
  <2>1. \A y \in T : y \in Nat /\ n - y \in Nat OBVIOUS
  <2> QED BY <2>1
<1>2. PICK m \in U : \A u \in U : m <= u BY <1>1, LeastNumber
<1>3. PICK x \in T : m = n - x BY <1>2
<1>4. \A y \in T : y <= x
  <2>1. \A y \in T : y \in Int /\ n - y \in U BY DEF U
  <2> QED BY <1>2, <1>3, <2>1
<1>5. \E z \in T : \A y \in T : z >= y BY <1>4
<1>6. Max(T) \in T /\ \A y \in T : Max(T) >= y BY <1>5 DEF Max
<1> QED BY <1>6

\* The greatest and the least of two numbers.
LEMMA OfTwo ==
    ASSUME NEW a \in Int, NEW b \in Int
    PROVE  /\ Max({a, b}) = IF a >= b THEN a ELSE b
           /\ Min({a, b}) = IF a <= b THEN a ELSE b
<1>1. Max({a, b}) \in {a, b} /\ \A y \in {a, b} : Max({a, b}) >= y
  <2>1. \E x \in {a, b} : \A y \in {a, b} : x >= y OBVIOUS
  <2> QED BY <2>1 DEF Max
<1>2. Min({a, b}) \in {a, b} /\ \A y \in {a, b} : Min({a, b}) <= y
  <2>1. \E x \in {a, b} : \A y \in {a, b} : x <= y OBVIOUS
  <2> QED BY <2>1 DEF Min
<1> QED BY <1>1, <1>2

\* A sum grows with its second part.
LEMMA SumGrows ==
    ASSUME NEW a \in Int, NEW m \in Int, NEW s \in Int, NEW t \in Int,
           a <= m + s, s <= t
    PROVE  a <= m + t
OBVIOUS

-----------------------------------------------------------------------------
(* What loading gives *)

\* Sequences that begin alike are loaded alike.
LEMMA SameSelected ==
    ASSUME NEW db, NEW log, NEW other, NEW i \in Nat,
           \A j \in 1..i : log[j] = other[j]
    PROVE  SelectedAt(db, log, i) = SelectedAt(db, other, i)
<1> DEFINE S == {j \in 1..i : log[j].sel # None}
           T == {j \in 1..i : other[j].sel # None}
<1>1. S = T /\ S \in SUBSET (1..i) OBVIOUS
<1> HIDE DEF S, T
<1>2. S # {} => Max(S) \in 1..i BY <1>1, GreatestNumber
<1>3. S # {} => log[Max(S)].sel = other[Max(S)].sel BY <1>2
<1> QED BY <1>1, <1>3 DEF SelectedAt, S, T

\* The loader is in the database of the last SELECT.
LEMMA SelectedStep ==
    ASSUME NEW db, NEW log, NEW i \in Nat \ {0}
    PROVE  SelectedAt(db, log, i) =
              IF log[i].sel # None THEN log[i].sel ELSE SelectedAt(db, log, i - 1)
<1> DEFINE S == {j \in 1..i : log[j].sel # None}
           T == {j \in 1..(i - 1) : log[j].sel # None}
<1>1. S \in SUBSET (1..i) OBVIOUS
<1>2. CASE log[i].sel # None
  <2>1. i \in S BY <1>2
  <2> HIDE DEF S
  <2>2. Max(S) \in 1..i /\ i <= Max(S) BY <1>1, <2>1, GreatestNumber
  <2>3. Max(S) = i BY <2>2
  <2> QED BY <1>2, <2>1, <2>3 DEF SelectedAt, S
<1>3. CASE log[i].sel = None
  <2>1. S = T BY <1>3
  <2> HIDE DEF S, T
  <2> QED BY <1>3, <2>1 DEF SelectedAt, S, T
<1> QED BY <1>2, <1>3

\* Before the first command it is in the one that was selected.
LEMMA SelectedFirst ==
    ASSUME NEW db, NEW log
    PROVE  SelectedAt(db, log, 0) = db
BY DEF SelectedAt

\* What the entries of a log are.
LEMMA EntryFields ==
    ASSUME NEW log \in Seq(Entry), NEW i \in 1..Len(log)
    PROVE  log[i].id \in 1..MaxCmd /\ log[i].sel \in Db \cup {None}
<1>1. log[i] \in Entry BY ElementOfSeq
<1> QED BY <1>1 DEF Entry

\* The loader is always in some database.
LEMMA SelectedType ==
    ASSUME NEW db \in Db, NEW log \in Seq(Entry), NEW i \in 0..Len(log)
    PROVE  SelectedAt(db, log, i) \in Db
<1> DEFINE S == {j \in 1..i : log[j].sel # None}
<1>1. S \in SUBSET (1..i) /\ \A j \in S : log[j].sel # None OBVIOUS
<1> HIDE DEF S
<1>2. S # {} => Max(S) \in S BY <1>1, GreatestNumber
<1>3. \A j \in 1..i : log[j].sel \in Db \cup {None}
  <2>1. \A j \in 1..i : j \in 1..Len(log) BY LenProperties
  <2> QED BY <2>1, EntryFields
<1>4. S # {} => log[Max(S)].sel \in Db BY <1>1, <1>2, <1>3
<1> QED BY <1>4 DEF SelectedAt, S

\* What is loaded is the snapshot and a write for each command.
LEMMA LoadedFacts ==
    ASSUME NEW base \in Seq(Write), NEW db \in Db, NEW log \in Seq(Entry)
    PROVE  /\ Loaded(base, db, log) \in Seq(Write)
           /\ Len(Loaded(base, db, log)) = Len(base) + Len(log)
           /\ \A i \in 1..Len(base) : Loaded(base, db, log)[i] = base[i]
           /\ \A i \in 1..Len(log) :
                 Loaded(base, db, log)[Len(base) + i]
                    = [id |-> log[i].id, db |-> SelectedAt(db, log, i)]
<1> DEFINE w(i) == [id |-> log[i].id, db |-> SelectedAt(db, log, i)]
           s == [i \in 1..Len(log) |-> w(i)]
<1>1. Len(log) \in Nat /\ Len(base) \in Nat BY LenProperties
<1>2. \A i \in 1..Len(log) : w(i) \in Write
  <2>1. ASSUME NEW i \in 1..Len(log) PROVE w(i) \in Write
    <3>1. log[i].id \in 1..MaxCmd BY EntryFields
    <3>2. SelectedAt(db, log, i) \in Db BY <1>1, SelectedType
    <3> QED BY <3>1, <3>2 DEF Write
  <2> QED BY <2>1
<1> HIDE DEF w
<1>3. s \in Seq(Write) /\ Len(s) = Len(log) /\ \A i \in 1..Len(log) : s[i] = w(i)
  <2>1. s \in [1..Len(log) -> Write] BY <1>2
  <2> QED BY <1>1, <2>1
<1>4. Loaded(base, db, log) = base \o s BY DEF Loaded, w
<1> HIDE DEF s
<1>5. /\ base \o s \in Seq(Write) /\ Len(base \o s) = Len(base) + Len(s)
      /\ \A i \in 1..(Len(base) + Len(s)) :
            (base \o s)[i] = IF i <= Len(base) THEN base[i] ELSE s[i - Len(base)]
  BY <1>3, ConcatProperties
<1>6. \A i \in 1..Len(base) : (base \o s)[i] = base[i] BY <1>1, <1>3, <1>5
<1>7. ASSUME NEW i \in 1..Len(log) PROVE (base \o s)[Len(base) + i] = w(i)
  <2>1. /\ Len(base) + i \in 1..(Len(base) + Len(s)) /\ ~(Len(base) + i <= Len(base))
        /\ (Len(base) + i) - Len(base) = i
    BY <1>1, <1>3
  <2> QED BY <1>3, <1>5, <2>1
<1> QED BY <1>3, <1>4, <1>5, <1>6, <1>7 DEF w

\* Matches says what loading gives.
LEMMA LoadedMatches ==
    ASSUME NEW base \in Seq(Write), NEW db \in Db, NEW log \in Seq(Entry),
           NEW t \in Seq(Write)
    PROVE  /\ Prefix(Loaded(base, db, log), t) <=> Matches(base, db, log, t)
           /\ Loaded(base, db, log) = t
                 <=> Matches(base, db, log, t) /\ Len(base) + Len(log) = Len(t)
<1> DEFINE s == Loaded(base, db, log)
           w(i) == [id |-> log[i].id, db |-> SelectedAt(db, log, i)]
<1>1. Len(log) \in Nat /\ Len(base) \in Nat /\ Len(t) \in Nat BY LenProperties
<1>2. /\ s \in Seq(Write) /\ Len(s) = Len(base) + Len(log)
      /\ \A i \in 1..Len(base) : s[i] = base[i]
      /\ \A i \in 1..Len(log) : s[Len(base) + i] = w(i)
  BY LoadedFacts
<1> HIDE DEF s, w
<1>3. \A i \in 1..Len(base) : i \in 1..Len(s) BY <1>1, <1>2
<1>4. \A i \in 1..Len(log) : Len(base) + i \in 1..Len(s) BY <1>1, <1>2
<1>5. ASSUME Prefix(s, t) PROVE Matches(base, db, log, t)
  <2>1. Len(s) <= Len(t) /\ \A i \in 1..Len(s) : s[i] = t[i] BY <1>5 DEF Prefix
  <2>2. \A i \in 1..Len(base) : t[i] = base[i] BY <1>2, <1>3, <2>1
  <2>3. \A i \in 1..Len(log) : t[Len(base) + i] = w(i) BY <1>2, <1>4, <2>1
  <2> QED BY <1>2, <2>1, <2>2, <2>3 DEF Matches, w
<1>6. ASSUME Matches(base, db, log, t) PROVE Prefix(s, t)
  <2>1. /\ Len(base) + Len(log) <= Len(t)
        /\ \A i \in 1..Len(base) : t[i] = base[i]
        /\ \A i \in 1..Len(log) : t[Len(base) + i] = w(i)
    BY <1>6 DEF Matches, w
  <2>2. ASSUME NEW i \in 1..Len(s) PROVE s[i] = t[i]
    <3>1. CASE i <= Len(base) BY <1>1, <1>2, <2>1, <3>1
    <3>2. CASE i > Len(base)
      <4>1. i - Len(base) \in 1..Len(log) /\ Len(base) + (i - Len(base)) = i
        BY <1>1, <1>2, <3>2
      <4>2. s[Len(base) + (i - Len(base))] = w(i - Len(base)) BY <1>2, <4>1
      <4>3. t[Len(base) + (i - Len(base))] = w(i - Len(base)) BY <2>1, <4>1
      <4> QED BY <4>1, <4>2, <4>3
    <3> QED BY <1>1, <1>2, <3>1, <3>2
  <2> QED BY <1>2, <2>1, <2>2 DEF Prefix
<1>7. s = t <=> Prefix(s, t) /\ Len(s) = Len(t)
  <2>1. Prefix(s, t) /\ Len(s) = Len(t) => s = t BY <1>2, SeqEqual DEF Prefix
  <2>2. s = t => Prefix(s, t) BY <1>1, <1>2 DEF Prefix
  <2> QED BY <2>1, <2>2
<1> QED BY <1>2, <1>5, <1>6, <1>7 DEF s

\* A log loses its end.
LEMMA MatchShorter ==
    ASSUME NEW base \in Seq(Write), NEW db, NEW log \in Seq(Entry),
           NEW short \in Seq(Entry), NEW t \in Seq(Write),
           Matches(base, db, log, t), Len(short) <= Len(log),
           \A i \in 1..Len(short) : short[i] = log[i]
    PROVE  Matches(base, db, short, t)
<1>1. Len(log) \in Nat /\ Len(base) \in Nat /\ Len(t) \in Nat /\ Len(short) \in Nat
  BY LenProperties
<1>2. ASSUME NEW i \in 1..Len(short)
      PROVE  t[Len(base) + i] = [id |-> short[i].id, db |-> SelectedAt(db, short, i)]
  <2>1. i \in Nat /\ i \in 1..Len(log) /\ \A j \in 1..i : short[j] = log[j] BY <1>1
  <2>2. SelectedAt(db, short, i) = SelectedAt(db, log, i) BY <2>1, SameSelected
  <2> QED BY <2>1, <2>2 DEF Matches
<1> QED BY <1>1, <1>2 DEF Matches

\* The dataset gains a write.
LEMMA MatchGrows ==
    ASSUME NEW base \in Seq(Write), NEW db, NEW log \in Seq(Entry),
           NEW t \in Seq(Write), NEW w \in Write,
           Matches(base, db, log, t)
    PROVE  Matches(base, db, log, Append(t, w))
<1>1. Len(log) \in Nat /\ Len(base) \in Nat /\ Len(t) \in Nat BY LenProperties
<1>2. Len(Append(t, w)) = Len(t) + 1 /\ \A i \in 1..Len(t) : Append(t, w)[i] = t[i]
  BY AppendProperties
<1>3. Len(base) + Len(log) <= Len(t) BY DEF Matches
<1>4. \A i \in 1..Len(base) : i \in 1..Len(t) BY <1>1, <1>3
<1>5. \A i \in 1..Len(log) : Len(base) + i \in 1..Len(t) BY <1>1, <1>3
<1>6. Len(base) + Len(log) <= Len(Append(t, w)) BY <1>1, <1>2, <1>3
<1> QED BY <1>2, <1>4, <1>5, <1>6 DEF Matches

\* The beginning of a dataset stays its beginning.
LEMMA PrefixGrows ==
    ASSUME NEW s \in Seq(Write), NEW t \in Seq(Write), NEW w \in Write, Prefix(s, t)
    PROVE  Prefix(s, Append(t, w))
<1>1. Len(s) \in Nat /\ Len(t) \in Nat BY LenProperties
<1>2. Len(Append(t, w)) = Len(t) + 1 /\ \A i \in 1..Len(t) : Append(t, w)[i] = t[i]
  BY AppendProperties
<1>3. Len(s) <= Len(t) /\ \A i \in 1..Len(s) : s[i] = t[i] BY DEF Prefix
<1>4. \A i \in 1..Len(s) : i \in 1..Len(t) BY <1>1, <1>3
<1> QED BY <1>1, <1>2, <1>3, <1>4 DEF Prefix

\* Appending behind a concatenation.
LEMMA AppendConcat ==
    ASSUME NEW s \in Seq(Entry), NEW t \in Seq(Entry), NEW e \in Entry
    PROVE  s \o Append(t, e) = Append(s \o t, e)
<1>1. <<e>> \in Seq(Entry) OBVIOUS
<1>2. Append(t, e) = t \o <<e>> BY AppendIsConcat
<1>3. s \o t \in Seq(Entry) BY ConcatProperties
<1>4. Append(s \o t, e) = (s \o t) \o <<e>> BY <1>3, AppendIsConcat
<1>5. (s \o t) \o <<e>> = s \o (t \o <<e>>) BY <1>1, ConcatAssociative
<1> QED BY <1>2, <1>4, <1>5

\* A write in database d is appended, with a SELECT or to a log that ends in d.
LEMMA MatchAppend ==
    ASSUME NEW base \in Seq(Write), NEW db \in Db, NEW log \in Seq(Entry),
           NEW t \in Seq(Write), NEW d \in Db, NEW n \in 1..MaxCmd,
           NEW sel \in Db \cup {None},
           Matches(base, db, log, t), Len(base) + Len(log) = Len(t),
           sel = d \/ (sel = None /\ End(db, log) = d)
    PROVE  LET e == Append(log, [id |-> n, sel |-> sel])
               u == Append(t, [id |-> n, db |-> d])
           IN /\ Matches(base, db, e, u) /\ Len(base) + Len(e) = Len(u)
              /\ End(db, e) = d
<1> DEFINE x == [id |-> n, sel |-> sel]
           w == [id |-> n, db |-> d]
           e == Append(log, x)
           u == Append(t, w)
<1>1. Len(log) \in Nat /\ Len(base) \in Nat /\ Len(t) \in Nat BY LenProperties
<1>2. x \in Entry /\ w \in Write /\ x.id = n /\ x.sel = sel BY DEF Entry, Write
<1>3. /\ e \in Seq(Entry) /\ Len(e) = Len(log) + 1
      /\ \A i \in 1..Len(log) : e[i] = log[i]
      /\ e[Len(log) + 1] = x
  BY <1>2, AppendProperties
<1>4. /\ u \in Seq(Write) /\ Len(u) = Len(t) + 1
      /\ \A i \in 1..Len(t) : u[i] = t[i]
      /\ u[Len(t) + 1] = w
  BY <1>2, AppendProperties
<1> HIDE DEF e, u, x
<1>5. ASSUME NEW i \in 0..Len(log) PROVE SelectedAt(db, e, i) = SelectedAt(db, log, i)
  <2>1. i \in Nat /\ \A j \in 1..i : e[j] = log[j] BY <1>1, <1>3
  <2> QED BY <2>1, SameSelected
<1>6. SelectedAt(db, e, Len(log) + 1) = d
  <2>1. Len(log) + 1 \in Nat \ {0} /\ (Len(log) + 1) - 1 = Len(log) BY <1>1
  <2>2. SelectedAt(db, e, Len(log) + 1) =
           IF e[Len(log) + 1].sel # None THEN e[Len(log) + 1].sel
           ELSE SelectedAt(db, e, Len(log))
    BY <2>1, SelectedStep
  <2>3. SelectedAt(db, e, Len(log)) = End(db, log) BY <1>1, <1>5 DEF End
  <2>4. d # None BY AofConstants
  <2> QED BY <1>2, <1>3, <2>2, <2>3, <2>4
<1>7. End(db, e) = d BY <1>3, <1>6 DEF End
<1>8. ASSUME NEW i \in 1..Len(e)
      PROVE  u[Len(base) + i] = [id |-> e[i].id, db |-> SelectedAt(db, e, i)]
  <2>1. CASE i = Len(log) + 1
    <3>1. Len(base) + i = Len(t) + 1 BY <1>1, <2>1
    <3> QED BY <1>2, <1>3, <1>4, <1>6, <2>1, <3>1
  <2>2. CASE i # Len(log) + 1
    <3>1. i \in 1..Len(log) /\ i \in 0..Len(log) /\ Len(base) + i \in 1..Len(t)
      BY <1>1, <1>3, <2>2
    <3> QED BY <1>3, <1>4, <1>5, <3>1 DEF Matches
  <2> QED BY <2>1, <2>2
<1>9. \A i \in 1..Len(base) : u[i] = base[i] BY <1>1, <1>4 DEF Matches
<1>10. Len(base) + Len(e) = Len(u) BY <1>1, <1>3, <1>4
<1>11. Matches(base, db, e, u) BY <1>1, <1>3, <1>4, <1>8, <1>9, <1>10 DEF Matches
<1> QED BY <1>7, <1>10, <1>11 DEF e, u, x

-----------------------------------------------------------------------------
(* Facts the actions share *)

\* The lengths that the invariant speaks of are numbers.
LEMMA Lengths ==
    ASSUME TypeOK
    PROVE  /\ Len(data) \in Nat /\ Len(file.base) \in Nat /\ Len(file.log) \in Nat
           /\ Len(buf) \in Nat /\ Len(rwbuf) \in Nat
           /\ file.base \in Seq(Write) /\ file.db \in Db /\ file.log \in Seq(Entry)
           /\ file.torn \in BOOLEAN
<1>1. file.base \in Seq(Write) /\ file.db \in Db /\ file.log \in Seq(Entry)
      /\ file.torn \in BOOLEAN
  BY DEF TypeOK
<1>2. data \in Seq(Write) /\ buf \in Seq(Entry) /\ rwbuf \in Seq(Entry) BY DEF TypeOK
<1> QED BY <1>1, <1>2, LenProperties

\* The size of a file without a torn end.
LEMMA SizeFacts ==
    ASSUME NEW f, Len(f.base) \in Nat, Len(f.log) \in Nat, f.torn \in BOOLEAN
    PROVE  /\ FileSize(f) \in Nat
           /\ ~f.torn => FileSize(f) = Len(f.base) + Len(f.log)
<1> DEFINE m == Len(f.base)
           n == Len(f.log)
<1>1. m \in Nat /\ n \in Nat OBVIOUS
<1>2. FileSize(f) = m + n + (IF f.torn THEN 1 ELSE 0) BY DEF FileSize
<1> HIDE DEF m, n
<1>3. FileSize(f) \in Nat /\ (~f.torn => FileSize(f) = m + n) BY <1>1, <1>2
<1> QED BY <1>3 DEF m, n

\* The file with the buffer behind it.
LEMMA WrittenFacts ==
    ASSUME TypeOK
    PROVE  /\ Written \in [base : Seq(Write), db : Db, log : Seq(Entry), torn : BOOLEAN]
           /\ Written.base = file.base /\ Written.db = file.db
           /\ Written.torn = file.torn /\ Written.log = file.log \o buf
           /\ file.log \o buf \in Seq(Entry)
           /\ Len(file.log \o buf) = Len(file.log) + Len(buf)
           /\ buf = <<>> => Written = file /\ file.log \o buf = file.log
<1>1. file.log \in Seq(Entry) /\ buf \in Seq(Entry) BY DEF TypeOK
<1>2. /\ file.log \o buf \in Seq(Entry)
      /\ Len(file.log \o buf) = Len(file.log) + Len(buf)
  BY <1>1, ConcatProperties
<1>3. file \in [base : Seq(Write), db : Db, log : Seq(Entry), torn : BOOLEAN]
  BY DEF TypeOK
<1>4. /\ Written \in [base : Seq(Write), db : Db, log : Seq(Entry), torn : BOOLEAN]
      /\ Written.base = file.base /\ Written.db = file.db
      /\ Written.torn = file.torn /\ Written.log = file.log \o buf
  BY <1>2, <1>3 DEF Written
<1>5. buf = <<>> => file.log \o buf = file.log BY <1>1, ConcatEmptySeq
<1>6. buf = <<>> => Written = file BY <1>3, <1>5 DEF Written
<1> QED BY <1>2, <1>4, <1>5, <1>6

\* What a flush may write never goes beyond the dataset.
LEMMA WrittenMatches ==
    ASSUME IInv, phase \in {"run", "poll"}
    PROVE  Matches(file.base, file.db, file.log \o buf, data)
<1>1. CASE state = "ON" BY <1>1 DEF IInv, OnMatches
<1>2. CASE state # "ON"
  <2>1. buf = <<>> BY <1>2 DEF IInv, Modes
  <2> QED BY <2>1, WrittenFacts DEF IInv, FileMatches
<1> QED BY <1>1, <1>2

\* The jobs of the bio thread.
LEMMA JobsFacts ==
    ASSUME TypeOK
    PROVE  /\ JobsAfterWrite \in Seq(BOOLEAN)
           /\ Append(fsyncs, TRUE) \in Seq(BOOLEAN)
           /\ fsyncs # <<>> => Head(fsyncs) \in BOOLEAN /\ Tail(fsyncs) \in Seq(BOOLEAN)
<1>1. fsyncs \in Seq(BOOLEAN) BY DEF TypeOK
<1>2. Append(fsyncs, TRUE) \in Seq(BOOLEAN) BY <1>1, AppendProperties
<1>3. fsyncs # <<>> => Head(fsyncs) \in BOOLEAN /\ Tail(fsyncs) \in Seq(BOOLEAN)
  BY <1>1, HeadTailProperties
<1> QED BY <1>1, <1>2, <1>3 DEF JobsAfterWrite

\* The jobs that no longer sync the file.
LEMMA ClosedType ==
    ASSUME NEW jobs \in Seq(BOOLEAN)
    PROVE  Closed(jobs) \in Seq(BOOLEAN)
<1>1. DOMAIN jobs = 1..Len(jobs) /\ Len(jobs) \in Nat BY LenProperties
<1>2. Closed(jobs) \in [1..Len(jobs) -> BOOLEAN] BY <1>1 DEF Closed
<1> QED BY <1>1, <1>2

\* A flush does nothing to the file, or writes all of the buffer.
LEMMA FlushFacts ==
    ASSUME TypeOK, FlushAppendOnlyFile
    PROVE  /\ fsyncs' \in Seq(BOOLEAN) /\ newsec' \in BOOLEAN /\ postponed' \in 0..3
           /\ \/ /\ UNCHANGED <<file, size, buf, synced>>
                 /\ buf # <<>> => policy # "always"
              \/ /\ file' = Written /\ size' = size + Len(buf) /\ buf' = <<>>
                 /\ synced' = IF ~NoFsync /\ policy = "always" THEN Len(Written.log)
                                                               ELSE synced
<1>1. fsyncs \in Seq(BOOLEAN) /\ newsec \in BOOLEAN /\ postponed \in 0..3
  BY DEF TypeOK
<1>2. CASE buf = <<>> BY <1>1, <1>2 DEF FlushAppendOnlyFile
<1>3. CASE buf # <<>> /\ Postpones
  <2>1. /\ postponed' = Max({1, postponed})
        /\ UNCHANGED <<file, size, buf, synced, fsyncs, newsec>>
    BY <1>3 DEF FlushAppendOnlyFile
  <2>2. postponed' \in 0..3 BY <1>1, <2>1, OfTwo
  <2>3. policy # "always" BY <1>3 DEF Postpones, SyncInProgress
  <2> QED BY <1>1, <2>1, <2>2, <2>3
<1>4. CASE buf # <<>> /\ ~Postpones
  <2>1. FlushWrites BY <1>4 DEF FlushAppendOnlyFile
  <2>2. newsec' \in BOOLEAN BY <1>1, <2>1 DEF FlushWrites
  <2>3. fsyncs' \in Seq(BOOLEAN) BY <2>1, JobsFacts DEF FlushWrites
  <2>4. postponed' \in 0..3 BY <2>1 DEF FlushWrites
  <2>5. /\ file' = Written /\ size' = size + Len(buf) /\ buf' = <<>>
        /\ synced' = IF ~NoFsync /\ policy = "always" THEN Len(Written.log) ELSE synced
    BY <2>1 DEF FlushWrites
  <2> QED BY <2>2, <2>3, <2>4, <2>5
<1> QED BY <1>2, <1>3, <1>4

-----------------------------------------------------------------------------
(* Each action keeps the invariant *)

\* flushAppendOnlyFile, and the replies that may be sent after it.
LEMMA FlushInv ==
    ASSUME IInv, phase = "run", phase' \in {"run", "poll"}, FlushAppendOnlyFile,
           UNCHANGED <<data, state, fd, selected, rwbuf, policy, procs, aofchild,
                       rdbchild, scheduled>>,
           \/ acked' = acked
           \/ /\ policy = "always" /\ state = "ON" /\ buf # <<>> /\ ~NoFsync
              /\ acked' = Len(data)
    PROVE  IInv'
<1>1. TypeOK /\ ~file.torn BY DEF IInv, Modes, Up
<1>2. /\ Len(data) \in Nat /\ Len(file.base) \in Nat /\ Len(file.log) \in Nat
      /\ Len(buf) \in Nat /\ synced \in 0..Len(file.log) /\ size \in Nat /\ acked \in Nat
  BY <1>1, Lengths DEF TypeOK
<1>3. fsyncs' \in Seq(BOOLEAN) /\ newsec' \in BOOLEAN /\ postponed' \in 0..3
  BY <1>1, FlushFacts
<1>4. /\ file'.base = file.base /\ file'.db = file.db /\ file'.torn = file.torn
      /\ file' \in [base : Seq(Write), db : Db, log : Seq(Entry), torn : BOOLEAN]
      /\ buf' \in Seq(Entry) /\ (buf = <<>> => buf' = <<>>)
      /\ file'.log \o buf' = file.log \o buf
      /\ size' \in Nat /\ (size = FileSize(file) => size' = FileSize(file'))
      /\ synced' \in synced..Len(file'.log)
      /\ file'.log = file.log \/ file'.log = file.log \o buf
      /\ acked' # acked => synced' = Len(file.log \o buf)
  <2>1. CASE UNCHANGED <<file, size, buf, synced>> /\ (buf # <<>> => policy # "always")
    BY <1>1, <1>2, <2>1 DEF TypeOK
  <2>2. CASE /\ file' = Written /\ size' = size + Len(buf) /\ buf' = <<>>
             /\ synced' = IF ~NoFsync /\ policy = "always" THEN Len(Written.log)
                                                           ELSE synced
    <3>1. /\ Written \in [base : Seq(Write), db : Db, log : Seq(Entry), torn : BOOLEAN]
          /\ Written.base = file.base /\ Written.db = file.db
          /\ Written.torn = file.torn /\ Written.log = file.log \o buf
          /\ file.log \o buf \in Seq(Entry)
          /\ Len(file.log \o buf) = Len(file.log) + Len(buf)
      BY <1>1, WrittenFacts
    <3>2. file'.log \o buf' = file.log \o buf /\ buf' \in Seq(Entry)
      BY <2>2, <3>1, ConcatEmptySeq, EmptySeq
    <3>3. size' \in Nat /\ (size = FileSize(file) => size' = FileSize(file'))
      <4> DEFINE m == Len(file.base)
                 n == Len(file.log)
      <4>1. m \in Nat /\ n \in Nat /\ Len(buf) \in Nat BY <1>2
      <4>2. FileSize(file) = m + n BY <1>1, <1>2 DEF FileSize
      <4>3. FileSize(file') = m + (n + Len(buf)) BY <1>1, <1>2, <2>2, <3>1 DEF FileSize
      <4>4. size' = size + Len(buf) BY <2>2
      <4> HIDE DEF m, n
      <4>5. size' \in Nat BY <1>2, <4>4
      <4> QED BY <4>1, <4>2, <4>3, <4>4, <4>5
    <3>4. synced' \in synced..Len(file'.log) BY <1>2, <2>2, <3>1
    <3> HIDE DEF Written
    <3> QED BY <2>2, <3>1, <3>2, <3>3, <3>4
  <2> QED BY <1>1, <2>1, <2>2, FlushFacts
<1>5. acked' \in Nat /\ acked' <= Len(data) /\ acked' <= Len(file.base) + synced'
  <2>1. acked <= Len(data) /\ acked <= Len(file.base) + synced
    BY DEF IInv, Durable, NoAckedLost
  <2>2. CASE acked' = acked BY <1>2, <1>4, <2>1, <2>2
  <2>3. CASE acked' # acked
    <3>1. state = "ON" /\ acked' = Len(data) /\ synced' = Len(file.log \o buf)
      BY <1>4, <2>3
    <3>2. Len(file.base) + Len(file.log \o buf) = Len(data)
      BY <3>1 DEF IInv, OnMatches
    <3>3. acked' = Len(file.base) + synced' BY <3>1, <3>2
    <3>4. acked' \in Nat /\ acked' <= acked' BY <1>2, <3>1
    <3> QED BY <3>1, <3>3, <3>4
  <2> QED BY <2>2, <2>3
<1>6. TypeOK'
  <2>1. synced' \in 0..Len(file'.log) BY <1>2, <1>4
  <2> QED BY <1>1, <1>3, <1>4, <1>5, <2>1 DEF TypeOK
<1>7. Modes'
  BY <1>1, <1>4 DEF IInv, Modes, Up
<1>8. StateMeansFile' BY <1>4 DEF IInv, StateMeansFile
<1>9. FileMatches'
  <2>1. Matches(file.base, file.db, file.log \o buf, data) BY WrittenMatches
  <2>2. Matches(file.base, file.db, file.log, data) BY DEF IInv, FileMatches
  <2> QED BY <1>4, <2>1, <2>2 DEF FileMatches
<1>10. OnMatches' BY <1>4 DEF IInv, OnMatches
<1>11. ChildMatches'
  <2>1. state = "OFF" => acked' = acked OBVIOUS
  <2> QED BY <2>1 DEF IInv, ChildMatches
<1>12. SwitchMatches' /\ Durable' /\ NoAckedLost'
  BY <1>4, <1>5 DEF SwitchMatches, Durable, NoAckedLost
<1> QED BY <1>6, <1>7, <1>8, <1>9, <1>10, <1>11, <1>12 DEF IInv

\* Steps that touch neither the dataset, the file nor what is still to be written.
LEMMA FrameInv ==
    ASSUME IInv, TypeOK', NEW c \in Pid \cup {None}, c = aofchild,
           UNCHANGED <<data, state, fd, selected, buf, rwbuf, file, size, policy,
                       aofchild, acked>>,
           phase' = phase \/ (phase \in {"run", "poll"} /\ phase' \in {"run", "poll"}),
           scheduled => scheduled', synced <= synced',
           c # None /\ procs'[c].st # "err" =>
              procs[c].st # "err" /\ procs'[c].base = procs[c].base
    PROVE  IInv'
<1>1. Modes' BY DEF IInv, Modes, Up
<1>2. StateMeansFile' BY DEF IInv, StateMeansFile
<1>3. FileMatches' /\ OnMatches' /\ SwitchMatches' /\ NoAckedLost'
  BY DEF IInv, FileMatches, OnMatches, SwitchMatches, NoAckedLost
<1>4. ChildMatches' BY DEF IInv, ChildMatches
<1>5. Durable'
  <2> DEFINE m == Len(file.base)
  <2>1. phase # "switch" => acked <= m + synced BY DEF IInv, Durable
  <2>2. /\ m \in Int /\ acked \in Int /\ synced \in Int /\ synced' \in Int
        /\ (phase' = "switch" <=> phase = "switch")
    BY Lengths DEF IInv, TypeOK
  <2>3. Len(file'.base) = m OBVIOUS
  <2> HIDE DEF m
  <2>4. acked <= m + synced => acked <= m + synced' BY <2>2, SumGrows
  <2>5. acked' = acked OBVIOUS
  <2> QED BY <2>1, <2>2, <2>3, <2>4, <2>5 DEF Durable
<1> QED BY <1>1, <1>2, <1>3, <1>4, <1>5 DEF IInv

LEMMA BeforeSleepInv == IInv /\ BeforeSleep => IInv'
<1> SUFFICES ASSUME IInv, BeforeSleep PROVE IInv' OBVIOUS
<1>1. /\ phase = "run" /\ phase' \in {"run", "poll"} /\ FlushAppendOnlyFile
      /\ UNCHANGED <<data, state, fd, selected, rwbuf, policy, procs, aofchild,
                     rdbchild, scheduled>>
      /\ \/ acked' = acked
         \/ /\ policy = "always" /\ state = "ON" /\ buf # <<>> /\ ~NoFsync
            /\ acked' = Len(data)
  BY DEF BeforeSleep
<1> QED BY <1>1, FlushInv

LEMMA CronFlushInv == IInv /\ CronFlush => IInv'
<1> SUFFICES ASSUME IInv, CronFlush PROVE IInv' OBVIOUS
<1>1. /\ phase = "run" /\ phase' \in {"run", "poll"} /\ FlushAppendOnlyFile
      /\ UNCHANGED <<data, state, fd, selected, rwbuf, policy, procs, aofchild,
                     rdbchild, scheduled>>
      /\ acked' = acked
  BY DEF CronFlush
<1> QED BY <1>1, FlushInv

LEMMA PollInv == IInv /\ Poll => IInv'
<1> SUFFICES ASSUME IInv, Poll PROVE IInv' OBVIOUS
<1>1. TypeOK' /\ synced \in Int BY DEF IInv, TypeOK, Poll, memory
<1> QED BY <1>1, FrameInv DEF IInv, TypeOK, Poll, memory

LEMMA BioFsyncInv == IInv /\ BioFsync => IInv'
<1> SUFFICES ASSUME IInv, BioFsync PROVE IInv' OBVIOUS
<1>1. TypeOK BY DEF IInv
<1>2. Len(file.log) \in Nat /\ synced \in 0..Len(file.log) BY <1>1, Lengths DEF TypeOK
<1>3. synced' \in 0..Len(file.log) /\ synced <= synced'
  <2> DEFINE n == Len(file.log)
  <2>1. n \in Nat /\ synced \in 0..n BY <1>2
  <2>2. synced' = n \/ synced' = synced BY DEF BioFsync
  <2> HIDE DEF n
  <2>3. synced' \in 0..n /\ synced <= synced' BY <2>1, <2>2
  <2> QED BY <2>3 DEF n
<1>4. fsyncs' \in Seq(BOOLEAN) BY <1>1, JobsFacts DEF BioFsync
<1>5. TypeOK' BY <1>1, <1>3, <1>4 DEF BioFsync, TypeOK, memory
<1> QED BY <1>1, <1>3, <1>5, FrameInv DEF TypeOK, BioFsync, memory

LEMMA TickInv == IInv /\ Tick => IInv'
<1> SUFFICES ASSUME IInv, Tick PROVE IInv' OBVIOUS
<1>1. TypeOK' /\ synced \in Int
  <2>1. postponed' \in 0..3 BY DEF IInv, TypeOK, Tick
  <2> QED BY <2>1 DEF IInv, TypeOK, Tick
<1> QED BY <1>1, FrameInv DEF IInv, TypeOK, Tick

LEMMA ScheduleRewriteInv == IInv /\ ScheduleRewrite => IInv'
<1> SUFFICES ASSUME IInv, ScheduleRewrite PROVE IInv' OBVIOUS
<1>1. TypeOK' /\ synced \in Int BY DEF IInv, TypeOK, ScheduleRewrite
<1> QED BY <1>1, FrameInv DEF IInv, TypeOK, ScheduleRewrite

LEMMA RdbSaveBackgroundInv ==
    ASSUME IInv, NEW p \in Pid, RdbSaveBackground(p)
    PROVE  IInv'
<1>1. TypeOK BY DEF IInv
<1>2. [st |-> "running", base |-> <<>>]
         \in [st : {"free", "running", "ok", "err"}, base : Seq(Write)]
  BY EmptySeq
<1>3. /\ procs' \in [Pid -> [st : {"free", "running", "ok", "err"}, base : Seq(Write)]]
      /\ \A q \in Pid : q # p => procs'[q] = procs[q]
  BY <1>1, <1>2 DEF TypeOK, RdbSaveBackground
<1>4. p # aofchild BY DEF RdbSaveBackground, Forkable, Unused
<1>5. TypeOK' /\ synced \in Int BY <1>1, <1>3 DEF TypeOK, RdbSaveBackground
<1>6. aofchild # None => procs'[aofchild] = procs[aofchild] BY <1>1, <1>3, <1>4 DEF TypeOK
<1> QED BY <1>1, <1>5, <1>6, FrameInv DEF TypeOK, RdbSaveBackground

LEMMA ChildExitsInv ==
    ASSUME IInv, NEW p \in Pid, ChildExits(p)
    PROVE  IInv'
<1> DEFINE Proc == [st : {"free", "running", "ok", "err"}, base : Seq(Write)]
<1>1. TypeOK BY DEF IInv
<1>2. procs \in [Pid -> Proc] BY <1>1 DEF TypeOK
<1>3. /\ procs' \in [Pid -> Proc]
      /\ \A q \in Pid : procs'[q].st # "err" =>
            procs[q].st # "err" /\ procs'[q].base = procs[q].base
  <2>1. CASE procs' = [procs EXCEPT ![p].st = "ok"]
    <3>1. procs[p] \in Proc BY <1>2
    <3>2. [procs[p] EXCEPT !.st = "ok"] \in Proc BY <3>1
    <3>3. procs' = [procs EXCEPT ![p] = [procs[p] EXCEPT !.st = "ok"]] BY <2>1
    <3>4. procs' \in [Pid -> Proc] BY <1>2, <3>2, <3>3
    <3>5. procs'[p].base = procs[p].base /\ procs[p].st # "err"
      BY <1>2, <3>1, <3>3 DEF ChildExits
    <3>6. \A q \in Pid : q # p => procs'[q] = procs[q] BY <1>2, <3>3
    <3>7. ASSUME NEW q \in Pid, procs'[q].st # "err"
          PROVE  procs[q].st # "err" /\ procs'[q].base = procs[q].base
      <4>1. CASE q = p BY <3>5, <4>1
      <4>2. CASE q # p BY <3>6, <3>7, <4>2
      <4> QED BY <4>1, <4>2
    <3> QED BY <3>4, <3>7
  <2>2. CASE procs' = [procs EXCEPT ![p] = Failed]
    <3>1. Failed \in Proc /\ Failed.st = "err" BY EmptySeq DEF Failed
    <3>2. procs' \in [Pid -> Proc] BY <1>2, <2>2, <3>1
    <3>3. procs'[p] = Failed BY <1>2, <2>2
    <3>4. \A q \in Pid : q # p => procs'[q] = procs[q] BY <1>2, <2>2
    <3>5. ASSUME NEW q \in Pid, procs'[q].st # "err"
          PROVE  procs[q].st # "err" /\ procs'[q].base = procs[q].base
      BY <3>1, <3>3, <3>4, <3>5
    <3> QED BY <3>2, <3>5
  <2> QED BY <2>1, <2>2 DEF ChildExits
<1>4. TypeOK' /\ synced \in Int BY <1>1, <1>3 DEF TypeOK, ChildExits, memory
<1> QED BY <1>1, <1>3, <1>4, FrameInv DEF TypeOK, ChildExits, memory

LEMMA ReapOtherInv ==
    ASSUME IInv, NEW p \in Pid, ReapOther(p)
    PROVE  IInv'
<1>1. TypeOK BY DEF IInv
<1>2. NoProc \in [st : {"free", "running", "ok", "err"}, base : Seq(Write)]
  BY EmptySeq DEF NoProc
<1>3. /\ procs' \in [Pid -> [st : {"free", "running", "ok", "err"}, base : Seq(Write)]]
      /\ \A q \in Pid : q # p => procs'[q] = procs[q]
  BY <1>1, <1>2 DEF TypeOK, ReapOther
<1>4. TypeOK' /\ synced \in Int BY <1>1, <1>3 DEF TypeOK, ReapOther
<1>5. aofchild # None => procs'[aofchild] = procs[aofchild]
  BY <1>1, <1>3 DEF TypeOK, ReapOther
<1> QED BY <1>1, <1>4, <1>5, FrameInv DEF TypeOK, ReapOther

LEMMA ShutdownFailsInv == IInv /\ ShutdownFails => IInv'
<1> SUFFICES ASSUME IInv, ShutdownFails PROVE IInv' OBVIOUS
<1> DEFINE Proc == [st : {"free", "running", "ok", "err"}, base : Seq(Write)]
<1>1. TypeOK BY DEF IInv
<1>2. procs \in [Pid -> Proc] BY <1>1 DEF TypeOK
<1>3. Failed \in Proc /\ Failed.st = "err" BY EmptySeq DEF Failed
<1> HIDE DEF Proc
<1>4. /\ procs' \in [Pid -> Proc]
      /\ \A q \in Pid : procs'[q] = Failed \/ procs'[q] = procs[q]
  BY <1>2, <1>3 DEF ShutdownFails
<1>5. synced' \in 0..Len(file.log) /\ synced <= synced'
  <2> DEFINE n == Len(file.log)
  <2>1. n \in Nat /\ synced \in 0..n BY <1>1, Lengths DEF TypeOK
  <2>2. synced' = n \/ synced' = synced BY DEF ShutdownFails
  <2> HIDE DEF n
  <2>3. synced' \in 0..n /\ synced <= synced' BY <2>1, <2>2
  <2> QED BY <2>3 DEF n
<1>6. TypeOK' BY <1>1, <1>4, <1>5 DEF TypeOK, ShutdownFails, memory, Proc
<1>7. \A q \in Pid : procs'[q].st # "err" =>
         procs[q].st # "err" /\ procs'[q].base = procs[q].base
  BY <1>3, <1>4
<1> QED BY <1>1, <1>5, <1>6, <1>7, FrameInv DEF TypeOK, ShutdownFails, memory

LEMMA ConfigSetInv ==
    ASSUME IInv, NEW p \in Policy, ConfigSetAppendfsync(p)
    PROVE  IInv'
<1>1. TypeOK /\ phase = "run" /\ phase' = "run" BY DEF IInv, ConfigSetAppendfsync
<1>2. acked' = acked \/ acked' = 0 BY DEF ConfigSetAppendfsync
<1>3. /\ Len(data) \in Nat /\ Len(file.base) \in Nat /\ synced \in Nat
      /\ acked \in Nat /\ acked' \in Nat /\ acked' <= acked
  BY <1>1, <1>2, Lengths DEF TypeOK
<1>4. TypeOK' BY <1>1, <1>3 DEF TypeOK, ConfigSetAppendfsync, memory
<1>5. Modes' BY <1>1 DEF IInv, Modes, Up, ConfigSetAppendfsync, memory
<1>6. StateMeansFile' /\ FileMatches' /\ OnMatches' /\ SwitchMatches'
  BY <1>1 DEF IInv, StateMeansFile, FileMatches, OnMatches, SwitchMatches,
              ConfigSetAppendfsync, memory
<1>7. Durable'
  <2>1. acked <= Len(file.base) + synced BY <1>1 DEF IInv, Durable
  <2>2. 0 <= Len(file.base) + synced BY <1>3
  <2>3. acked' <= Len(file.base) + synced BY <1>2, <2>1, <2>2
  <2> QED BY <2>3 DEF Durable, ConfigSetAppendfsync, memory
<1>8. NoAckedLost'
  <2>1. acked <= Len(data) BY DEF IInv, NoAckedLost
  <2>2. acked' <= Len(data) BY <1>2, <1>3, <2>1
  <2> QED BY <2>2 DEF NoAckedLost, ConfigSetAppendfsync
<1>9. ChildMatches'
  <2> SUFFICES ASSUME (phase \in {"run", "poll"} /\ aofchild # None
                          /\ procs[aofchild].st # "err")'
               PROVE  LET base == procs[aofchild].base'
                      IN /\ Prefix(base, data')
                         /\ state' = "OFF" => acked' <= Len(base)
                         /\ state' # "OFF" =>
                               /\ Len(base) + Len(rwbuf') = Len(data')
                               /\ \A d \in Db : /\ Matches(base, d, rwbuf', data')
                                                /\ selected' # None => End(d, rwbuf') = selected'
    BY DEF ChildMatches
  <2> DEFINE base == procs[aofchild].base
  <2>1. UNCHANGED <<data, state, procs, rwbuf, selected, aofchild>>
    BY DEF ConfigSetAppendfsync, memory
  <2>2. /\ Prefix(base, data)
        /\ state = "OFF" => acked <= Len(base)
        /\ state # "OFF" =>
              /\ Len(base) + Len(rwbuf) = Len(data)
              /\ \A d \in Db : /\ Matches(base, d, rwbuf, data)
                               /\ selected # None => End(d, rwbuf) = selected
    BY <1>1, <2>1 DEF IInv, ChildMatches
  <2>3. base \in Seq(Write) BY <1>1, <2>1 DEF TypeOK
  <2>4. Len(base) \in Nat BY <2>3, LenProperties
  <2> HIDE DEF base
  <2>5. state = "OFF" => acked' <= Len(base) BY <1>2, <2>2, <2>4
  <2> QED BY <2>1, <2>2, <2>5 DEF base
<1> QED BY <1>4, <1>5, <1>6, <1>7, <1>8, <1>9 DEF IInv

\* rewriteAppendOnlyFileBackground: the snapshot and the differences begin with
\* the dataset as it is.
LEMMA ForkInv ==
    ASSUME IInv, NEW p \in Pid, phase = "run", ForkRewrite(p), newsec' \in BOOLEAN,
           UNCHANGED <<data, buf, rwbuf, file, synced, size, policy, rdbchild, fsyncs,
                       postponed, phase, acked>>,
           \/ state' = state /\ fd' = fd
           \/ state = "OFF" /\ state' = "WAIT_REWRITE" /\ fd' = "open"
    PROVE  IInv'
<1>1. TypeOK BY DEF IInv
<1>2. p # None BY AofConstants
<1>3. aofchild = None /\ aofchild' = p /\ selected' = None /\ scheduled' = FALSE
  BY DEF ForkRewrite
<1>4. [st |-> "running", base |-> data]
         \in [st : {"free", "running", "ok", "err"}, base : Seq(Write)]
  BY <1>1 DEF TypeOK
<1>5. /\ procs' \in [Pid -> [st : {"free", "running", "ok", "err"}, base : Seq(Write)]]
      /\ procs'[p].base = data
  BY <1>1, <1>4 DEF TypeOK, ForkRewrite
<1>6. TypeOK' BY <1>1, <1>3, <1>5 DEF TypeOK
<1>7. rwbuf = <<>> BY <1>3 DEF IInv, Modes
<1>8. Modes' BY <1>7 DEF IInv, Modes, Up
<1>9. StateMeansFile' BY <1>2, <1>3 DEF IInv, StateMeansFile
<1>10. FileMatches' /\ OnMatches' /\ SwitchMatches' /\ NoAckedLost' /\ Durable'
  BY <1>3 DEF IInv, FileMatches, OnMatches, SwitchMatches, NoAckedLost, Durable
<1>11. ChildMatches'
  <2>1. data \in Seq(Write) /\ Len(data) \in Nat /\ Len(rwbuf) = 0
    BY <1>1, <1>7, Lengths DEF TypeOK
  <2>2. Prefix(data, data) BY <2>1 DEF Prefix
  <2>3. acked <= Len(data) BY DEF IInv, NoAckedLost
  <2>4. Len(data) + Len(rwbuf) = Len(data) BY <2>1
  <2>5. \A d \in Db : Matches(data, d, rwbuf, data) BY <2>1, <2>4 DEF Matches
  <2> QED BY <1>3, <1>5, <2>2, <2>3, <2>4, <2>5 DEF ChildMatches
<1> QED BY <1>6, <1>8, <1>9, <1>10, <1>11 DEF IInv

LEMMA StartRewriteInv ==
    ASSUME IInv, NEW p \in Pid, StartRewrite(p)
    PROVE  IInv'
<1>1. newsec' \in BOOLEAN BY DEF IInv, TypeOK, StartRewrite
<1> QED BY <1>1, ForkInv DEF StartRewrite

LEMMA StartAppendOnlyInv ==
    ASSUME IInv, NEW p \in Pid, StartAppendOnly(p)
    PROVE  IInv'
<1>1. newsec' \in BOOLEAN BY DEF StartAppendOnly
<1> QED BY <1>1, ForkInv DEF StartAppendOnly

LEMMA StartAppendOnlyFailsInv == IInv /\ StartAppendOnlyFails => IInv'
<1> SUFFICES ASSUME IInv, StartAppendOnlyFails PROVE IInv' OBVIOUS
<1>1. TypeOK' BY DEF IInv, TypeOK, StartAppendOnlyFails
<1>2. Modes' BY DEF IInv, Modes, Up, StartAppendOnlyFails
<1>3. StateMeansFile' /\ FileMatches' /\ OnMatches' /\ SwitchMatches' /\ NoAckedLost'
      /\ Durable'
  BY DEF IInv, StateMeansFile, FileMatches, OnMatches, SwitchMatches, NoAckedLost,
         Durable, StartAppendOnlyFails
<1>4. ChildMatches' BY DEF IInv, ChildMatches, StartAppendOnlyFails
<1> QED BY <1>1, <1>2, <1>3, <1>4 DEF IInv

LEMMA RewriteFailsInv == IInv /\ RewriteFails => IInv'
<1> SUFFICES ASSUME IInv, RewriteFails PROVE IInv' OBVIOUS
<1>1. NoProc \in [st : {"free", "running", "ok", "err"}, base : Seq(Write)]
  BY EmptySeq DEF NoProc
<1>2. procs' \in [Pid -> [st : {"free", "running", "ok", "err"}, base : Seq(Write)]]
  BY <1>1 DEF IInv, TypeOK, RewriteFails
<1>3. rwbuf' \in Seq(Entry) /\ scheduled' \in BOOLEAN
  BY EmptySeq DEF IInv, TypeOK, RewriteFails, ScheduledAfter
<1>4. TypeOK' BY <1>2, <1>3 DEF IInv, TypeOK, RewriteFails
<1>5. Modes' BY DEF IInv, Modes, Up, RewriteFails
<1>6. StateMeansFile' BY DEF IInv, StateMeansFile, RewriteFails, ScheduledAfter
<1>7. FileMatches' /\ OnMatches' /\ ChildMatches' /\ SwitchMatches' /\ NoAckedLost'
      /\ Durable'
  BY DEF IInv, FileMatches, OnMatches, ChildMatches, SwitchMatches, NoAckedLost,
         Durable, RewriteFails
<1> QED BY <1>4, <1>5, <1>6, <1>7 DEF IInv

\* A write goes to the dataset, and behind everything that is to hold it all.
LEMMA WriteCommandInv ==
    ASSUME IInv, NEW d \in Db, WriteCommand(d)
    PROVE  IInv'
<1> DEFINE n == Len(data) + 1
           w == [id |-> n, db |-> d]
           sel == IF d = selected THEN None ELSE d
           e == [id |-> n, sel |-> sel]
<1>1. TypeOK /\ phase = "run" /\ phase' = "run" BY DEF IInv, WriteCommand
<1>2. /\ data \in Seq(Write) /\ Len(data) \in Nat /\ buf \in Seq(Entry)
      /\ rwbuf \in Seq(Entry) /\ file.base \in Seq(Write) /\ file.db \in Db
      /\ file.log \in Seq(Entry) /\ acked \in Nat /\ Len(rwbuf) \in Nat
  BY <1>1, Lengths DEF TypeOK
<1>3. n \in 1..MaxCmd BY <1>2, AofConstants DEF WriteCommand
<1>4. sel \in Db \cup {None} /\ (sel = d \/ (sel = None /\ selected = d)) /\ d # None
  BY AofConstants
<1>5. NextEntry(d) = e BY DEF NextEntry
<1>6. data' = Append(data, w) BY DEF WriteCommand
<1>7. UNCHANGED <<state, fd, file, synced, size, policy, procs, aofchild, rdbchild,
                  scheduled, fsyncs, newsec, postponed, phase, acked>>
  BY DEF WriteCommand
<1>8. /\ buf' = IF state = "ON" THEN Append(buf, e) ELSE buf
      /\ rwbuf' = IF state # "OFF" /\ aofchild # None THEN Append(rwbuf, e) ELSE rwbuf
      /\ selected' = IF state = "OFF" THEN selected ELSE d
  BY <1>5 DEF WriteCommand
<1> HIDE DEF n, sel
<1>9. w \in Write /\ e \in Entry BY <1>3, <1>4 DEF Write, Entry
<1>10. /\ Append(data, w) \in Seq(Write) /\ Len(Append(data, w)) = Len(data) + 1
       /\ \A i \in 1..Len(data) : Append(data, w)[i] = data[i]
       /\ Append(buf, e) \in Seq(Entry) /\ Append(rwbuf, e) \in Seq(Entry)
  BY <1>2, <1>9, AppendProperties
<1>11. TypeOK' BY <1>1, <1>6, <1>7, <1>8, <1>10 DEF TypeOK
<1>12. Modes' BY <1>1, <1>7, <1>8 DEF IInv, Modes, Up
<1>13. StateMeansFile' BY <1>7 DEF IInv, StateMeansFile
<1>14. FileMatches'
  <2>1. Matches(file.base, file.db, file.log, data) BY DEF IInv, FileMatches
  <2> HIDE DEF w
  <2>2. Matches(file.base, file.db, file.log, Append(data, w))
    BY <1>2, <1>9, <2>1, MatchGrows
  <2> QED BY <1>6, <1>7, <2>2 DEF FileMatches
<1>15. OnMatches'
  <2> SUFFICES ASSUME state = "ON"
               PROVE  /\ Matches(file.base, file.db, file.log \o buf', data')
                      /\ Len(file.base) + Len(file.log \o buf') = Len(data')
                      /\ End(file.db, file.log \o buf') = d
    BY <1>7, <1>8 DEF OnMatches
  <2>1. /\ Matches(file.base, file.db, file.log \o buf, data)
        /\ Len(file.base) + Len(file.log \o buf) = Len(data)
        /\ selected # None => End(file.db, file.log \o buf) = selected
    BY <1>1 DEF IInv, OnMatches
  <2>2. file.log \o buf \in Seq(Entry) BY <1>2, ConcatProperties
  <2>3. file.log \o Append(buf, e) = Append(file.log \o buf, e)
    <3> HIDE DEF e
    <3> QED BY <1>2, <1>9, AppendConcat
  <2>4. sel = d \/ (sel = None /\ End(file.db, file.log \o buf) = d) BY <1>4, <2>1
  <2>5. /\ Matches(file.base, file.db, Append(file.log \o buf, e), Append(data, w))
        /\ Len(file.base) + Len(Append(file.log \o buf, e)) = Len(Append(data, w))
        /\ End(file.db, Append(file.log \o buf, e)) = d
    <3> DEFINE log == file.log \o buf
               base == file.base
               db == file.db
    <3>1. /\ base \in Seq(Write) /\ db \in Db /\ log \in Seq(Entry)
          /\ Matches(base, db, log, data) /\ Len(base) + Len(log) = Len(data)
          /\ sel = d \/ (sel = None /\ End(db, log) = d)
      BY <1>2, <2>1, <2>2, <2>4
    <3> HIDE DEF log, base, db
    <3>2. /\ Matches(base, db, Append(log, e), Append(data, w))
          /\ Len(base) + Len(Append(log, e)) = Len(Append(data, w))
          /\ End(db, Append(log, e)) = d
      BY <1>2, <1>3, <1>4, <3>1, MatchAppend
    <3> QED BY <3>2 DEF log, base, db
  <2> HIDE DEF e, w
  <2> QED BY <1>6, <1>8, <2>3, <2>5
<1>16. ChildMatches'
  <2> DEFINE base == procs[aofchild].base
  <2> SUFFICES ASSUME aofchild # None, procs[aofchild].st # "err"
               PROVE  /\ Prefix(base, data')
                      /\ state = "OFF" => acked <= Len(base)
                      /\ state # "OFF" =>
                            /\ Len(base) + Len(rwbuf') = Len(data')
                            /\ \A x \in Db : /\ Matches(base, x, rwbuf', data')
                                             /\ End(x, rwbuf') = d
    BY <1>7, <1>8 DEF ChildMatches
  <2>1. /\ Prefix(base, data)
        /\ state = "OFF" => acked <= Len(base)
        /\ state # "OFF" =>
              /\ Len(base) + Len(rwbuf) = Len(data)
              /\ \A x \in Db : /\ Matches(base, x, rwbuf, data)
                               /\ selected # None => End(x, rwbuf) = selected
    BY <1>1 DEF IInv, ChildMatches
  <2>2. base \in Seq(Write) BY <1>1 DEF TypeOK
  <2>3. Len(base) \in Nat BY <2>2, LenProperties
  <2> HIDE DEF base
  <2>4. Prefix(base, data')
    <3> HIDE DEF w
    <3> QED BY <1>2, <1>6, <1>9, <2>1, <2>2, PrefixGrows
  <2>5. ASSUME state # "OFF", NEW x \in Db
        PROVE  /\ Matches(base, x, rwbuf', data')
               /\ Len(base) + Len(rwbuf') = Len(data')
               /\ End(x, rwbuf') = d
    <3>1. sel = d \/ (sel = None /\ End(x, rwbuf) = d) BY <1>4, <2>1, <2>5
    <3>2. Matches(base, x, rwbuf, data) /\ Len(base) + Len(rwbuf) = Len(data)
      BY <2>1, <2>5
    <3>3. /\ Matches(base, x, Append(rwbuf, e), Append(data, w))
          /\ Len(base) + Len(Append(rwbuf, e)) = Len(Append(data, w))
          /\ End(x, Append(rwbuf, e)) = d
      BY <1>2, <1>3, <1>4, <2>2, <3>1, <3>2, MatchAppend
    <3>4. rwbuf' = Append(rwbuf, e) BY <1>8, <2>5
    <3> HIDE DEF e, w
    <3> QED BY <1>6, <3>3, <3>4
  <2> QED BY <2>1, <2>4, <2>5, AofConstants
<1>17. SwitchMatches' /\ Durable' BY <1>1, <1>7 DEF IInv, SwitchMatches, Durable
<1>18. NoAckedLost'
  <2>1. acked <= Len(data) BY DEF IInv, NoAckedLost
  <2>2. acked <= Len(data) + 1 BY <1>2, <2>1
  <2> QED BY <1>6, <1>7, <1>10, <2>2 DEF NoAckedLost
<1> QED BY <1>11, <1>12, <1>13, <1>14, <1>15, <1>16, <1>17, <1>18 DEF IInv

\* Whichever database the snapshot ends with, it is one.
LEMMA LastSelectedType ==
    ASSUME NEW base \in Seq(Write), NEW d \in LastSelected(base)
    PROVE  d \in Db
<1>1. CASE base = <<>> BY <1>1, AofConstants DEF LastSelected
<1>2. CASE base # <<>>
  <2>1. PICK i \in DOMAIN base : d = base[i].db BY <1>2 DEF LastSelected
  <2>2. base[i] \in Write BY LenProperties, ElementOfSeq
  <2> QED BY <2>1, <2>2 DEF Write
<1> QED BY <1>1, <1>2

\* The renamed file is the child's snapshot and the differences.
LEMMA RewriteRenameInv == IInv /\ RewriteRename => IInv'
<1> SUFFICES ASSUME IInv, RewriteRename PROVE IInv' OBVIOUS
<1> DEFINE base == procs[aofchild].base
<1>1. TypeOK /\ phase = "run" /\ phase' = "switch" /\ aofchild # None
      /\ procs[aofchild].st = "ok"
  BY DEF IInv, RewriteRename
<1>2. base \in Seq(Write) /\ Len(base) \in Nat
  <2>1. base \in Seq(Write) BY <1>1 DEF TypeOK
  <2> QED BY <2>1, LenProperties
<1>3. /\ Prefix(base, data)
      /\ state = "OFF" => acked <= Len(base)
      /\ state # "OFF" => /\ Len(base) + Len(rwbuf) = Len(data)
                          /\ \A d \in Db : Matches(base, d, rwbuf, data)
  BY <1>1 DEF IInv, ChildMatches
<1>4. UNCHANGED <<data, state, fd, size, policy, acked, memory>> /\ synced' = 0
  BY DEF RewriteRename
<1>5. PICK d \in LastSelected(base) :
         file' = [base |-> base, db |-> d, log |-> rwbuf, torn |-> FALSE]
  BY DEF RewriteRename
<1>6. fsyncs' \in Seq(BOOLEAN) BY <1>1, ClosedType DEF TypeOK, RewriteRename
<1>7. procs' \in [Pid -> [st : {"free", "running", "ok", "err"}, base : Seq(Write)]]
  <2>1. NoProc \in [st : {"free", "running", "ok", "err"}, base : Seq(Write)]
    BY EmptySeq DEF NoProc
  <2> QED BY <1>1, <2>1 DEF TypeOK, RewriteRename
<1> HIDE DEF base
<1>8. d \in Db BY <1>2, LastSelectedType
<1>9. /\ file'.base = base /\ file'.db = d /\ file'.log = rwbuf /\ file'.torn = FALSE
      /\ file' \in [base : Seq(Write), db : Db, log : Seq(Entry), torn : BOOLEAN]
  BY <1>1, <1>2, <1>5, <1>8 DEF TypeOK
<1>10. rwbuf \in Seq(Entry) /\ Len(rwbuf) \in Nat BY <1>1, Lengths DEF TypeOK
<1>11. TypeOK'
  <2>1. synced' \in 0..Len(file'.log) BY <1>4, <1>9, <1>10
  <2> QED BY <1>1, <1>4, <1>6, <1>7, <1>9, <2>1 DEF TypeOK, memory
<1>12. Modes' BY <1>1, <1>4, <1>9 DEF IInv, Modes, Up, memory
<1>13. FileMatches'
  <2>1. Matches(base, d, rwbuf, data)
    <3>1. CASE state # "OFF" BY <1>3, <1>8, <3>1
    <3>2. CASE state = "OFF"
      <4>1. rwbuf = <<>> BY <3>2 DEF IInv, Modes
      <4>2. Len(rwbuf) = 0 /\ Len(base) + Len(rwbuf) = Len(base) BY <1>2, <4>1
      <4> QED BY <1>3, <4>2 DEF Matches, Prefix
    <3> QED BY <3>1, <3>2
  <2> QED BY <1>4, <1>9, <2>1 DEF FileMatches
<1>14. SwitchMatches' BY <1>3, <1>4, <1>9 DEF SwitchMatches, memory
<1>15. StateMeansFile' /\ OnMatches' /\ ChildMatches' /\ Durable' /\ NoAckedLost'
  BY <1>1, <1>4 DEF IInv, StateMeansFile, OnMatches, ChildMatches, Durable, NoAckedLost
<1> QED BY <1>11, <1>12, <1>13, <1>14, <1>15 DEF IInv

\* The new file replaces the old one; what the buffer held is in it.
LEMMA RewriteSwitchInv == IInv /\ RewriteSwitch => IInv'
<1> SUFFICES ASSUME IInv, RewriteSwitch PROVE IInv' OBVIOUS
<1>1. /\ TypeOK /\ phase = "switch" /\ phase' = "run" /\ aofchild' = None
      /\ rwbuf' = <<>> /\ ~file.torn
  BY DEF IInv, RewriteSwitch, Modes, Up
<1>2. UNCHANGED <<data, file, policy, procs, rdbchild, scheduled, newsec, postponed,
                  acked>>
  BY DEF RewriteSwitch
<1>3. ASSUME state # "OFF"
      PROVE  /\ fd' = "open" /\ selected' = None /\ buf' = <<>> /\ size' = FileSize(file)
             /\ state' = "ON"
  <2>1. fd = "open" BY <1>3 DEF IInv, Modes
  <2>2. state' = "ON" BY <1>1, <1>3 DEF RewriteSwitch, TypeOK
  <2> QED BY <2>1, <2>2 DEF RewriteSwitch, BufAfterSwitch, SizeAfterSwitch
<1>4. ASSUME state = "OFF" PROVE state' = "OFF" /\ buf' = <<>>
  BY <1>4 DEF IInv, Modes, RewriteSwitch, BufAfterSwitch
<1>5. /\ Len(data) \in Nat /\ Len(file.base) \in Nat /\ Len(file.log) \in Nat
      /\ synced \in 0..Len(file.log) /\ acked \in Nat /\ file.log \in Seq(Entry)
  BY <1>1, Lengths DEF TypeOK
<1>6. synced' = Len(file.log) \/ synced' = synced
  BY DEF RewriteSwitch, SyncedAfterSwitch
<1>7. synced' \in 0..Len(file.log)
  <2> DEFINE n == Len(file.log)
  <2>1. n \in Nat /\ synced \in 0..n /\ (synced' = n \/ synced' = synced) BY <1>5, <1>6
  <2> HIDE DEF n
  <2>2. synced' \in 0..n BY <2>1
  <2> QED BY <2>2 DEF n
<1>8. TypeOK'
  <2>1. size' \in Nat
    <3>1. FileSize(file) \in Nat BY <1>1, Lengths, SizeFacts
    <3> QED BY <1>1, <3>1 DEF RewriteSwitch, SizeAfterSwitch, TypeOK
  <2>2. fsyncs' \in Seq(BOOLEAN) BY <1>1, JobsFacts DEF RewriteSwitch, TypeOK
  <2>3. /\ rwbuf' \in Seq(Entry) /\ buf' \in Seq(Entry)
        /\ fd' \in {"none", "open", "stale"} /\ state' \in {"ON", "OFF", "WAIT_REWRITE"}
        /\ selected' \in Db \cup {None}
    BY <1>1, <1>3, <1>4, EmptySeq DEF RewriteSwitch, TypeOK
  <2> QED BY <1>1, <1>2, <1>7, <2>1, <2>2, <2>3 DEF TypeOK
<1>9. Modes' BY <1>1, <1>2, <1>3, <1>4 DEF IInv, Modes, Up
<1>10. StateMeansFile' BY <1>2, <1>3, <1>4 DEF StateMeansFile
<1>11. FileMatches' BY <1>2 DEF IInv, FileMatches
<1>12. OnMatches'
  <2>1. file.log \o <<>> = file.log BY <1>5, ConcatEmptySeq
  <2> QED BY <1>1, <1>2, <1>3, <1>4, <2>1 DEF IInv, OnMatches, SwitchMatches, FileMatches
<1>13. ChildMatches' /\ SwitchMatches' /\ NoAckedLost'
  BY <1>1, <1>2 DEF IInv, ChildMatches, SwitchMatches, NoAckedLost
<1>14. Durable'
  <2> SUFFICES acked <= Len(file.base) + synced' BY <1>2 DEF Durable
  <2> DEFINE m == Len(file.base)
  <2>1. m \in Int /\ acked \in Int /\ 0 \in Int /\ synced' \in Int /\ 0 <= synced'
    BY <1>5, <1>7
  <2>2. ASSUME acked <= m PROVE acked <= m + synced'
    <3> HIDE DEF m
    <3>1. acked <= m + 0 BY <2>1, <2>2
    <3> QED BY <2>1, <3>1, SumGrows
  <2>3. CASE policy # "always"
    <3>1. acked = 0 BY <2>3 DEF IInv, Modes
    <3> QED BY <1>5, <2>2, <3>1
  <2>4. CASE policy = "always" /\ state # "OFF"
    <3>1. synced' = Len(file.log)
      BY <2>4 DEF IInv, Modes, RewriteSwitch, SyncedAfterSwitch
    <3>2. Len(file.base) + Len(file.log) = Len(data)
      BY <1>1, <2>4 DEF IInv, SwitchMatches
    <3>3. acked <= Len(data) BY DEF IInv, NoAckedLost
    <3> QED BY <3>1, <3>2, <3>3
  <2>5. CASE state = "OFF"
    <3>1. acked <= Len(file.base) BY <1>1, <2>5 DEF IInv, SwitchMatches
    <3> QED BY <2>2, <3>1
  <2> QED BY <2>3, <2>4, <2>5
<1> QED BY <1>8, <1>9, <1>10, <1>11, <1>12, <1>13, <1>14 DEF IInv

\* The buffer is written and synced, and the rewrite, if any, given up.
LEMMA StopAppendOnlyInv == IInv /\ StopAppendOnly => IInv'
<1> SUFFICES ASSUME IInv, StopAppendOnly PROVE IInv' OBVIOUS
<1> DEFINE Proc == [st : {"free", "running", "ok", "err"}, base : Seq(Write)]
<1>1. /\ TypeOK /\ phase = "run" /\ phase' = "run" /\ state # "OFF" /\ state' = "OFF"
      /\ fd' = "none" /\ selected' = None /\ buf' = <<>> /\ ~file.torn
      /\ file' = Written /\ synced' = Len(Written.log)
  BY DEF IInv, StopAppendOnly, Modes, Up
<1>2. UNCHANGED <<data, policy, rdbchild, scheduled, phase, acked>>
  BY DEF StopAppendOnly
<1>3. /\ Written \in [base : Seq(Write), db : Db, log : Seq(Entry), torn : BOOLEAN]
      /\ Written.base = file.base /\ Written.db = file.db
      /\ Written.torn = file.torn /\ Written.log = file.log \o buf
      /\ file.log \o buf \in Seq(Entry)
      /\ Len(file.log \o buf) = Len(file.log) + Len(buf)
  BY <1>1, WrittenFacts
<1>4. /\ Len(data) \in Nat /\ Len(file.base) \in Nat /\ Len(file.log) \in Nat
      /\ Len(buf) \in Nat /\ synced \in 0..Len(file.log) /\ acked \in Nat
  BY <1>1, Lengths DEF TypeOK
<1> HIDE DEF Written
<1>5. aofchild' = None /\ rwbuf' = <<>>
  BY <1>1 DEF IInv, Modes, StopAppendOnly
<1>6. procs' \in [Pid -> Proc]
  <2>1. CASE aofchild = None BY <1>1, <2>1 DEF TypeOK, StopAppendOnly
  <2>2. CASE aofchild # None
    <3> DEFINE killed == [procs EXCEPT ![aofchild] = IF @.st = "running" THEN Failed ELSE @]
    <3>1. procs \in [Pid -> Proc] /\ aofchild \in Pid BY <1>1, <2>2 DEF TypeOK
    <3>2. Failed \in Proc /\ NoProc \in Proc BY EmptySeq DEF Failed, NoProc
    <3>3. PICK p \in Pid : procs' = [killed EXCEPT ![p] = NoProc]
      BY <2>2 DEF StopAppendOnly, KillAndWait
    <3> HIDE DEF Proc
    <3>4. killed \in [Pid -> Proc] BY <3>1, <3>2
    <3> HIDE DEF killed
    <3> QED BY <3>2, <3>3, <3>4
  <2> QED BY <2>1, <2>2
<1>7. TypeOK'
  <2>1. fsyncs' \in Seq(BOOLEAN) BY <1>1, JobsFacts, ClosedType DEF StopAppendOnly
  <2>2. newsec' \in BOOLEAN /\ postponed' \in 0..3
    <3>1. newsec \in BOOLEAN /\ postponed \in 0..3 BY <1>1 DEF TypeOK
    <3>2. newsec' = newsec \/ newsec' = FALSE BY DEF StopAppendOnly
    <3>3. postponed' = postponed \/ postponed' = 0 BY DEF StopAppendOnly
    <3>4. postponed' \in 0..3 BY <3>1, <3>3
    <3> QED BY <3>1, <3>2, <3>4
  <2>3. size' \in Nat
    <3>1. size \in Nat /\ Len(buf) \in Nat /\ size' = size + Len(buf)
      BY <1>1, <1>4 DEF StopAppendOnly, TypeOK
    <3> QED BY <3>1
  <2>4. synced' \in 0..Len(file'.log) BY <1>1, <1>3, <1>4
  <2>5. buf' \in Seq(Entry) /\ rwbuf' \in Seq(Entry) BY <1>1, <1>5, EmptySeq
  <2> QED BY <1>1, <1>2, <1>3, <1>5, <1>6, <2>1, <2>2, <2>3, <2>4, <2>5 DEF TypeOK
<1>8. Modes' BY <1>1, <1>2, <1>3, <1>5 DEF IInv, Modes, Up
<1>9. FileMatches'
  <2>1. Matches(file.base, file.db, file.log \o buf, data) BY <1>1, WrittenMatches
  <2> QED BY <1>1, <1>2, <1>3, <2>1 DEF FileMatches
<1>10. StateMeansFile' /\ OnMatches' /\ ChildMatches' /\ SwitchMatches' /\ NoAckedLost'
  BY <1>1, <1>2, <1>5
     DEF IInv, StateMeansFile, OnMatches, ChildMatches, SwitchMatches, NoAckedLost
<1>11. Durable'
  <2> DEFINE m == Len(file.base)
  <2>1. acked <= m + synced BY <1>1 DEF IInv, Durable
  <2>2. m \in Int /\ acked \in Int /\ synced \in Int /\ synced' \in Int
        /\ synced <= synced'
    BY <1>1, <1>3, <1>4
  <2>3. acked <= m + synced' BY <2>1, <2>2, SumGrows
  <2> QED BY <1>1, <1>2, <1>3, <2>3 DEF Durable
<1> QED BY <1>7, <1>8, <1>9, <1>10, <1>11 DEF IInv

\* A process that is gone leaves a file that begins as the dataset did.
LEMMA ExitInv ==
    ASSUME IInv, NEW ph \in {"down", "shutdown"}, Exit(ph),
           file' \in [base : Seq(Write), db : Db, log : Seq(Entry), torn : BOOLEAN],
           synced' \in 0..Len(file'.log), size' \in Nat, acked' \in Nat,
           policy # "always" => acked' = 0,
           file'.base = file.base, file'.db = file.db,
           Matches(file.base, file.db, file'.log, data),
           acked' <= Len(data), acked' <= Len(file.base) + synced'
    PROVE  IInv'
<1>1. /\ phase' = ph /\ state' = "ON" /\ fd' = "open" /\ selected' = None
      /\ buf' = <<>> /\ rwbuf' = <<>> /\ aofchild' = None /\ rdbchild' = None
      /\ scheduled' = FALSE /\ fsyncs' = <<>> /\ newsec' = FALSE /\ postponed' = 0
      /\ data' = data /\ policy' = policy
  BY DEF Exit
<1>2. procs' \in [Pid -> [st : {"free", "running", "ok", "err"}, base : Seq(Write)]]
  <2>1. NoProc \in [st : {"free", "running", "ok", "err"}, base : Seq(Write)]
    BY EmptySeq DEF NoProc
  <2> QED BY <2>1 DEF Exit
<1>3. TypeOK'
  <2>1. buf' \in Seq(Entry) /\ rwbuf' \in Seq(Entry) /\ fsyncs' \in Seq(BOOLEAN)
    BY <1>1, EmptySeq
  <2>2. data' \in Seq(Write) /\ policy' \in Policy BY <1>1 DEF IInv, TypeOK
  <2>3. /\ state' \in {"ON", "OFF", "WAIT_REWRITE"} /\ fd' \in {"none", "open", "stale"}
        /\ selected' \in Db \cup {None}
        /\ aofchild' \in Pid \cup {None} /\ rdbchild' \in Pid \cup {None}
        /\ scheduled' \in BOOLEAN /\ newsec' \in BOOLEAN
        /\ phase' \in {"run", "poll", "switch", "down", "shutdown"}
    BY <1>1, Zenon
  <2>4. postponed' \in 0..3 BY <1>1
  <2> QED BY <1>2, <2>1, <2>2, <2>3, <2>4 DEF TypeOK
<1>4. Modes' BY <1>1 DEF Modes, Up
<1>5. FileMatches' BY <1>1 DEF FileMatches
<1>6. StateMeansFile' /\ OnMatches' /\ ChildMatches' /\ SwitchMatches'
  BY <1>1 DEF StateMeansFile, OnMatches, ChildMatches, SwitchMatches
<1>7. NoAckedLost' /\ Durable' BY <1>1 DEF NoAckedLost, Durable
<1> QED BY <1>3, <1>4, <1>5, <1>6, <1>7 DEF IInv

\* The beginning of a sequence.
LEMMA SubSeqFacts ==
    ASSUME NEW S, NEW s \in Seq(S), NEW n \in 0..Len(s)
    PROVE  /\ SubSeq(s, 1, n) \in Seq(S) /\ Len(SubSeq(s, 1, n)) = n
           /\ \A i \in 1..n : SubSeq(s, 1, n)[i] = s[i]
<1>1. Len(s) \in Nat BY LenProperties
<1>2. \A i \in 1..n : i \in 1..Len(s) BY <1>1
<1>3. \A i \in 1..n : s[i] \in S BY <1>2, ElementOfSeq
<1>4. /\ SubSeq(s, 1, n) \in Seq(S)
      /\ Len(SubSeq(s, 1, n)) = IF 1 <= n THEN n - 1 + 1 ELSE 0
      /\ \A i \in 1..(n - 1 + 1) : SubSeq(s, 1, n)[i] = s[1 + i - 1]
  BY <1>1, <1>3, SubSeqProperties
<1>5. Len(SubSeq(s, 1, n)) = n BY <1>1, <1>4
<1>6. ASSUME NEW i \in 1..n PROVE SubSeq(s, 1, n)[i] = s[i]
  <2>1. i \in 1..(n - 1 + 1) /\ 1 + i - 1 = i BY <1>1
  <2> QED BY <1>4, <2>1
<1> QED BY <1>4, <1>5, <1>6

\* What was synced is left, or more of what was written.
LEMMA CrashInv == IInv /\ Crash => IInv'
<1> SUFFICES ASSUME IInv, Crash PROVE IInv' OBVIOUS
<1>1. TypeOK BY DEF IInv
<1>2. /\ Len(data) \in Nat /\ Len(file.base) \in Nat /\ Len(file.log) \in Nat
      /\ synced \in 0..Len(file.log) /\ acked \in Nat /\ file.log \in Seq(Entry)
      /\ data \in Seq(Write) /\ file.base \in Seq(Write)
  BY <1>1, Lengths DEF TypeOK
<1>3. PICK n \in synced..Len(file.log), torn \in BOOLEAN :
         /\ file' = [file EXCEPT !.log = SubSeq(file.log, 1, n), !.torn = torn]
         /\ acked' = IF phase = "switch" THEN Min({acked, Len(file.base)}) ELSE acked
  BY DEF Crash
<1> DEFINE log == SubSeq(file.log, 1, n)
           m == Len(file.base)
           k == Len(file.log)
<1>4. n \in 0..k /\ synced <= n /\ synced \in Nat
  <2>1. k \in Nat /\ synced \in 0..k /\ n \in synced..k BY <1>2
  <2> HIDE DEF k
  <2> QED BY <2>1
<1>5. log \in Seq(Entry) /\ Len(log) = n /\ \A i \in 1..n : log[i] = file.log[i]
  BY <1>2, <1>4, SubSeqFacts
<1>6. n <= Len(file.log) /\ m \in Nat /\ n \in Nat BY <1>2, <1>4
<1>7. /\ file' \in [base : Seq(Write), db : Db, log : Seq(Entry), torn : BOOLEAN]
      /\ file'.base = file.base /\ file'.db = file.db /\ file'.log = log
  <2> HIDE DEF log
  <2>1. file \in [base : Seq(Write), db : Db, log : Seq(Entry), torn : BOOLEAN]
    BY <1>1 DEF TypeOK
  <2>2. file' = [file EXCEPT !.log = log, !.torn = torn] BY <1>3 DEF log
  <2> QED BY <1>5, <2>1, <2>2
<1>8. Matches(file.base, file.db, log, data)
  <2>1. Matches(file.base, file.db, file.log, data) BY DEF IInv, FileMatches
  <2> HIDE DEF log
  <2> QED BY <1>2, <1>5, <1>6, <2>1, MatchShorter
<1> HIDE DEF log
<1>9. synced' = synced /\ size' = size /\ size \in Nat BY <1>1 DEF Crash, TypeOK
<1>10. synced' \in 0..Len(file'.log) BY <1>4, <1>5, <1>6, <1>7, <1>9
<1>11. /\ acked' \in Nat /\ acked' <= acked /\ acked' <= m + synced
       /\ policy # "always" => acked' = 0
  <2>1. policy # "always" => acked = 0 BY DEF IInv, Modes
  <2>2. acked <= acked BY <1>2
  <2>3. CASE phase # "switch"
    <3>1. acked <= m + synced BY <2>3 DEF IInv, Durable
    <3> QED BY <1>2, <1>3, <2>1, <2>2, <2>3, <3>1
  <2>4. CASE phase = "switch"
    <3> HIDE DEF m
    <3>1. acked' = Min({acked, m}) BY <1>3, <2>4 DEF m
    <3>2. acked' = IF acked <= m THEN acked ELSE m
      <4>1. acked \in Int /\ m \in Int BY <1>2, <1>6
      <4>2. Min({acked, m}) = IF acked <= m THEN acked ELSE m BY <4>1, OfTwo
      <4> QED BY <3>1, <4>2
    <3>3. m <= m + synced BY <1>4, <1>6
    <3>4. acked' \in Nat /\ acked' <= acked /\ acked' <= m BY <1>2, <1>6, <3>2
    <3>5. acked' <= m + synced BY <1>4, <1>6, <3>4
    <3> QED BY <1>2, <1>6, <2>1, <3>2, <3>4, <3>5
  <2> QED BY <2>3, <2>4
<1>12. acked' <= Len(data)
  <2>1. acked <= Len(data) BY DEF IInv, NoAckedLost
  <2> QED BY <1>2, <1>11, <2>1
<1>13. acked' <= Len(file.base) + synced' BY <1>9, <1>11
<1>14. Exit("down") /\ "down" \in {"down", "shutdown"} BY DEF Crash
<1> QED BY <1>7, <1>8, <1>9, <1>10, <1>11, <1>12, <1>13, <1>14, ExitInv

LEMMA ShutdownInv == IInv /\ Shutdown => IInv'
<1> SUFFICES ASSUME IInv, Shutdown PROVE IInv' OBVIOUS
<1> DEFINE n == Len(file.log)
           m == Len(file.base)
<1>1. TypeOK /\ phase = "run" BY DEF IInv, Shutdown
<1>2. n \in Nat /\ m \in Int /\ synced \in 0..n /\ acked \in Int /\ acked \in Nat
  BY <1>1, Lengths DEF TypeOK
<1>3. synced' = n \/ synced' = synced BY DEF Shutdown
<1>4. UNCHANGED <<file, size, acked>> BY DEF Shutdown
<1>5. acked <= m + synced BY <1>1 DEF IInv, Durable
<1>6. acked <= Len(data) /\ (policy # "always" => acked = 0)
  BY DEF IInv, NoAckedLost, Modes
<1> HIDE DEF n, m
<1>7. synced' \in 0..n /\ synced <= synced' /\ synced \in Int /\ synced' \in Int
  BY <1>2, <1>3
<1>8. acked <= m + synced' BY <1>2, <1>5, <1>7, SumGrows
<1>9. PICK ph \in {"down", "shutdown"} : Exit(ph) BY DEF Shutdown
<1>10. /\ file' \in [base : Seq(Write), db : Db, log : Seq(Entry), torn : BOOLEAN]
       /\ size' \in Nat /\ file'.base = file.base /\ file'.db = file.db
       /\ file'.log = file.log /\ acked' = acked
  BY <1>1, <1>4 DEF TypeOK
<1>11. synced' \in 0..Len(file'.log) BY <1>4, <1>7 DEF n
<1>12. acked' <= Len(file.base) + synced' BY <1>4, <1>8 DEF m
<1>13. Matches(file.base, file.db, file.log, data) BY DEF IInv, FileMatches
<1> QED BY <1>2, <1>6, <1>9, <1>10, <1>11, <1>12, <1>13, ExitInv

LEMMA CheckAofFixInv == IInv /\ CheckAofFix => IInv'
<1> SUFFICES ASSUME IInv, CheckAofFix PROVE IInv' OBVIOUS
<1>1. TypeOK /\ ~Up /\ ~Up' /\ file' = [file EXCEPT !.torn = FALSE]
  BY DEF IInv, CheckAofFix, Up
<1>2. /\ file' \in [base : Seq(Write), db : Db, log : Seq(Entry), torn : BOOLEAN]
      /\ file'.base = file.base /\ file'.db = file.db /\ file'.log = file.log
  BY <1>1 DEF TypeOK
<1>3. UNCHANGED <<data, state, fd, synced, size, policy, procs, fsyncs, phase, acked,
                  memory>>
  BY DEF CheckAofFix
<1>4. TypeOK' BY <1>1, <1>2, <1>3 DEF TypeOK, memory
<1>5. Modes' BY <1>1, <1>3 DEF IInv, Modes, Up, memory
<1>6. StateMeansFile' /\ OnMatches' /\ ChildMatches' /\ SwitchMatches'
  BY <1>1 DEF Up, StateMeansFile, OnMatches, ChildMatches, SwitchMatches
<1>7. FileMatches' /\ Durable' /\ NoAckedLost'
  BY <1>2, <1>3 DEF IInv, FileMatches, Durable, NoAckedLost
<1> QED BY <1>4, <1>5, <1>6, <1>7 DEF IInv

\* The dataset is what the file gives, and what was acknowledged is in it.
LEMMA RestartInv == IInv /\ Restart => IInv'
<1> SUFFICES ASSUME IInv, Restart PROVE IInv' OBVIOUS
<1>1. /\ TypeOK /\ ~Up /\ phase \in {"down", "shutdown"} /\ phase' = "run" /\ ~file.torn
      /\ data' = LoadedFile /\ size' = FileSize(file)
  BY DEF IInv, Restart, Up
<1>2. UNCHANGED <<state, fd, file, synced, policy, procs, fsyncs, acked, memory>>
  BY DEF Restart
<1>3. /\ state = "ON" /\ buf = <<>> /\ rwbuf = <<>> /\ selected = None /\ aofchild = None
      /\ fd = "open"
  BY <1>1 DEF IInv, Modes
<1>4. /\ Len(file.base) \in Nat /\ Len(file.log) \in Nat /\ file.base \in Seq(Write)
      /\ file.db \in Db /\ file.log \in Seq(Entry) /\ file.torn \in BOOLEAN
      /\ synced \in 0..Len(file.log) /\ acked \in Nat
  BY <1>1, Lengths DEF TypeOK
<1>5. data' \in Seq(Write) /\ Len(data') = Len(file.base) + Len(file.log)
  BY <1>1, <1>4, LoadedFacts DEF LoadedFile
<1>6. Matches(file.base, file.db, file.log, data')
  BY <1>1, <1>4, <1>5, LoadedMatches DEF LoadedFile
<1>7. TypeOK'
  <2>1. size' \in Nat BY <1>1, <1>4, SizeFacts
  <2> QED BY <1>1, <1>2, <1>5, <2>1 DEF TypeOK, memory
<1>8. Modes' BY <1>1, <1>2, <1>3 DEF IInv, Modes, Up, memory
<1>9. StateMeansFile' BY <1>1, <1>2, <1>3 DEF StateMeansFile
<1>10. FileMatches' BY <1>2, <1>6 DEF FileMatches
<1>11. OnMatches'
  <2>1. file.log \o <<>> = file.log BY <1>4, ConcatEmptySeq
  <2> QED BY <1>2, <1>3, <1>5, <1>6, <2>1 DEF OnMatches, memory
<1>12. ChildMatches' /\ SwitchMatches'
  BY <1>1, <1>2, <1>3 DEF ChildMatches, SwitchMatches, memory
<1>13. acked <= Len(file.base) + synced BY <1>1 DEF IInv, Durable
<1>14. Durable' BY <1>2, <1>13 DEF Durable
<1>15. NoAckedLost'
  <2> DEFINE m == Len(file.base)
             n == Len(file.log)
  <2>1. m \in Int /\ acked \in Int /\ synced \in Int /\ n \in Int /\ synced <= n
        /\ acked <= m + synced
    BY <1>4, <1>13
  <2> HIDE DEF m, n
  <2>2. acked <= m + n BY <2>1, SumGrows
  <2> QED BY <1>2, <1>5, <2>2 DEF NoAckedLost, m, n
<1> QED BY <1>7, <1>8, <1>9, <1>10, <1>11, <1>12, <1>14, <1>15 DEF IInv

\* A part of the buffer was written; it is cut off again or stays, torn.
LEMMA FlushFailsInv == IInv /\ FlushFails => IInv'
<1> SUFFICES ASSUME IInv, FlushFails PROVE IInv' OBVIOUS
<1>1. TypeOK /\ phase = "run" /\ buf # <<>> BY DEF IInv, FlushFails
<1>2. /\ Len(data) \in Nat /\ Len(file.base) \in Nat /\ Len(file.log) \in Nat
      /\ Len(buf) \in Nat /\ file.log \in Seq(Entry) /\ buf \in Seq(Entry)
      /\ data \in Seq(Write) /\ file.base \in Seq(Write) /\ file.torn \in BOOLEAN
      /\ synced \in 0..Len(file.log) /\ acked \in Nat /\ size \in Nat
  BY <1>1, Lengths DEF TypeOK
<1>3. state = "ON" /\ ~file.torn BY <1>1 DEF IInv, Modes, Up
<1> DEFINE k == Len(file.log)
           m == Len(file.base)
           all == file.log \o buf
<1>4. size - Len(file.base) = k
  <2>1. size = FileSize(file) BY <1>1, <1>3 DEF IInv, StateMeansFile
  <2>2. size = m + k BY <1>2, <1>3, <2>1, SizeFacts
  <2>3. m \in Nat /\ k \in Nat BY <1>2
  <2> HIDE DEF m, k
  <2>4. size - m = k BY <2>2, <2>3
  <2> QED BY <2>4 DEF m
<1>5. PICK n \in 0..(Len(buf) - 1) :
         \/ file' = [file EXCEPT !.log = SubSeq(file.log \o SubSeq(buf, 1, n), 1, k)]
         \/ file' = [file EXCEPT !.log = file.log \o SubSeq(buf, 1, n), !.torn = TRUE]
  BY <1>4 DEF FlushFails
<1> DEFINE part == SubSeq(buf, 1, n)
           log == file.log \o part
<1>6. /\ all \in Seq(Entry) /\ Len(all) = k + Len(buf)
      /\ \A i \in 1..(k + Len(buf)) :
            all[i] = IF i <= k THEN file.log[i] ELSE buf[i - k]
  BY <1>2, ConcatProperties
<1>7. part \in Seq(Entry) /\ Len(part) = n /\ \A i \in 1..n : part[i] = buf[i]
  <2>1. n \in 0..Len(buf) BY <1>2
  <2> QED BY <1>2, <2>1, SubSeqFacts
<1> HIDE DEF part
<1>8. /\ log \in Seq(Entry) /\ Len(log) = k + n
      /\ \A i \in 1..(k + n) : log[i] = IF i <= k THEN file.log[i] ELSE part[i - k]
  BY <1>2, <1>7, ConcatProperties
<1>9. k \in Nat /\ n \in Nat /\ n <= Len(buf) /\ m \in Nat /\ synced \in 0..k BY <1>2
<1> HIDE DEF k, m, all, log
<1>10. ASSUME NEW i \in 1..(k + n) PROVE log[i] = all[i]
  <2>1. i \in 1..(k + Len(buf)) BY <1>2, <1>9
  <2>2. CASE i <= k BY <1>6, <1>8, <2>1, <2>2
  <2>3. CASE ~(i <= k)
    <3>1. i - k \in 1..n BY <1>9, <2>3
    <3> QED BY <1>6, <1>7, <1>8, <2>1, <2>3, <3>1
  <2> QED BY <2>2, <2>3
<1>11. PICK j \in k..(k + n) : file'.log = SubSeq(log, 1, j)
          /\ file'.base = file.base /\ file'.db = file.db
          /\ file' \in [base : Seq(Write), db : Db, log : Seq(Entry), torn : BOOLEAN]
  <2>1. file \in [base : Seq(Write), db : Db, log : Seq(Entry), torn : BOOLEAN]
    BY <1>1 DEF TypeOK
  <2>2. k \in 0..(k + n) /\ k + n \in 0..(k + n) /\ k \in k..(k + n) /\ k + n \in k..(k + n)
    BY <1>9
  <2>3. SubSeq(log, 1, k) \in Seq(Entry) /\ SubSeq(log, 1, k + n) = log
    BY <1>8, <2>2, SubSeqFacts, SubSeqFull
  <2>4. CASE file' = [file EXCEPT !.log = SubSeq(log, 1, k)]
    <3>1. /\ file'.log = SubSeq(log, 1, k) /\ file'.base = file.base /\ file'.db = file.db
          /\ file' \in [base : Seq(Write), db : Db, log : Seq(Entry), torn : BOOLEAN]
      BY <2>1, <2>3, <2>4
    <3> QED BY <2>2, <3>1
  <2>5. CASE file' = [file EXCEPT !.log = log, !.torn = TRUE]
    <3>1. /\ file'.log = log /\ file'.base = file.base /\ file'.db = file.db
          /\ file' \in [base : Seq(Write), db : Db, log : Seq(Entry), torn : BOOLEAN]
      BY <1>8, <2>1, <2>5
    <3> QED BY <2>2, <2>3, <3>1
  <2> QED BY <1>5, <2>4, <2>5 DEF log, part
<1>12. /\ file'.log \in Seq(Entry) /\ Len(file'.log) = j
       /\ \A i \in 1..j : file'.log[i] = all[i]
  <2>1. j \in 0..Len(log) /\ \A i \in 1..j : i \in 1..(k + n) BY <1>8, <1>9
  <2>2. /\ SubSeq(log, 1, j) \in Seq(Entry) /\ Len(SubSeq(log, 1, j)) = j
        /\ \A i \in 1..j : SubSeq(log, 1, j)[i] = log[i]
    BY <1>8, <2>1, SubSeqFacts
  <2> QED BY <1>10, <1>11, <2>1, <2>2
<1>13. Matches(file.base, file.db, file'.log, data)
  <2>1. Matches(file.base, file.db, all, data) BY <1>1, WrittenMatches DEF all
  <2>2. j <= Len(all) BY <1>2, <1>6, <1>9
  <2> QED BY <1>2, <1>6, <1>12, <2>1, <2>2, MatchShorter
<1>14. /\ synced' = synced /\ size' = size /\ acked' = acked /\ Exit("down")
       /\ "down" \in {"down", "shutdown"}
  BY DEF FlushFails
<1>15. synced' \in 0..Len(file'.log)
  <2>1. synced \in 0..j BY <1>9
  <2> QED BY <1>12, <1>14, <2>1
<1>16. acked <= Len(file.base) + synced /\ acked <= Len(data)
       /\ (policy # "always" => acked = 0)
  BY <1>1 DEF IInv, Durable, NoAckedLost, Modes
<1> QED BY <1>2, <1>11, <1>13, <1>14, <1>15, <1>16, ExitInv

-----------------------------------------------------------------------------
(* The theorems *)

LEMMA InitInv == Init => IInv
<1> SUFFICES ASSUME Init PROVE IInv OBVIOUS
<1>1. NoProc \in [st : {"free", "running", "ok", "err"}, base : Seq(Write)]
  BY EmptySeq DEF NoProc
<1>2. <<>> \in Seq(Entry) /\ <<>> \in Seq(Write) /\ <<>> \in Seq(BOOLEAN)
      /\ Len(<<>>) = 0 /\ <<>> \o <<>> = <<>>
  BY EmptySeq, ConcatEmptySeq
<1>3. /\ file.base = <<>> /\ file.log = <<>> /\ file.torn = FALSE /\ file.db = FirstDb
      /\ file \in [base : Seq(Write), db : Db, log : Seq(Entry), torn : BOOLEAN]
  BY <1>2, AofConstants DEF Init, EmptyFile
<1>4. TypeOK
  <2>1. /\ data \in Seq(Write) /\ buf \in Seq(Entry) /\ rwbuf \in Seq(Entry)
        /\ fsyncs \in Seq(BOOLEAN)
    BY <1>2 DEF Init
  <2>2. procs \in [Pid -> [st : {"free", "running", "ok", "err"}, base : Seq(Write)]]
    BY <1>1 DEF Init
  <2>3. synced \in 0..Len(file.log) /\ size \in Nat /\ postponed \in 0..3 /\ acked \in Nat
    BY <1>2, <1>3 DEF Init
  <2> QED BY <1>3, <2>1, <2>2, <2>3 DEF Init, TypeOK
<1>5. Modes BY <1>3 DEF Init, Modes, Up
<1>6. StateMeansFile BY <1>2, <1>3 DEF Init, StateMeansFile, FileSize
<1>7. Matches(<<>>, FirstDb, <<>>, <<>>) BY <1>2 DEF Matches
<1>8. FileMatches /\ OnMatches
  BY <1>2, <1>3, <1>7 DEF Init, FileMatches, OnMatches
<1>9. ChildMatches /\ SwitchMatches BY DEF Init, ChildMatches, SwitchMatches
<1>10. Durable /\ NoAckedLost BY <1>2, <1>3 DEF Init, Durable, NoAckedLost
<1> QED BY <1>4, <1>5, <1>6, <1>8, <1>9, <1>10 DEF IInv

\* A step that changes nothing.
LEMMA StutterInv == IInv /\ UNCHANGED vars => IInv'
<1> SUFFICES ASSUME IInv, UNCHANGED vars PROVE IInv' OBVIOUS
<1>1. TypeOK' /\ Modes' /\ StateMeansFile'
  BY DEF IInv, TypeOK, Modes, Up, StateMeansFile, vars
<1>2. FileMatches' /\ OnMatches' /\ ChildMatches' /\ SwitchMatches' /\ Durable'
      /\ NoAckedLost'
  BY DEF IInv, FileMatches, OnMatches, ChildMatches, SwitchMatches, Durable,
         NoAckedLost, vars
<1> QED BY <1>1, <1>2 DEF IInv

LEMMA StepInv == IInv /\ [Next]_vars => IInv'
<1> SUFFICES ASSUME IInv, [Next]_vars PROVE IInv' OBVIOUS
<1>1. CASE UNCHANGED vars BY <1>1, StutterInv
<1>2. CASE \E d \in Db : WriteCommand(d) BY <1>2, WriteCommandInv
<1>3. CASE BeforeSleep \/ Poll \/ CronFlush \/ BioFsync \/ Tick
  BY <1>3, BeforeSleepInv, PollInv, CronFlushInv, BioFsyncInv, TickInv
<1>4. CASE \E p \in Policy : ConfigSetAppendfsync(p) BY <1>4, ConfigSetInv
<1>5. CASE \E p \in Pid : StartRewrite(p) \/ RdbSaveBackground(p) \/ ReapOther(p)
                            \/ StartAppendOnly(p) \/ ChildExits(p)
  BY <1>5, StartRewriteInv, RdbSaveBackgroundInv, ReapOtherInv, StartAppendOnlyInv,
     ChildExitsInv
<1>6. CASE ScheduleRewrite \/ RewriteFails \/ RewriteRename \/ RewriteSwitch
  BY <1>6, ScheduleRewriteInv, RewriteFailsInv, RewriteRenameInv, RewriteSwitchInv
<1>7. CASE StopAppendOnly \/ StartAppendOnlyFails
  BY <1>7, StopAppendOnlyInv, StartAppendOnlyFailsInv
<1>8. CASE Crash \/ FlushFails \/ Shutdown \/ ShutdownFails \/ CheckAofFix \/ Restart
  BY <1>8, CrashInv, FlushFailsInv, ShutdownInv, ShutdownFailsInv, CheckAofFixInv,
     RestartInv
<1> QED BY <1>1, <1>2, <1>3, <1>4, <1>5, <1>6, <1>7, <1>8 DEF Next

LEMMA Inductive == Spec => []IInv
BY InitInv, StepInv, PTL DEF Spec

\* Types.
THEOREM TypeCorrect == Spec => []TypeOK
<1>1. IInv => TypeOK BY DEF IInv
<1> QED BY <1>1, Inductive, PTL

\* Loading the file gives the dataset as it was at some moment, whatever was
\* rewritten, switched, postponed, cut short or lost in a crash before.
THEOREM FileIsPrefixHolds == Spec => []FileIsPrefix
<1>1. IInv => FileIsPrefix
  <2> SUFFICES ASSUME IInv PROVE FileIsPrefix OBVIOUS
  <2>1. Matches(file.base, file.db, file.log, data) BY DEF IInv, FileMatches
  <2>2. data \in Seq(Write) /\ TypeOK BY DEF IInv, TypeOK
  <2> QED BY <2>1, <2>2, Lengths, LoadedMatches DEF FileIsPrefix, LoadedFile
<1> QED BY <1>1, Inductive, PTL

\* While the file is on, the file and aof_buf have the whole dataset, and so
\* have the snapshot of a running rewrite and its differences.
THEOREM NothingMissingHolds == Spec => []NothingMissing
<1>1. IInv => NothingMissing
  <2> SUFFICES ASSUME IInv PROVE NothingMissing OBVIOUS
  <2>1. data \in Seq(Write) /\ TypeOK /\ rwbuf \in Seq(Entry) BY DEF IInv, TypeOK
  <2>2. ASSUME phase \in {"run", "poll"}, state = "ON"
        PROVE  Loaded(file.base, file.db, file.log \o buf) = data
    <3> DEFINE log == file.log \o buf
    <3>1. Matches(file.base, file.db, log, data) /\ Len(file.base) + Len(log) = Len(data)
      BY <2>2 DEF IInv, OnMatches
    <3>2. log \in Seq(Entry) /\ file.base \in Seq(Write) /\ file.db \in Db
      BY <2>1, WrittenFacts, Lengths
    <3> HIDE DEF log
    <3>3. Loaded(file.base, file.db, log) = data BY <2>1, <3>1, <3>2, LoadedMatches
    <3> QED BY <3>3 DEF log
  <2>3. ASSUME phase \in {"run", "poll"}, state # "OFF", aofchild # None,
               procs[aofchild].st # "err", NEW d \in Db
        PROVE  Loaded(procs[aofchild].base, d, rwbuf) = data
    <3> DEFINE base == procs[aofchild].base
    <3>1. Matches(base, d, rwbuf, data) /\ Len(base) + Len(rwbuf) = Len(data)
      BY <2>3 DEF IInv, ChildMatches
    <3>2. base \in Seq(Write) BY <2>1, <2>3 DEF TypeOK
    <3> HIDE DEF base
    <3>3. Loaded(base, d, rwbuf) = data BY <2>1, <3>1, <3>2, LoadedMatches
    <3> QED BY <3>3 DEF base
  <2> QED BY <2>2, <2>3 DEF NothingMissing
<1> QED BY <1>1, Inductive, PTL

\* aof_state says what is the case: ON, the descriptor is open and
\* aof_current_size is the size of the file; WAIT_REWRITE, a rewrite runs or is
\* scheduled.
THEOREM StateMeansFileHolds == Spec => []StateMeansFile
<1>1. IInv => StateMeansFile BY DEF IInv
<1> QED BY <1>1, Inductive, PTL

\* With appendfsync always, no write whose reply may have been sent is lost, but
\* for a crash between the rename and the fsync of a rewritten file.
THEOREM NoAckedLostHolds == Spec => []NoAckedLost
<1>1. IInv => NoAckedLost BY DEF IInv
<1> QED BY <1>1, Inductive, PTL
=============================================================================
