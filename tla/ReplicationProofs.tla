------------------------- MODULE ReplicationProofs --------------------------
(***************************************************************************)
(* Proofs about Replication for any servers, connections and scenarios.    *)
(***************************************************************************)
EXTENDS Replication, SequenceTheorems, WellFoundedInduction, TLAPS

Datum == Nat \X Nat
Item == [op : {"select", "write"}, arg : Nat]

Connection ==
    [slave : Node \cup {None}, master : Node \cup {None},
     st : {"free", "new", "asked", "refused", "start", "end", "bulk", "online",
           "closed"},
     seldb : Nat, buf : Seq(Item), bulk : Seq(Datum) \cup {None},
     mopen : BOOLEAN, sopen : BOOLEAN, late : BOOLEAN]

BoundsLeft ==
    [db : SUBSET Nat, writes : Nat, saves : Nat, faults : Nat, roles : Nat,
     forks : SUBSET {"sync", "next"}]

TypeOK ==
    /\ data \in [Node -> Seq(Datum)]
    /\ host \in [Node -> Node \cup {None}]
    /\ rs \in [Node -> States]
    /\ cur \in [Node -> Conn \cup {None}]
    /\ mdb \in [Node -> Nat]
    /\ child \in [Node -> Seq(Datum) \cup {None}]
    /\ conn \in [Conn -> Connection]
    /\ left \in BoundsLeft

\* A server with a master, and no other, is on its way to it.
Roles == \A s \in Node : rs[s] = "none" <=> host[s] = None

\* A slave that is busy holds its own connection and no other slave does;
\* every connection that is open at the slave's end is held.
Owned ==
    /\ \A s \in Node :
         IF Busy(s) THEN /\ cur[s] \in Conn /\ conn[cur[s]].sopen
                         /\ conn[cur[s]].slave = s
                    ELSE cur[s] = None
    /\ \A c \in Conn : conn[c].sopen =>
         conn[c].slave \in Node /\ cur[conn[c].slave] = c

\* A slave that is told the file is complete has a file to load.
FileHere ==
    \A s \in Node : rs[s] = "transfer" /\ conn[cur[s]].st \in {"bulk", "online"}
                      => conn[cur[s]].bulk # None

\* An open client belongs to a server.
MastersKnown == \A c \in Conn : conn[c].mopen => conn[c].master \in Node

\* Who waits for a child, and is not late, waits for one of its own master.
Waiting(cn, ch) ==
    \A c \in Conn : cn[c].mopen /\ cn[c].st \in {"start", "end"} /\ ~cn[c].late
                       => ch[cn[c].master] # None

IInv ==
    /\ TypeOK /\ Roles /\ Owned /\ FileHere /\ MastersKnown
    /\ Waiting(conn, child)

-----------------------------------------------------------------------------
(* What a step does to one connection *)

\* From x to y the slave's end is the same, and the master's end is only
\* closed; a file that is announced is there.
Kept(x, y) ==
    /\ y.sopen = x.sopen
    /\ x.sopen => y.slave = x.slave
    /\ y.mopen => x.mopen /\ y.master = x.master
    /\ x.sopen /\ y.st \in {"bulk", "online"} =>
         y.bulk # None \/ (x.st \in {"bulk", "online"} /\ y.bulk = x.bulk)

\* It waits for a child in y only if it did in x.
NoNewWait(x, y) ==
    y.mopen /\ y.st \in {"start", "end"} =>
        /\ x.mopen /\ x.st \in {"start", "end"} /\ y.master = x.master
        /\ y.late = x.late

LEMMA FreeType == Free \in Connection /\ ~Free.sopen /\ ~Free.mopen
BY DEF Free, Connection

LEMMA CloseMasterKeeps ==
    ASSUME NEW cn \in [Conn -> Connection], NEW C
    PROVE  /\ CloseMaster(cn, C) \in [Conn -> Connection]
           /\ \A c \in Conn : /\ Kept(cn[c], CloseMaster(cn, C)[c])
                              /\ NoNewWait(cn[c], CloseMaster(cn, C)[c])
<1> DEFINE y(c) == IF c \notin C THEN cn[c]
                   ELSE IF ~cn[c].sopen THEN Free
                   ELSE [cn[c] EXCEPT !.mopen = FALSE,
                            !.st = IF @ = "online" THEN @ ELSE "closed"]
<1>1. CloseMaster(cn, C) = [c \in Conn |-> y(c)] BY DEF CloseMaster
<1>2. ASSUME NEW c \in Conn
      PROVE  y(c) \in Connection /\ Kept(cn[c], y(c)) /\ NoNewWait(cn[c], y(c))
  <2>0. cn[c] \in Connection OBVIOUS
  <2>1. CASE c \notin C BY <2>0, <2>1 DEF Kept, NoNewWait
  <2>2. CASE c \in C /\ ~cn[c].sopen
    <3>1. y(c) = Free /\ cn[c].sopen = FALSE BY <2>0, <2>2 DEF Connection
    <3>2. Free.sopen = FALSE BY DEF Free
    <3> HIDE DEF y
    <3> QED BY <3>1, <3>2, FreeType DEF Kept, NoNewWait
  <2>3. CASE c \in C /\ cn[c].sopen
    <3> DEFINE z == [cn[c] EXCEPT !.mopen = FALSE,
                            !.st = IF @ = "online" THEN @ ELSE "closed"]
    <3>1. z \in Connection BY <2>0 DEF Connection
    <3>2. /\ z.sopen = cn[c].sopen /\ z.slave = cn[c].slave /\ z.mopen = FALSE
          /\ z.bulk = cn[c].bulk /\ (z.st = "online" \/ z.st = "closed")
          /\ (z.st = "online" => cn[c].st = "online")
      BY <2>0 DEF Connection
    <3>3. y(c) = z BY <2>3
    <3> HIDE DEF z, y
    <3> QED BY <3>1, <3>2, <3>3 DEF Kept, NoNewWait
  <2> QED BY <2>1, <2>2, <2>3
<1> HIDE DEF y
<1> QED BY <1>1, <1>2

\* The slave of connection k closes its end.
LEMMA CloseSlaveKeeps ==
    ASSUME NEW cn \in [Conn -> Connection], NEW k \in Conn
    PROVE  /\ CloseSlave(cn, k) \in [Conn -> Connection]
           /\ \A c \in Conn : NoNewWait(cn[c], CloseSlave(cn, k)[c])
           /\ \A c \in Conn \ {k} : CloseSlave(cn, k)[c] = cn[c]
           /\ ~CloseSlave(cn, k)[k].sopen
           /\ CloseSlave(cn, k)[k].mopen => /\ cn[k].mopen
                                /\ CloseSlave(cn, k)[k].master = cn[k].master
<1> DEFINE x == cn[k]
           z == IF x.mopen THEN [x EXCEPT !.sopen = FALSE] ELSE Free
<1>1. k # None BY ReplicationConstants
<1>2. CloseSlave(cn, k) = [cn EXCEPT ![k] = z] BY <1>1 DEF CloseSlave
<1>3. x \in Connection OBVIOUS
<1> HIDE DEF x
<1>4. z \in Connection /\ ~z.sopen /\ NoNewWait(x, z)
      /\ (z.mopen => x.mopen /\ z.master = x.master)
  <2>1. CASE x.mopen
    <3>1. z = [x EXCEPT !.sopen = FALSE] BY <2>1
    <3>2. z \in Connection BY <1>3, <3>1 DEF Connection
    <3>3. /\ ~z.sopen /\ z.mopen = x.mopen /\ z.st = x.st /\ z.master = x.master
          /\ z.late = x.late
      BY <1>3, <3>1 DEF Connection
    <3> QED BY <3>2, <3>3 DEF NoNewWait
  <2>2. CASE ~x.mopen BY <2>2, FreeType DEF NoNewWait
  <2> QED BY <2>1, <2>2
<1> HIDE DEF z
<1>5. \A c \in Conn : NoNewWait(cn[c], [cn EXCEPT ![k] = z][c])
  BY <1>4 DEF NoNewWait, x
<1> QED BY <1>2, <1>4, <1>5 DEF x

\* A command is added to the buffers of the slaves that are fed.
LEMMA FeedKeeps ==
    ASSUME NEW cn \in [Conn -> Connection], NEW n, NEW d \in Nat, NEW w \in Nat
    PROVE  /\ replicationFeedSlaves(cn, n, d, w) \in [Conn -> Connection]
           /\ \A c \in Conn :
                /\ Kept(cn[c], replicationFeedSlaves(cn, n, d, w)[c])
                /\ NoNewWait(cn[c], replicationFeedSlaves(cn, n, d, w)[c])
<1> DEFINE fed(c) == c \in Slaves(cn, n) /\ cn[c].st \in Sent
           more(c) == cn[c].buf \o (IF cn[c].seldb # d THEN <<Select(d)>> ELSE <<>>)
                         \o <<Command(w)>>
           z(c) == [cn[c] EXCEPT !.buf = more(c), !.seldb = d]
           y(c) == IF fed(c) THEN z(c) ELSE cn[c]
<1>1. replicationFeedSlaves(cn, n, d, w) = [c \in Conn |-> y(c)]
  BY DEF replicationFeedSlaves
<1>2. ASSUME NEW c \in Conn
      PROVE  y(c) \in Connection /\ Kept(cn[c], y(c)) /\ NoNewWait(cn[c], y(c))
  <2>1. cn[c] \in Connection /\ cn[c].buf \in Seq(Item) BY DEF Connection
  <2>2. more(c) \in Seq(Item)
    <3>1. Select(d) \in Item /\ Command(w) \in Item BY DEF Select, Command, Item
    <3>2. <<Select(d)>> \in Seq(Item) /\ <<Command(w)>> \in Seq(Item)
          /\ <<>> \in Seq(Item)
      BY <3>1
    <3>3. (IF cn[c].seldb # d THEN <<Select(d)>> ELSE <<>>) \in Seq(Item)
      BY <3>2
    <3> QED BY <2>1, <3>2, <3>3, ConcatProperties
  <2> HIDE DEF more, fed
  <2>3. z(c) \in Connection BY <2>1, <2>2 DEF Connection
  <2>4. /\ z(c).sopen = cn[c].sopen /\ z(c).slave = cn[c].slave
        /\ z(c).mopen = cn[c].mopen /\ z(c).master = cn[c].master
        /\ z(c).st = cn[c].st /\ z(c).bulk = cn[c].bulk /\ z(c).late = cn[c].late
    BY <2>1 DEF Connection
  <2> HIDE DEF z
  <2>5. Kept(cn[c], z(c)) /\ NoNewWait(cn[c], z(c)) BY <2>4 DEF Kept, NoNewWait
  <2>6. Kept(cn[c], cn[c]) /\ NoNewWait(cn[c], cn[c]) BY DEF Kept, NoNewWait
  <2> QED BY <2>1, <2>3, <2>5, <2>6
<1> HIDE DEF y
<1> QED BY <1>1, <1>2

-----------------------------------------------------------------------------
(* Invariants that follow from what happens to each connection *)

\* A step after which every slave holds the connection it held.
LEMMA LinksKept ==
    ASSUME IInv, conn' \in [Conn -> Connection],
           \A c \in Conn : Kept(conn[c], conn'[c]), UNCHANGED <<host, rs, cur>>
    PROVE  Roles' /\ Owned' /\ FileHere' /\ MastersKnown'
<1>1. TypeOK /\ Roles /\ Owned /\ FileHere /\ MastersKnown BY DEF IInv
<1>2. host' = host /\ rs' = rs /\ cur' = cur OBVIOUS
<1>3. Roles' BY <1>1, <1>2 DEF Roles
<1>4. MastersKnown' BY <1>1 DEF MastersKnown, Kept
<1>5. ASSUME NEW s \in Node
      PROVE  IF Busy(s)' THEN /\ cur'[s] \in Conn /\ conn'[cur'[s]].sopen
                              /\ conn'[cur'[s]].slave = s
                         ELSE cur'[s] = None
  <2>1. Busy(s)' = Busy(s) BY <1>2 DEF Busy
  <2> QED BY <1>1, <1>2, <2>1 DEF Owned, Kept
<1>6. \A c \in Conn : conn'[c].sopen =>
         conn'[c].slave \in Node /\ cur'[conn'[c].slave] = c
  BY <1>1, <1>2 DEF Owned, Kept
<1>7. Owned' BY <1>5, <1>6 DEF Owned
<1>8. ASSUME NEW s \in Node, rs'[s] = "transfer",
             conn'[cur'[s]].st \in {"bulk", "online"}
      PROVE  conn'[cur'[s]].bulk # None
  <2>1. Busy(s) BY <1>2, <1>8 DEF Busy
  <2>2. cur[s] \in Conn /\ conn[cur[s]].sopen BY <1>1, <2>1 DEF Owned
  <2> QED BY <1>1, <1>2, <1>8, <2>2 DEF FileHere, Kept
<1>9. FileHere' BY <1>8 DEF FileHere
<1> QED BY <1>3, <1>4, <1>7, <1>9

\* A step by which only slave s leaves its connection, if it has one.
LEMMA LinkLeft ==
    ASSUME IInv, conn' \in [Conn -> Connection], NEW s \in Node,
           \A c \in Conn : c # cur[s] => Kept(conn[c], conn'[c]),
           cur[s] \in Conn => /\ ~conn'[cur[s]].sopen
                              /\ conn'[cur[s]].mopen => conn'[cur[s]].master \in Node,
           cur' = [cur EXCEPT ![s] = None],
           host' \in [Node -> Node \cup {None}],
           \A n \in Node \ {s} : host'[n] = host[n],
           rs' = [rs EXCEPT ![s] = IF host'[s] = None THEN "none" ELSE "connect"]
    PROVE  Roles' /\ Owned' /\ FileHere' /\ MastersKnown'
<1>1. TypeOK /\ Roles /\ Owned /\ FileHere /\ MastersKnown BY DEF IInv
<1>2. rs \in [Node -> States] /\ cur \in [Node -> Conn \cup {None}]
  BY <1>1 DEF TypeOK
<1>3. rs'[s] \in {"none", "connect"} /\ cur'[s] = None
      /\ \A n \in Node \ {s} : rs'[n] = rs[n] /\ cur'[n] = cur[n]
  BY <1>2
<1>4. Roles' BY <1>1, <1>2, <1>3 DEF Roles
<1>5. MastersKnown'
  BY <1>1 DEF MastersKnown, Kept
<1>6. ASSUME NEW n \in Node \ {s}, Busy(n)
      PROVE  /\ cur[n] \in Conn /\ conn[cur[n]].sopen /\ conn[cur[n]].slave = n
             /\ cur[n] # cur[s]
  <2>1. cur[n] \in Conn /\ conn[cur[n]].sopen /\ conn[cur[n]].slave = n
    BY <1>1, <1>6 DEF Owned
  <2>2. cur[s] \in Conn => Busy(s) BY <1>1, ReplicationConstants DEF Owned
  <2>3. cur[s] \in Conn => conn[cur[s]].slave = s BY <1>1, <2>2 DEF Owned
  <2> QED BY <2>1, <2>3
<1>7. ASSUME NEW n \in Node
      PROVE  IF Busy(n)' THEN /\ cur'[n] \in Conn /\ conn'[cur'[n]].sopen
                              /\ conn'[cur'[n]].slave = n
                         ELSE cur'[n] = None
  <2>1. CASE n = s BY <1>3, <2>1 DEF Busy
  <2>2. CASE n # s
    <3>1. Busy(n)' = Busy(n) BY <1>3, <2>2 DEF Busy
    <3>2. CASE Busy(n) BY <1>3, <1>6, <2>2, <3>1, <3>2 DEF Kept
    <3>3. CASE ~Busy(n) BY <1>1, <1>3, <2>2, <3>1, <3>3 DEF Owned
    <3> QED BY <3>2, <3>3
  <2> QED BY <2>1, <2>2
<1>8. ASSUME NEW c \in Conn, conn'[c].sopen
      PROVE  conn'[c].slave \in Node /\ cur'[conn'[c].slave] = c
  <2>1. c # cur[s] BY <1>8
  <2>2. conn[c].sopen /\ conn'[c].slave = conn[c].slave BY <1>8, <2>1 DEF Kept
  <2>3. conn[c].slave \in Node /\ cur[conn[c].slave] = c BY <1>1, <2>2 DEF Owned
  <2> QED BY <1>3, <2>1, <2>2, <2>3
<1>9. Owned' BY <1>7, <1>8 DEF Owned
<1>10. ASSUME NEW n \in Node, rs'[n] = "transfer",
             conn'[cur'[n]].st \in {"bulk", "online"}
      PROVE  conn'[cur'[n]].bulk # None
  <2>1. n # s BY <1>3, <1>10
  <2>2. rs[n] = "transfer" /\ Busy(n) /\ cur'[n] = cur[n]
    BY <1>3, <1>10, <2>1 DEF Busy
  <2>3. cur[n] \in Conn /\ conn[cur[n]].sopen /\ Kept(conn[cur[n]], conn'[cur[n]])
    BY <1>6, <2>1, <2>2
  <2> QED BY <1>1, <1>10, <2>2, <2>3 DEF FileHere, Kept
<1>11. FileHere' BY <1>10 DEF FileHere
<1> QED BY <1>4, <1>5, <1>9, <1>11

\* A step after which nobody waits who did not, and no child is gone.
LEMMA WaitersKept ==
    ASSUME NEW cn, NEW ch, NEW dn, NEW dh, Waiting(cn, ch),
           \A c \in Conn : NoNewWait(cn[c], dn[c]),
           \A c \in Conn : cn[c].mopen => cn[c].master \in Node,
           \A n \in Node : ch[n] # None => dh[n] # None
    PROVE  Waiting(dn, dh)
BY DEF Waiting, NoNewWait

-----------------------------------------------------------------------------
(* The actions *)

LEMMA Types ==
    ASSUME IInv
    PROVE  /\ data \in [Node -> Seq(Datum)] /\ host \in [Node -> Node \cup {None}]
           /\ rs \in [Node -> States] /\ cur \in [Node -> Conn \cup {None}]
           /\ mdb \in [Node -> Nat] /\ child \in [Node -> Seq(Datum) \cup {None}]
           /\ conn \in [Conn -> Connection]
           /\ left \in BoundsLeft
           /\ \A n \in Node : data[n] # None
<1>1. TypeOK BY DEF IInv
<1>2. \A n \in Node : data[n] # None
  BY <1>1, ReplicationConstants DEF TypeOK, Datum
<1> QED BY <1>1, <1>2 DEF TypeOK

\* One of what is left is used.
LEMMA OneLess ==
    ASSUME NEW l \in BoundsLeft
    PROVE  /\ l.writes > 0 => /\ [l EXCEPT !.writes = @ - 1] \in BoundsLeft
                              /\ [l EXCEPT !.writes = @ - 1].forks = l.forks
           /\ l.saves > 0 => /\ [l EXCEPT !.saves = @ - 1] \in BoundsLeft
                             /\ [l EXCEPT !.saves = @ - 1].forks = l.forks
           /\ l.faults > 0 => /\ [l EXCEPT !.faults = @ - 1] \in BoundsLeft
                              /\ [l EXCEPT !.faults = @ - 1].forks = l.forks
           /\ l.roles > 0 => /\ [l EXCEPT !.roles = @ - 1] \in BoundsLeft
                             /\ [l EXCEPT !.roles = @ - 1].forks = l.forks
BY DEF BoundsLeft

\* A fault is one less to come, and the forks that may fail are the same.
LEMMA FaultLeft ==
    ASSUME IInv, Fault \/ UNCHANGED left
    PROVE  /\ left' \in BoundsLeft
           /\ left'.forks = left.forks
<1>1. left \in BoundsLeft
  BY Types
<1>2. CASE UNCHANGED left BY <1>1, <1>2
<1>3. CASE Fault BY <1>1, <1>3, OneLess DEF Fault
<1> QED BY <1>2, <1>3

\* Steps that change nothing but buffers, children and the master's ends.
LEMMA KeepInv ==
    ASSUME IInv, conn' \in [Conn -> Connection],
           \A c \in Conn : Kept(conn[c], conn'[c]), UNCHANGED <<host, rs, cur>>,
           data' \in [Node -> Seq(Datum)], mdb' \in [Node -> Nat],
           child' \in [Node -> Seq(Datum) \cup {None}],
           left' \in BoundsLeft,
           left'.forks = left.forks,
           Waiting(conn', child')
    PROVE  IInv'
<1>1. Roles' /\ Owned' /\ FileHere' /\ MastersKnown' BY LinksKept
<1>2. TypeOK' BY DEF IInv, TypeOK
<1> QED BY <1>1, <1>2 DEF IInv

LEMMA WriteInv ==
    ASSUME IInv, NEW n \in Node, NEW d \in left.db, Write(n, d)
    PROVE  IInv'
<1> DEFINE w == left.writes
<1>1. d \in Nat /\ w \in Nat BY Types DEF BoundsLeft
<1>2. /\ data' = [data EXCEPT ![n] = Append(@, <<w, d>>)]
      /\ conn' = replicationFeedSlaves(conn, n, d, w)
      /\ left' = [left EXCEPT !.writes = @ - 1] /\ w > 0
      /\ UNCHANGED <<host, rs, cur, mdb, child>>
  BY DEF Write
<1>3. left' \in BoundsLeft
      /\ left'.forks = left.forks
  BY <1>2, Types, OneLess
<1>4. data' \in [Node -> Seq(Datum)]
  <2>1. <<w, d>> \in Datum BY <1>1 DEF Datum
  <2> HIDE DEF w
  <2>2. Append(data[n], <<w, d>>) \in Seq(Datum) BY <2>1, Types, AppendProperties
  <2> QED BY <1>2, <2>2, Types
<1> HIDE DEF w
<1>5. conn' \in [Conn -> Connection] /\ (\A c \in Conn : Kept(conn[c], conn'[c]))
      /\ \A c \in Conn : NoNewWait(conn[c], conn'[c])
  BY <1>1, <1>2, Types, FeedKeeps
<1>6. Waiting(conn', child')
  BY <1>2, <1>5, WaitersKept DEF IInv, MastersKnown
<1> QED BY <1>2, <1>3, <1>4, <1>5, <1>6, Types, KeepInv

LEMMA BgSaveInv ==
    ASSUME IInv, NEW n \in Node, BgSave(n)
    PROVE  IInv'
<1>1. /\ child' = [child EXCEPT ![n] = data[n]]
      /\ left' = [left EXCEPT !.saves = @ - 1] /\ left.saves > 0
      /\ UNCHANGED <<data, host, rs, cur, mdb, conn>>
  BY DEF BgSave
<1>2. left' \in BoundsLeft
      /\ left'.forks = left.forks
  BY <1>1, Types, OneLess
<1>3. child' \in [Node -> Seq(Datum) \cup {None}]
      /\ \A m \in Node : child[m] # None => child'[m] # None
  BY <1>1, Types
<1>4. conn' = conn /\ (\A c \in Conn : Kept(conn[c], conn[c]))
      /\ \A c \in Conn : NoNewWait(conn[c], conn[c])
  BY <1>1 DEF Kept, NoNewWait
<1>5. Waiting(conn', child')
  BY <1>3, <1>4, WaitersKept DEF IInv, MastersKnown
<1> QED BY <1>1, <1>2, <1>3, <1>4, <1>5, Types, KeepInv

\* What the end of a child of n does to a connection.
LEMMA AfterSaveKeeps ==
    ASSUME NEW cn \in [Conn -> Connection], NEW c \in Conn, NEW n \in Node,
           NEW snapshot \in Seq(Datum), NEW ok \in BOOLEAN, NEW fork \in BOOLEAN
    PROVE  LET y == SlaveAfterSave(c, n, snapshot, ok, fork, cn)
           IN  /\ y \in Connection /\ Kept(cn[c], y)
               /\ y.mopen /\ y.st = "start" =>
                    cn[c].st = "start" /\ y.master # n /\ y.late = cn[c].late
               /\ y.mopen /\ y.st = "end" =>
                    \/ cn[c].st = "start" /\ c \in Slaves(cn, n) /\ y.late = ~fork
                    \/ cn[c].st = "end" /\ y.master # n /\ y.late = cn[c].late
<1> DEFINE x == cn[c]
           y == SlaveAfterSave(c, n, snapshot, ok, fork, cn)
<1>1. x \in Connection /\ snapshot # None
  BY ReplicationConstants DEF Datum
<1>2. CASE c \notin Slaves(cn, n)
  <2>1. y = x BY <1>2 DEF SlaveAfterSave
  <2>2. x.mopen /\ x.st \in {"start", "end"} => x.master # n
    BY <1>2 DEF Slaves
  <2> HIDE DEF x, y
  <2> QED BY <1>1, <2>1, <2>2 DEF Kept, x, y
<1>3. CASE c \in Slaves(cn, n) /\ x.st = "start"
  <2>1. y = [x EXCEPT !.st = "end", !.late = ~fork] BY <1>3 DEF SlaveAfterSave
  <2>2. y \in Connection BY <1>1, <2>1 DEF Connection
  <2>3. /\ y.st = "end" /\ y.sopen = x.sopen /\ y.slave = x.slave
        /\ y.mopen = x.mopen /\ y.master = x.master /\ y.late = ~fork
    BY <1>1, <2>1 DEF Connection
  <2> HIDE DEF x, y
  <2>4. Kept(x, y) BY <2>3 DEF Kept
  <2> QED BY <1>3, <2>2, <2>3, <2>4 DEF x, y
<1>4. CASE c \in Slaves(cn, n) /\ x.st = "end" /\ ok
  <2>1. y = [x EXCEPT !.st = "bulk", !.bulk = snapshot]
    BY <1>4 DEF SlaveAfterSave
  <2>2. y \in Connection BY <1>1, <2>1 DEF Connection
  <2>3. /\ y.st = "bulk" /\ y.sopen = x.sopen /\ y.slave = x.slave
        /\ y.mopen = x.mopen /\ y.master = x.master /\ y.bulk = snapshot
    BY <1>1, <2>1 DEF Connection
  <2> HIDE DEF x, y
  <2>4. Kept(x, y) BY <1>1, <2>3 DEF Kept
  <2> QED BY <2>2, <2>3, <2>4 DEF x, y
<1>5. CASE c \in Slaves(cn, n) /\ x.st = "end" /\ ~ok
  <2>1. y = CloseMaster(cn, {c})[c] BY <1>5 DEF SlaveAfterSave
  <2>2. y \in Connection /\ Kept(x, y) BY <2>1, CloseMasterKeeps
  <2>3. ~y.mopen
    BY <1>1, <2>1 DEF CloseMaster, Free, Connection
  <2> HIDE DEF x, y
  <2> QED BY <2>2, <2>3 DEF x, y
<1>6. CASE c \in Slaves(cn, n) /\ x.st \notin {"start", "end"}
  <2>1. y = x BY <1>6 DEF SlaveAfterSave
  <2> HIDE DEF x, y
  <2> QED BY <1>1, <1>6, <2>1 DEF Kept, x, y
<1> QED BY <1>2, <1>3, <1>4, <1>5, <1>6

\* backgroundSaveDoneHandler: the child that ends has no waiters left, unless
\* another one is forked for them or they are late.
LEMMA BgSaveDoneInv ==
    ASSUME IInv, NEW n \in Node, NEW ok \in BOOLEAN, BgSaveDone(n, ok)
    PROVE  IInv'
<1>1. PICK fork \in BOOLEAN :
        updateSlavesWaitingBgsave(n, ok, fork) /\ (Fault \/ UNCHANGED left)
  BY DEF BgSaveDone, ForkFails
<1> DEFINE starts == \E c \in Slaves(conn, n) : conn[c].st = "start"
           after == [c \in Conn |-> SlaveAfterSave(c, n, child[n], ok, fork, conn)]
           waiting == {c \in Slaves(after, n) : after[c].st = "start"}
<1>2. /\ child' = [child EXCEPT ![n] = IF starts /\ fork THEN data[n] ELSE None]
      /\ conn' = IF starts /\ ~fork THEN CloseMaster(after, waiting) ELSE after
  BY <1>1 DEF updateSlavesWaitingBgsave
<1>3. child[n] \in Seq(Datum) BY Types DEF BgSaveDone
<1>4. \A c \in Conn :
        /\ after[c] \in Connection /\ Kept(conn[c], after[c])
        /\ after[c].mopen /\ after[c].st = "start" =>
             conn[c].st = "start" /\ after[c].master # n /\ after[c].late = conn[c].late
        /\ after[c].mopen /\ after[c].st = "end" =>
             \/ conn[c].st = "start" /\ c \in Slaves(conn, n) /\ after[c].late = ~fork
             \/ conn[c].st = "end" /\ after[c].master # n /\ after[c].late = conn[c].late
  <2>1. conn \in [Conn -> Connection] BY Types
  <2> TAKE c \in Conn
  <2> DEFINE y == SlaveAfterSave(c, n, child[n], ok, fork, conn)
  <2>2. after[c] = y OBVIOUS
  <2>3. LET z == SlaveAfterSave(c, n, child[n], ok, fork, conn)
        IN  /\ z \in Connection /\ Kept(conn[c], z)
            /\ z.mopen /\ z.st = "start" =>
                 conn[c].st = "start" /\ z.master # n /\ z.late = conn[c].late
            /\ z.mopen /\ z.st = "end" =>
                 \/ conn[c].st = "start" /\ c \in Slaves(conn, n) /\ z.late = ~fork
                 \/ conn[c].st = "end" /\ z.master # n /\ z.late = conn[c].late
    BY <1>3, <2>1, AfterSaveKeeps
  <2> HIDE DEF after
  <2> QED BY <2>2, <2>3
<1>5. after \in [Conn -> Connection] BY <1>4
<1> HIDE DEF after, waiting
<1>6. conn' \in [Conn -> Connection] /\ \A c \in Conn : Kept(conn[c], conn'[c])
  <2>1. CASE starts /\ ~fork
    <3>1. conn' = CloseMaster(after, waiting) BY <1>2, <2>1
    <3>2. conn' \in [Conn -> Connection] /\ \A c \in Conn : Kept(after[c], conn'[c])
      BY <1>5, <3>1, CloseMasterKeeps
    <3>3. \A c \in Conn : Kept(conn[c], conn'[c]) BY <1>4, <3>2 DEF Kept
    <3> QED BY <3>2, <3>3
  <2>2. CASE ~(starts /\ ~fork) BY <1>2, <1>4, <1>5, <2>2
  <2> QED BY <2>1, <2>2
<1>7. child' \in [Node -> Seq(Datum) \cup {None}] BY <1>2, Types
<1>8. Waiting(conn', child')
  <2>1. \A c \in Conn : NoNewWait(after[c], conn'[c])
    BY <1>2, <1>5, CloseMasterKeeps DEF NoNewWait
  <2> SUFFICES ASSUME NEW c \in Conn, conn'[c].mopen, ~conn'[c].late,
                      conn'[c].st \in {"start", "end"}
               PROVE  child'[conn'[c].master] # None
    BY DEF Waiting
  <2>2. /\ after[c].mopen /\ after[c].st \in {"start", "end"} /\ ~after[c].late
        /\ conn'[c].master = after[c].master
    BY <2>1 DEF NoNewWait
  <2>3. conn[c].mopen /\ after[c].master = conn[c].master /\ conn[c].master \in Node
    BY <1>4, <2>2 DEF Kept, IInv, MastersKnown
  <2>4. CASE after[c].st = "start" \/ conn[c].st = "end"
    <3>1. after[c].master # n BY <1>4, <2>2, <2>4
    <3>2. conn[c].st \in {"start", "end"} /\ ~conn[c].late BY <1>4, <2>2, <2>4
    <3>3. child[conn[c].master] # None BY <2>3, <3>2 DEF IInv, Waiting
    <3> QED BY <1>2, <2>2, <2>3, <3>1, <3>3, Types
  <2>5. CASE after[c].st = "end" /\ conn[c].st = "start"
    <3>1. fork /\ c \in Slaves(conn, n) BY <1>4, <2>2, <2>5
    <3>2. starts /\ after[c].master = n BY <2>3, <2>5, <3>1 DEF Slaves
    <3>3. child'[n] = data[n] BY <1>2, <3>1, <3>2, Types
    <3> QED BY <2>2, <3>2, <3>3, Types
  <2> QED BY <1>4, <2>2, <2>4, <2>5
<1>9. left' \in BoundsLeft /\ left'.forks = left.forks BY <1>1, FaultLeft
<1> QED BY <1>6, <1>7, <1>8, <1>9, Types, KeepInv DEF BgSaveDone

LEMMA SendBulkInv ==
    ASSUME IInv, NEW k \in Conn, SendBulk(k)
    PROVE  IInv'
<1> DEFINE x == conn[k]
           z == [x EXCEPT !.st = "online"]
<1>1. x.st = "bulk" /\ conn' = [conn EXCEPT ![k] = z]
      /\ UNCHANGED <<data, host, rs, cur, mdb, child, left>>
  BY DEF SendBulk
<1>2. x \in Connection BY Types
<1> HIDE DEF x
<1>3. z \in Connection BY <1>2 DEF Connection
<1>4. /\ z.st = "online" /\ z.sopen = x.sopen /\ z.slave = x.slave
      /\ z.mopen = x.mopen /\ z.master = x.master /\ z.bulk = x.bulk
  BY <1>2 DEF Connection
<1> HIDE DEF z
<1>5. Kept(x, z) /\ NoNewWait(x, z) BY <1>1, <1>4 DEF Kept, NoNewWait
<1>6. conn' \in [Conn -> Connection] /\ (\A c \in Conn : Kept(conn[c], conn'[c]))
      /\ \A c \in Conn : NoNewWait(conn[c], conn'[c])
  <2>1. \A c \in Conn : Kept(conn[c], conn[c]) /\ NoNewWait(conn[c], conn[c])
    BY DEF Kept, NoNewWait
  <2> QED BY <1>1, <1>3, <1>5, <2>1, Types DEF x
<1>7. Waiting(conn', child')
  BY <1>1, <1>6, WaitersKept DEF IInv, MastersKnown
<1> QED BY <1>1, <1>6, <1>7, Types, KeepInv

\* The master's end of k gets a state and a buffer.
LEMMA ListedKeeps ==
    ASSUME IInv, NEW k \in Conn, NEW st \in {"start", "end"}, NEW buf \in Seq(Item),
           NEW late \in BOOLEAN
    PROVE  /\ Listed(k, st, buf, late) \in [Conn -> Connection]
           /\ \A c \in Conn : Kept(conn[c], Listed(k, st, buf, late)[c])
           /\ \A c \in Conn \ {k} : Listed(k, st, buf, late)[c] = conn[c]
           /\ Listed(k, st, buf, late)[k].master = conn[k].master
<1> DEFINE x == conn[k]
           z == [x EXCEPT !.st = st, !.buf = buf, !.seldb = 0, !.late = late]
<1>1. Listed(k, st, buf, late) = [conn EXCEPT ![k] = z] BY Types DEF Listed
<1>2. x \in Connection BY Types
<1> HIDE DEF x
<1>3. z \in Connection BY <1>2 DEF Connection
<1>4. /\ z.st = st /\ z.sopen = x.sopen /\ z.slave = x.slave
      /\ z.mopen = x.mopen /\ z.master = x.master
  BY <1>2 DEF Connection
<1> HIDE DEF z
<1>5. Kept(x, z) BY <1>4 DEF Kept
<1>6. \A c \in Conn : Kept(conn[c], conn[c]) BY DEF Kept
<1> QED BY <1>1, <1>3, <1>4, <1>5, <1>6, Types DEF x

LEMMA RefusedKeeps ==
    ASSUME IInv, NEW k \in Conn
    PROVE  /\ Refused(k) \in [Conn -> Connection]
           /\ \A c \in Conn : Kept(conn[c], Refused(k)[c])
           /\ \A c \in Conn : NoNewWait(conn[c], Refused(k)[c])
<1> DEFINE x == conn[k]
           z == [x EXCEPT !.st = "refused"]
<1>1. Refused(k) = [conn EXCEPT ![k] = z] BY Types DEF Refused
<1>2. x \in Connection BY Types
<1> HIDE DEF x
<1>3. z \in Connection BY <1>2 DEF Connection
<1>4. /\ z.st = "refused" /\ z.sopen = x.sopen /\ z.slave = x.slave
      /\ z.mopen = x.mopen /\ z.master = x.master
  BY <1>2 DEF Connection
<1> HIDE DEF z
<1>5. Kept(x, z) /\ NoNewWait(x, z) BY <1>4 DEF Kept, NoNewWait
<1>6. \A c \in Conn : Kept(conn[c], conn[c]) /\ NoNewWait(conn[c], conn[c])
  BY DEF Kept, NoNewWait
<1> QED BY <1>1, <1>3, <1>5, <1>6, Types DEF x

\* syncCommand: who is listed as waiting finds or starts a child.
LEMMA SyncInv ==
    ASSUME IInv, NEW k \in Conn, Sync(k)
    PROVE  IInv'
<1> DEFINE m == conn[k].master
<1>1. m \in Node BY DEF IInv, MastersKnown, Sync
<1>2. UNCHANGED <<data, host, rs, cur, mdb>> BY DEF Sync
<1>3. CASE conn' = Refused(k) /\ UNCHANGED child /\ (Fault \/ UNCHANGED left)
  <2>1. conn' \in [Conn -> Connection] /\ (\A c \in Conn : Kept(conn[c], conn'[c]))
        /\ \A c \in Conn : NoNewWait(conn[c], conn'[c])
    BY <1>3, RefusedKeeps
  <2>2. Waiting(conn', child')
    BY <1>3, <2>1, WaitersKept DEF IInv, MastersKnown
  <2>3. left' \in BoundsLeft /\ left'.forks = left.forks BY <1>3, FaultLeft
  <2> QED BY <1>2, <1>3, <2>1, <2>2, <2>3, Types, KeepInv
<1>4. ASSUME NEW st \in {"start", "end"}, NEW buf \in Seq(Item), NEW late \in BOOLEAN,
             conn' = Listed(k, st, buf, late), UNCHANGED left, child'[m] # None,
             child' \in [Node -> Seq(Datum) \cup {None}],
             \A n \in Node : child[n] # None => child'[n] # None
      PROVE  IInv'
  <2>1. /\ conn' \in [Conn -> Connection] /\ \A c \in Conn : Kept(conn[c], conn'[c])
        /\ \A c \in Conn \ {k} : conn'[c] = conn[c] /\ conn'[k].master = m
    BY <1>4, ListedKeeps
  <2>2. Waiting(conn', child')
    <3> SUFFICES ASSUME NEW c \in Conn, conn'[c].mopen, ~conn'[c].late,
                        conn'[c].st \in {"start", "end"}
                 PROVE  child'[conn'[c].master] # None
      BY DEF Waiting
    <3>1. CASE c = k BY <1>4, <3>1, ListedKeeps
    <3>2. CASE c # k
      <4>1. conn'[c] = conn[c] BY <2>1, <3>2
      <4>2. conn[c].master \in Node /\ child[conn[c].master] # None
        BY <4>1 DEF IInv, MastersKnown, Waiting
      <4> QED BY <1>4, <4>1, <4>2
    <3> QED BY <3>1, <3>2
  <2> QED BY <1>2, <1>4, <2>1, <2>2, Types, KeepInv
<1> DEFINE ends == {e \in Slaves(conn, m) : conn[e].st = "end"}
<1>5. CASE /\ child[m] # None
           /\ \E e \in ends : conn' = Listed(k, "end", conn[e].buf, conn[e].late)
           /\ UNCHANGED <<child, left>>
  <2>1. PICK e \in ends : conn' = Listed(k, "end", conn[e].buf, conn[e].late) BY <1>5
  <2>2. conn[e].buf \in Seq(Item) /\ conn[e].late \in BOOLEAN
    BY Types DEF Slaves, Connection
  <2> QED BY <1>4, <1>5, <2>1, <2>2, Types
<1>6. CASE child[m] # None /\ conn' = Listed(k, "start", <<>>, FALSE)
           /\ UNCHANGED <<child, left>>
  <2>1. <<>> \in Seq(Item) OBVIOUS
  <2> QED BY <1>4, <1>6, <2>1, Types
<1>7. CASE /\ child' = [child EXCEPT ![m] = data[m]]
           /\ conn' = Listed(k, "end", <<>>, FALSE) /\ UNCHANGED left
  <2>1. <<>> \in Seq(Item) OBVIOUS
  <2>2. child'[m] # None /\ child' \in [Node -> Seq(Datum) \cup {None}]
        /\ \A n \in Node : child[n] # None => child'[n] # None
    BY <1>1, <1>7, Types
  <2> QED BY <1>4, <1>7, <2>1, <2>2
<1> QED BY <1>3, <1>5, <1>6, <1>7 DEF Sync, ForkFails

LEMMA SlaveFailsInv ==
    ASSUME IInv, NEW k \in Conn, SlaveFails(k)
    PROVE  IInv'
<1>1. /\ conn' = CloseMaster(conn, {k}) /\ (Fault \/ UNCHANGED left)
      /\ UNCHANGED <<data, host, rs, cur, mdb, child>>
  BY DEF SlaveFails
<1>2. conn' \in [Conn -> Connection] /\ (\A c \in Conn : Kept(conn[c], conn'[c]))
      /\ \A c \in Conn : NoNewWait(conn[c], conn'[c])
  BY <1>1, Types, CloseMasterKeeps
<1>3. Waiting(conn', child')
  BY <1>1, <1>2, WaitersKept DEF IInv, MastersKnown
<1>4. left' \in BoundsLeft /\ left'.forks = left.forks BY <1>1, FaultLeft
<1> QED BY <1>1, <1>2, <1>3, <1>4, Types, KeepInv

\* What a busy slave holds.
LEMMA HeldConn ==
    ASSUME IInv, NEW s \in Node, Busy(s)
    PROVE  /\ cur[s] \in Conn /\ conn[cur[s]] \in Connection
           /\ conn[cur[s]].sopen /\ conn[cur[s]].slave = s
BY Types DEF IInv, Owned

\* A slave reads a command and passes it on.
LEMMA ApplyInv ==
    ASSUME IInv, NEW s \in Node, Apply(s)
    PROVE  IInv'
<1> DEFINE k == cur[s]
           x == conn[k]
           i == Head(x.buf)
           z == [x EXCEPT !.buf = Tail(@)]
           read == [conn EXCEPT ![k] = z]
<1>1. x.buf # <<>> /\ rs[s] = "connected" /\ UNCHANGED <<host, rs, cur, child, left>>
  BY DEF Apply
<1>2. \/ /\ i.op = "select" /\ mdb' = [mdb EXCEPT ![s] = i.arg]
         /\ conn' = read /\ UNCHANGED data
      \/ /\ i.op = "write"
         /\ data' = [data EXCEPT ![s] = Append(@, <<i.arg, mdb[s]>>)]
         /\ conn' = replicationFeedSlaves(read, s, mdb[s], i.arg)
         /\ UNCHANGED mdb
  BY DEF Apply
<1>3. k \in Conn /\ x \in Connection BY <1>1, HeldConn DEF Busy
<1>4. x.buf \in Seq(Item) BY <1>3 DEF Connection
<1>5. i \in Item /\ Tail(x.buf) \in Seq(Item) BY <1>1, <1>4, HeadTailProperties
<1>6. i.arg \in Nat BY <1>5 DEF Item
<1> HIDE DEF i, x
<1>7. z \in Connection BY <1>3, <1>5 DEF Connection
<1>8. /\ z.st = x.st /\ z.sopen = x.sopen /\ z.slave = x.slave
      /\ z.mopen = x.mopen /\ z.master = x.master /\ z.bulk = x.bulk
      /\ z.late = x.late
  BY <1>3 DEF Connection
<1> HIDE DEF z
<1>9. Kept(x, z) /\ NoNewWait(x, z) BY <1>8 DEF Kept, NoNewWait
<1>10. \A c \in Conn : Kept(conn[c], conn[c]) /\ NoNewWait(conn[c], conn[c])
  BY DEF Kept, NoNewWait
<1>11. read \in [Conn -> Connection]
       /\ \A c \in Conn : Kept(conn[c], read[c]) /\ NoNewWait(conn[c], read[c])
  BY <1>3, <1>7, <1>9, <1>10, Types DEF x
<1> HIDE DEF read
<1>12. mdb[s] \in Nat BY Types
<1>13. conn' \in [Conn -> Connection] /\ (\A c \in Conn : Kept(conn[c], conn'[c]))
       /\ \A c \in Conn : NoNewWait(conn[c], conn'[c])
  <2>1. CASE conn' = read BY <1>11, <2>1
  <2>2. CASE conn' = replicationFeedSlaves(read, s, mdb[s], i.arg)
    <3>1. conn' \in [Conn -> Connection]
          /\ \A c \in Conn : Kept(read[c], conn'[c]) /\ NoNewWait(read[c], conn'[c])
      BY <1>6, <1>11, <1>12, <2>2, FeedKeeps
    <3>2. \A c \in Conn : Kept(conn[c], conn'[c]) BY <1>11, <3>1 DEF Kept
    <3>3. \A c \in Conn : NoNewWait(conn[c], conn'[c]) BY <1>11, <3>1 DEF NoNewWait
    <3> QED BY <3>1, <3>2, <3>3
  <2> QED BY <1>2, <2>1, <2>2
<1>14. mdb' \in [Node -> Nat] BY <1>2, <1>6, Types
<1>15. data' \in [Node -> Seq(Datum)]
  <2>1. <<i.arg, mdb[s]>> \in Datum BY <1>6, <1>12 DEF Datum
  <2>2. Append(data[s], <<i.arg, mdb[s]>>) \in Seq(Datum)
    BY <2>1, Types, AppendProperties
  <2> QED BY <1>2, <2>2, Types
<1>16. Waiting(conn', child')
  BY <1>1, <1>13, WaitersKept DEF IInv, MastersKnown
<1> QED BY <1>1, <1>13, <1>14, <1>15, <1>16, Types, KeepInv

\* A slave gives up its connection, if it has one, and perhaps its slaves.
LEMMA LeaveInv ==
    ASSUME IInv, NEW s \in Node, NEW C,
           conn' = CloseSlave(conn, cur[s])
             \/ conn' = CloseMaster(CloseSlave(conn, cur[s]), C),
           cur' = [cur EXCEPT ![s] = None],
           host' \in [Node -> Node \cup {None}],
           \A n \in Node \ {s} : host'[n] = host[n],
           rs' = [rs EXCEPT ![s] = IF host'[s] = None THEN "none" ELSE "connect"],
           data' \in [Node -> Seq(Datum)], UNCHANGED <<mdb, child>>,
           left' \in BoundsLeft, left'.forks = left.forks
    PROVE  IInv'
<1> DEFINE k == cur[s]
           cn == CloseSlave(conn, k)
<1>1. k \in Conn \cup {None} /\ None \notin Conn BY Types, ReplicationConstants
<1>2. /\ cn \in [Conn -> Connection]
      /\ \A c \in Conn : NoNewWait(conn[c], cn[c])
      /\ \A c \in Conn : c # k => cn[c] = conn[c]
      /\ k \in Conn => /\ ~cn[k].sopen
                       /\ cn[k].mopen => conn[k].mopen /\ cn[k].master = conn[k].master
  <2>1. CASE k = None
    <3>1. cn = conn BY <2>1 DEF CloseSlave
    <3> HIDE DEF cn
    <3> QED BY <1>1, <2>1, <3>1, Types DEF NoNewWait
  <2>2. CASE k \in Conn
    <3> HIDE DEF k
    <3>1. /\ CloseSlave(conn, k) \in [Conn -> Connection]
          /\ \A c \in Conn : NoNewWait(conn[c], CloseSlave(conn, k)[c])
          /\ \A c \in Conn \ {k} : CloseSlave(conn, k)[c] = conn[c]
          /\ ~CloseSlave(conn, k)[k].sopen
          /\ CloseSlave(conn, k)[k].mopen => /\ conn[k].mopen
                                /\ CloseSlave(conn, k)[k].master = conn[k].master
      BY <2>2, Types, CloseSlaveKeeps
    <3> QED BY <3>1
  <2> QED BY <1>1, <2>1, <2>2
<1>3. conn' = cn \/ conn' = CloseMaster(cn, C) OBVIOUS
<1> HIDE DEF cn
<1>4. conn' \in [Conn -> Connection]
      /\ \A c \in Conn : Kept(cn[c], conn'[c]) /\ NoNewWait(cn[c], conn'[c])
  <2>1. CASE conn' = cn BY <1>2, <2>1 DEF Kept, NoNewWait
  <2>2. CASE conn' = CloseMaster(cn, C) BY <1>2, <2>2, CloseMasterKeeps
  <2> QED BY <1>3, <2>1, <2>2
<1>5. \A c \in Conn : c # k => Kept(conn[c], conn'[c]) BY <1>2, <1>4
<1>6. k \in Conn => /\ ~conn'[k].sopen
                    /\ conn'[k].mopen => conn'[k].master \in Node
  <2> SUFFICES ASSUME k \in Conn
               PROVE  /\ ~conn'[k].sopen
                      /\ conn'[k].mopen => conn'[k].master \in Node
    OBVIOUS
  <2>1. Kept(cn[k], conn'[k]) BY <1>4
  <2>2. conn'[k].sopen = cn[k].sopen BY <2>1 DEF Kept
  <2>3. conn'[k].mopen => conn[k].mopen /\ conn'[k].master = conn[k].master
    BY <1>2, <2>1 DEF Kept
  <2> QED BY <1>2, <2>2, <2>3 DEF IInv, MastersKnown
<1>7. Roles' /\ Owned' /\ FileHere' /\ MastersKnown'
  BY <1>4, <1>5, <1>6, LinkLeft
<1>8. \A c \in Conn : NoNewWait(conn[c], conn'[c]) BY <1>2, <1>4 DEF NoNewWait
<1>9. Waiting(conn', child')
  BY <1>8, WaitersKept DEF IInv, MastersKnown
<1>10. TypeOK'
  <2>1. rs' \in [Node -> States] BY Types DEF States
  <2>2. cur' \in [Node -> Conn \cup {None}] BY Types
  <2> QED BY <1>4, <2>1, <2>2, Types DEF TypeOK
<1> QED BY <1>7, <1>9, <1>10 DEF IInv

\* Whoever is busy is a slave.
LEMMA BusySlave ==
    ASSUME IInv, NEW s \in Node, Busy(s)
    PROVE  host[s] # None
BY DEF IInv, Roles, Busy

LEMMA DropInv ==
    ASSUME IInv, NEW s \in Node, Busy(s), DropLink(s),
           data' \in [Node -> Seq(Datum)], Fault \/ UNCHANGED left
    PROVE  IInv'
<1> DEFINE C == Slaves(CloseSlave(conn, cur[s]), s)
<1>1. /\ conn' = FreeMasterLink(conn, s, host[s]) /\ cur' = [cur EXCEPT ![s] = None]
      /\ rs' = [rs EXCEPT ![s] = "connect"] /\ UNCHANGED <<host, mdb, child>>
  BY DEF DropLink
<1>2. \/ conn' = CloseSlave(conn, cur[s])
      \/ conn' = CloseMaster(CloseSlave(conn, cur[s]), C)
  BY <1>1 DEF FreeMasterLink, disconnectSlaves
<1>3. host'[s] # None BY <1>1, BusySlave
<1>4. rs' = [rs EXCEPT ![s] = IF host'[s] = None THEN "none" ELSE "connect"]
  BY <1>1, <1>3
<1>5. left' \in BoundsLeft /\ left'.forks = left.forks BY FaultLeft
<1>6. host' \in [Node -> Node \cup {None}] /\ \A n \in Node \ {s} : host'[n] = host[n]
  BY <1>1, Types
<1> HIDE DEF C
<1> QED BY <1>1, <1>2, <1>4, <1>5, <1>6, LeaveInv

LEMMA LinkLostInv ==
    ASSUME IInv, NEW s \in Node, LinkFails(s) \/ LoadFails(s) \/ LinkEnds(s)
    PROVE  IInv'
<1>1. CASE LinkFails(s) \/ LinkEnds(s)
  BY <1>1, DropInv, Types DEF LinkFails, LinkEnds
<1>2. CASE LoadFails(s)
  <2>1. Busy(s) BY <1>2 DEF LoadFails, Busy
  <2>2. <<>> \in Seq(Datum) OBVIOUS
  <2>3. data' \in [Node -> Seq(Datum)] BY <1>2, <2>2, Types DEF LoadFails
  <2> QED BY <1>2, <2>1, <2>3, DropInv DEF LoadFails
<1> QED BY <1>1, <1>2

LEMMA RoleInv ==
    ASSUME IInv, NEW n \in Node, SlaveOfNoOne(n) \/ \E m \in Node : SlaveOf(n, m)
    PROVE  IInv'
<1> DEFINE C == Slaves(CloseSlave(conn, cur[n]), n)
<1>1. /\ cur' = [cur EXCEPT ![n] = None] /\ UNCHANGED <<data, mdb, child>>
      /\ left.roles > 0 /\ left' = [left EXCEPT !.roles = @ - 1]
  BY DEF SlaveOf, SlaveOfNoOne
<1>2. left' \in BoundsLeft /\ left'.forks = left.forks BY <1>1, Types, OneLess
<1>3. CASE SlaveOfNoOne(n)
  <2>1. host' = [host EXCEPT ![n] = None] /\ conn' = FreeMasterLink(conn, n, None)
        /\ rs' = [rs EXCEPT ![n] = "none"]
    BY <1>3 DEF SlaveOfNoOne
  <2>2. conn' = CloseSlave(conn, cur[n]) BY <2>1 DEF FreeMasterLink
  <2>3. host' \in [Node -> Node \cup {None}] /\ host'[n] = None
        /\ \A k \in Node \ {n} : host'[k] = host[k]
    BY <2>1, Types
  <2>4. rs' = [rs EXCEPT ![n] = IF host'[n] = None THEN "none" ELSE "connect"]
    BY <2>1, <2>3
  <2> HIDE DEF C
  <2> QED BY <1>1, <1>2, <2>2, <2>3, <2>4, Types, LeaveInv
<1>4. ASSUME NEW m \in Node, SlaveOf(n, m) PROVE IInv'
  <2>1. host' = [host EXCEPT ![n] = m] /\ rs' = [rs EXCEPT ![n] = "connect"]
        /\ conn' = CloseMaster(CloseSlave(conn, cur[n]), C)
    BY <1>4 DEF SlaveOf, disconnectSlaves
  <2>2. host' \in [Node -> Node \cup {None}] /\ host'[n] = m
        /\ \A k \in Node \ {n} : host'[k] = host[k]
    BY <2>1, Types
  <2>3. rs' = [rs EXCEPT ![n] = IF host'[n] = None THEN "none" ELSE "connect"]
    BY <2>1, <2>2, ReplicationConstants
  <2> HIDE DEF C
  <2> QED BY <1>1, <1>2, <2>1, <2>2, <2>3, Types, LeaveInv
<1> QED BY <1>3, <1>4

LEMMA ConnectInv ==
    ASSUME IInv, NEW s \in Node, Connect(s)
    PROVE  IInv'
<1>1. PICK k \in Conn :
        /\ conn[k] = Free
        /\ conn' = [conn EXCEPT ![k] =
                      [Free EXCEPT !.slave = s, !.master = host[s],
                                   !.st = "new", !.mopen = TRUE, !.sopen = TRUE]]
        /\ cur' = [cur EXCEPT ![s] = k]
  BY DEF Connect
<1> DEFINE z == [Free EXCEPT !.slave = s, !.master = host[s],
                             !.st = "new", !.mopen = TRUE, !.sopen = TRUE]
<1>2. rs[s] = "connect" /\ rs' = [rs EXCEPT ![s] = "connecting"]
      /\ UNCHANGED <<data, host, mdb, child, left>>
  BY DEF Connect
<1>3. TypeOK /\ Roles /\ Owned /\ FileHere /\ MastersKnown BY DEF IInv
<1>4. host[s] \in Node /\ ~Busy(s) BY <1>2, <1>3, Types DEF Roles, Busy
<1>5. z \in Connection /\ z.slave = s /\ z.master = host[s] /\ z.st = "new"
      /\ z.mopen /\ z.sopen
  <2>1. z \in Connection BY <1>4, FreeType DEF Connection
  <2>2. z.slave = s /\ z.master = host[s] /\ z.st = "new"
    BY FreeType DEF Connection
  <2>3. z.mopen = TRUE /\ z.sopen = TRUE BY FreeType DEF Connection
  <2> QED BY <2>1, <2>2, <2>3
<1>6. conn' = [conn EXCEPT ![k] = z] BY <1>1
<1> HIDE DEF z
<1>7. conn' \in [Conn -> Connection] /\ conn'[k] = z
      /\ \A c \in Conn \ {k} : conn'[c] = conn[c]
  BY <1>5, <1>6, Types
<1>8. rs'[s] = "connecting" /\ cur'[s] = k
      /\ \A n \in Node \ {s} : rs'[n] = rs[n] /\ cur'[n] = cur[n]
  BY <1>1, <1>2, Types
<1>9. ASSUME NEW n \in Node \ {s}, Busy(n)
      PROVE  cur[n] \in Conn \ {k} /\ conn[cur[n]].sopen /\ conn[cur[n]].slave = n
  BY <1>1, <1>3, <1>9, FreeType DEF Owned
<1>10. Roles' BY <1>2, <1>3, <1>4, <1>8, ReplicationConstants DEF Roles
<1>11. MastersKnown' BY <1>3, <1>4, <1>5, <1>7 DEF MastersKnown
<1>12. Owned'
  <2>1. ASSUME NEW n \in Node
        PROVE  IF Busy(n)' THEN /\ cur'[n] \in Conn /\ conn'[cur'[n]].sopen
                                /\ conn'[cur'[n]].slave = n
                           ELSE cur'[n] = None
    <3>1. CASE n = s BY <1>5, <1>7, <1>8, <3>1 DEF Busy
    <3>2. CASE n # s
      <4>1. Busy(n)' = Busy(n) BY <1>8, <3>2 DEF Busy
      <4>2. CASE Busy(n) BY <1>7, <1>8, <1>9, <3>2, <4>1, <4>2
      <4>3. CASE ~Busy(n) BY <1>3, <1>8, <3>2, <4>1, <4>3 DEF Owned
      <4> QED BY <4>2, <4>3
    <3> QED BY <3>1, <3>2
  <2>2. ASSUME NEW c \in Conn, conn'[c].sopen
        PROVE  conn'[c].slave \in Node /\ cur'[conn'[c].slave] = c
    <3>1. CASE c = k BY <1>5, <1>7, <1>8, <3>1
    <3>2. CASE c # k
      <4>1. conn[c].slave \in Node /\ cur[conn[c].slave] = c /\ conn'[c] = conn[c]
        BY <1>3, <1>7, <2>2, <3>2 DEF Owned
      <4>2. cur[s] = None BY <1>3, <1>4 DEF Owned
      <4>3. conn[c].slave # s BY <4>1, <4>2, ReplicationConstants
      <4> QED BY <1>8, <4>1, <4>3
    <3> QED BY <3>1, <3>2
  <2> QED BY <2>1, <2>2 DEF Owned
<1>13. FileHere'
  <2> SUFFICES ASSUME NEW n \in Node, rs'[n] = "transfer",
                      conn'[cur'[n]].st \in {"bulk", "online"}
               PROVE  conn'[cur'[n]].bulk # None
    BY DEF FileHere
  <2>1. n # s BY <1>8
  <2>2. rs[n] = "transfer" /\ Busy(n) /\ cur'[n] = cur[n]
    BY <1>8, <2>1 DEF Busy
  <2>3. conn'[cur[n]] = conn[cur[n]] BY <1>7, <1>9, <2>1, <2>2
  <2> QED BY <1>3, <2>2, <2>3 DEF FileHere
<1>14. TypeOK'
  <2>1. rs' \in [Node -> States] BY <1>2, Types DEF States
  <2>2. cur' \in [Node -> Conn \cup {None}] BY <1>1, Types
  <2> QED BY <1>2, <1>7, <2>1, <2>2, Types DEF TypeOK
<1>15. \A c \in Conn : NoNewWait(conn[c], conn'[c])
  BY <1>5, <1>7 DEF NoNewWait
<1>16. Waiting(conn', child')
  BY <1>2, <1>15, WaitersKept DEF IInv, MastersKnown
<1>17. left' = left BY <1>2
<1> QED BY <1>10, <1>11, <1>12, <1>13, <1>14, <1>16, <1>17 DEF IInv

\* A slave that stays busy with its connection, whose file it may load.
LEMMA BusyInv ==
    ASSUME IInv, NEW s \in Node, Busy(s), NEW z \in Connection,
           NEW r \in {"pong", "transfer", "connected"},
           z.sopen = conn[cur[s]].sopen, z.slave = conn[cur[s]].slave,
           z.mopen = conn[cur[s]].mopen, z.master = conn[cur[s]].master,
           NoNewWait(conn[cur[s]], z),
           r = "transfer" => z.st \notin {"bulk", "online"},
           conn' = [conn EXCEPT ![cur[s]] = z], rs' = [rs EXCEPT ![s] = r],
           data' \in [Node -> Seq(Datum)], mdb' \in [Node -> Nat],
           UNCHANGED <<host, cur, child, left>>
    PROVE  IInv'
<1> DEFINE k == cur[s]
<1>1. TypeOK /\ Roles /\ Owned /\ FileHere /\ MastersKnown BY DEF IInv
<1>2. k \in Conn /\ conn[k].sopen /\ conn[k].slave = s BY HeldConn
<1>3. conn' \in [Conn -> Connection] /\ conn'[k] = z
      /\ \A c \in Conn \ {k} : conn'[c] = conn[c]
  BY <1>2, Types
<1>4. rs'[s] = r /\ \A n \in Node \ {s} : rs'[n] = rs[n] BY Types
<1>5. ASSUME NEW n \in Node \ {s}, Busy(n)
      PROVE  cur[n] \in Conn \ {k} /\ conn[cur[n]].sopen /\ conn[cur[n]].slave = n
  BY <1>1, <1>2, <1>5 DEF Owned
<1>6. Roles' BY <1>1, <1>4, BusySlave DEF Roles
<1>7. MastersKnown' BY <1>1, <1>2, <1>3 DEF MastersKnown
<1>8. Owned'
  <2>1. ASSUME NEW n \in Node
        PROVE  IF Busy(n)' THEN /\ cur'[n] \in Conn /\ conn'[cur'[n]].sopen
                                /\ conn'[cur'[n]].slave = n
                           ELSE cur'[n] = None
    <3>1. CASE n = s BY <1>2, <1>3, <1>4, <3>1 DEF Busy
    <3>2. CASE n # s
      <4>1. Busy(n)' = Busy(n) BY <1>4, <3>2 DEF Busy
      <4>2. CASE Busy(n) BY <1>3, <1>5, <3>2, <4>1, <4>2
      <4>3. CASE ~Busy(n) BY <1>1, <3>2, <4>1, <4>3 DEF Owned
      <4> QED BY <4>2, <4>3
    <3> QED BY <3>1, <3>2
  <2>2. \A c \in Conn : conn'[c].sopen =>
           conn'[c].slave \in Node /\ cur'[conn'[c].slave] = c
    BY <1>1, <1>2, <1>3 DEF Owned
  <2> QED BY <2>1, <2>2 DEF Owned
<1>9. FileHere'
  <2> SUFFICES ASSUME NEW n \in Node, rs'[n] = "transfer",
                      conn'[cur'[n]].st \in {"bulk", "online"}
               PROVE  conn'[cur'[n]].bulk # None
    BY DEF FileHere
  <2>1. n # s BY <1>3, <1>4
  <2>2. rs[n] = "transfer" /\ Busy(n) BY <1>4, <2>1 DEF Busy
  <2>3. conn'[cur[n]] = conn[cur[n]] BY <1>3, <1>5, <2>1, <2>2
  <2> QED BY <1>1, <2>2, <2>3 DEF FileHere
<1>10. TypeOK'
  <2>1. rs' \in [Node -> States] BY Types DEF States
  <2> QED BY <1>3, <2>1, Types DEF TypeOK
<1>11. \A c \in Conn : NoNewWait(conn[c], conn'[c])
  BY <1>2, <1>3 DEF NoNewWait
<1>12. Waiting(conn', child')
  BY <1>11, WaitersKept DEF IInv, MastersKnown
<1> QED BY <1>6, <1>7, <1>8, <1>9, <1>10, <1>12 DEF IInv

LEMMA HandshakeInv ==
    ASSUME IInv, NEW s \in Node, Ping(s) \/ SendSync(s) \/ ReadBulk(s)
    PROVE  IInv'
<1> DEFINE x == conn[cur[s]]
<1>1. Busy(s) BY DEF Ping, SendSync, ReadBulk, Busy
<1>2. cur[s] \in Conn /\ x \in Connection /\ x.sopen BY <1>1, HeldConn
<1>3. NoNewWait(x, x) BY DEF NoNewWait
<1>4. CASE Ping(s)
  <2>1. conn' = [conn EXCEPT ![cur[s]] = x] BY <1>4, Types DEF Ping
  <2> HIDE DEF x
  <2>2. /\ rs' = [rs EXCEPT ![s] = "pong"] /\ UNCHANGED <<data, mdb>>
        /\ UNCHANGED <<host, cur, child, left>>
    BY <1>4 DEF Ping
  <2>3. data' \in [Node -> Seq(Datum)] /\ mdb' \in [Node -> Nat] BY <2>2, Types
  <2> QED BY <1>1, <1>2, <1>3, <2>1, <2>2, <2>3, BusyInv DEF x
<1>5. CASE SendSync(s)
  <2> DEFINE z == [x EXCEPT !.st = "asked"]
  <2>1. conn' = [conn EXCEPT ![cur[s]] = z] BY <1>5 DEF SendSync
  <2> HIDE DEF x
  <2>2. z \in Connection BY <1>2 DEF Connection
  <2>3. z.st = "asked" /\ z.sopen = x.sopen /\ z.slave = x.slave
        /\ z.mopen = x.mopen /\ z.master = x.master
    BY <1>2 DEF Connection
  <2> HIDE DEF z
  <2>4. NoNewWait(x, z) BY <2>3 DEF NoNewWait
  <2>5. /\ rs' = [rs EXCEPT ![s] = "transfer"] /\ UNCHANGED <<data, mdb>>
        /\ UNCHANGED <<host, cur, child, left>>
    BY <1>5 DEF SendSync
  <2>6. data' \in [Node -> Seq(Datum)] /\ mdb' \in [Node -> Nat] BY <2>5, Types
  <2> QED BY <1>1, <2>1, <2>2, <2>3, <2>4, <2>5, <2>6, BusyInv DEF x
<1>6. CASE ReadBulk(s)
  <2> DEFINE z == [x EXCEPT !.bulk = None]
  <2>1. conn' = [conn EXCEPT ![cur[s]] = z] /\ data' = [data EXCEPT ![s] = x.bulk]
        /\ rs[s] = "transfer" /\ x.st = "online"
    BY <1>6 DEF ReadBulk
  <2>2. x.bulk # None BY <2>1 DEF IInv, FileHere
  <2> HIDE DEF x
  <2>3. x.bulk \in Seq(Datum) BY <1>2, <2>2 DEF Connection
  <2>4. z \in Connection BY <1>2 DEF Connection
  <2>5. z.st = x.st /\ z.sopen = x.sopen /\ z.slave = x.slave
        /\ z.mopen = x.mopen /\ z.master = x.master /\ z.late = x.late
    BY <1>2 DEF Connection
  <2> HIDE DEF z
  <2>6. NoNewWait(x, z) BY <2>5 DEF NoNewWait
  <2>7. /\ rs' = [rs EXCEPT ![s] = "connected"]
        /\ mdb' = [mdb EXCEPT ![s] = 0]
        /\ UNCHANGED <<host, cur, child, left>>
    BY <1>6 DEF ReadBulk
  <2>8. data' \in [Node -> Seq(Datum)] /\ mdb' \in [Node -> Nat]
    BY <2>1, <2>3, <2>7, Types
  <2> QED BY <1>1, <2>1, <2>4, <2>5, <2>6, <2>7, <2>8, BusyInv DEF x
<1> QED BY <1>4, <1>5, <1>6

LEMMA InitInv == Init => IInv
<1> SUFFICES ASSUME Init PROVE IInv OBVIOUS
<1>1. PICK x \in Scenario :
         /\ host = x.host
         /\ left = [db |-> x.db, writes |-> x.writes, saves |-> x.saves,
                    faults |-> x.faults, roles |-> x.roles, forks |-> x.forks]
  BY DEF Init
<1>2. /\ x.host \in [Node -> Node \cup {None}]
      /\ x.db \subseteq Nat /\ x.writes \in Nat /\ x.saves \in Nat
      /\ x.faults \in Nat /\ x.roles \in Nat
      /\ x.forks \subseteq {"sync", "next"}
  BY ReplicationConstants
<1>3. left \in BoundsLeft BY <1>1, <1>2 DEF BoundsLeft
<1>4. /\ data = [n \in Node |-> <<>>]
      /\ rs = [n \in Node |-> IF host[n] = None THEN "none" ELSE "connect"]
      /\ cur = [n \in Node |-> None] /\ mdb = [n \in Node |-> 0]
      /\ child = [n \in Node |-> None] /\ conn = [c \in Conn |-> Free]
  BY DEF Init
<1>5. <<>> \in Seq(Datum) OBVIOUS
<1>6. TypeOK BY <1>1, <1>2, <1>3, <1>4, <1>5, FreeType DEF TypeOK, States
<1>7. Roles BY <1>4 DEF Roles
<1>8. Owned BY <1>4, FreeType DEF Owned, Busy
<1>9. FileHere BY <1>4 DEF FileHere
<1>10. MastersKnown /\ Waiting(conn, child)
  BY <1>4, FreeType DEF MastersKnown, Waiting
<1> QED BY <1>6, <1>7, <1>8, <1>9, <1>10 DEF IInv

LEMMA StepInv == IInv /\ [Next]_vars => IInv'
<1> SUFFICES ASSUME IInv, [Next]_vars PROVE IInv' OBVIOUS
<1>1. ASSUME NEW n \in Node, NEW d \in left.db, Write(n, d) PROVE IInv'
  BY <1>1, WriteInv
<1>2. ASSUME NEW n \in Node, NEW ok \in BOOLEAN, BgSaveDone(n, ok) PROVE IInv'
  BY <1>2, BgSaveDoneInv
<1>3. ASSUME NEW n \in Node,
             \/ BgSave(n) \/ Progress(n) \/ LinkFails(n) \/ LoadFails(n)
             \/ SlaveOfNoOne(n) \/ \E m \in Node : SlaveOf(n, m)
      PROVE  IInv'
  BY <1>3, BgSaveInv, ConnectInv, HandshakeInv, ApplyInv, LinkLostInv, RoleInv
     DEF Progress
<1>4. ASSUME NEW c \in Conn, Sync(c) \/ SendBulk(c) \/ SlaveFails(c) PROVE IInv'
  BY <1>4, SyncInv, SendBulkInv, SlaveFailsInv
<1>5. CASE UNCHANGED vars
  <2>1. /\ data' = data /\ host' = host /\ rs' = rs /\ cur' = cur /\ mdb' = mdb
        /\ child' = child /\ conn' = conn /\ left' = left
    BY <1>5 DEF vars
  <2>2. \A c \in Conn : Kept(conn[c], conn'[c]) BY <2>1 DEF Kept
  <2>3. Waiting(conn', child') BY <2>1 DEF IInv
  <2> QED BY <2>1, <2>2, <2>3, Types, KeepInv
<1> QED BY <1>1, <1>2, <1>3, <1>4, <1>5 DEF Next

LEMMA Inductive == Spec => []IInv
BY InitInv, StepInv, PTL DEF Spec

-----------------------------------------------------------------------------
(* Theorems *)

\* The state of every server and of every connection keeps its type; that a
\* dataset stays a sequence of writes rests on FileHere.
THEOREM TypeCorrect == Spec => []TypeOK
<1>1. IInv => TypeOK BY DEF IInv
<1> QED BY <1>1, Inductive, PTL

\* Through timeouts, closed links and SLAVEOF commands each busy slave holds
\* one connection, its own, and leaves none open behind it; and a slave that
\* saw the end of the transfer has a file to load.
THEOREM LinksHeld == Spec => [](Owned /\ FileHere)
<1>1. IInv => Owned /\ FileHere BY DEF IInv
<1> QED BY <1>1, Inductive, PTL

\* A slave that waits for a BGSAVE waits for one that runs, but for those that
\* updateSlavesWaitingBgsave forgets when the fork of the next one fails: no
\* other fault, and no order of saves, SYNCs and changes of role, leaves one.
THEOREM WaitersHaveChildHolds == Spec => []WaitersHaveChild
<1>1. IInv => WaitersHaveChild
  BY DEF IInv, Waiting, WaitersHaveChild, Slaves
<1> QED BY <1>1, Inductive, PTL

-----------------------------------------------------------------------------
(* Folds.  A fold over a sequence of n elements is a function of the sets  *)
(* of positions; stages gives its value after each of the positions 1..n.  *)

\* A set of numbers has a least one.
LEMMA LeastNumber ==
    ASSUME NEW S \in SUBSET Nat, S # {}
    PROVE  \E m \in S : \A x \in S : m <= x
<1>1. PICK m \in S : \A x \in S : ~ (<<x, m>> \in OpToRel(<, Nat))
  BY WFMin, NatLessThanWellFounded
<1>2. \A x \in S : ~ (x < m) BY <1>1 DEF OpToRel
<1> QED BY <1>2

\* Induction, for sets of numbers.
LEMMA NatSet ==
    ASSUME NEW P \in SUBSET Nat, 0 \in P, \A n \in P : n + 1 \in P
    PROVE  P = Nat
<1> SUFFICES ASSUME Nat \ P # {} PROVE FALSE OBVIOUS
<1>1. PICK m \in Nat \ P : \A x \in Nat \ P : m <= x BY LeastNumber
<1>3. m # 0 /\ m - 1 \in Nat OBVIOUS
<1>4. m - 1 \in P BY <1>1, <1>3
<1>5. (m - 1) + 1 \in P BY <1>4
<1> QED BY <1>5

\* The greatest position.
LEMMA MaxInterval ==
    ASSUME NEW n \in Nat \ {0}, NEW S \in SUBSET (1..n), n \in S
    PROVE  Max(S) = n
<1>1. \A y \in S : n >= y OBVIOUS
<1>2. \A x \in S : (\A y \in S : x >= y) => x = n OBVIOUS
<1> QED BY <1>1, <1>2 DEF Max

\* A set of positions has a greatest one.
LEMMA MaxIn ==
    ASSUME NEW n \in Nat, NEW S \in SUBSET (1..n), S # {}
    PROVE  Max(S) \in S /\ \A y \in S : y <= Max(S)
<1> DEFINE U == {x \in Nat : \E y \in S : x = n - y}
<1>1. U # {}
  <2>1. PICK y \in S : TRUE OBVIOUS
  <2>2. n - y \in Nat OBVIOUS
  <2> QED BY <2>2
<1>2. PICK m \in U : \A x \in U : m <= x BY <1>1, LeastNumber
<1>4. PICK z \in S : m = n - z OBVIOUS
<1>5. \A y \in S : z >= y
  <2> SUFFICES ASSUME NEW y \in S PROVE z >= y OBVIOUS
  <2>1. n - y \in U OBVIOUS
  <2>2. n - z <= n - y BY <1>2, <1>4, <2>1
  <2> QED BY <2>2
<1>6. Max(S) \in S /\ \A y \in S : Max(S) >= y BY <1>5 DEF Max
<1> QED BY <1>6

\* g is a fold over the sets of positions up to m: step[i] is what is done at
\* position i.
FoldRule(g, m, base, step) ==
    \A s \in SUBSET (1..m) :
        g[s] = IF s = {} THEN base ELSE step[Max(s)][g[s \ {Max(s)}]]

\* A fold exists.
LEMMA FoldExists ==
    ASSUME NEW n \in Nat, NEW T, NEW base \in T, NEW step \in [1..n -> [T -> T]]
    PROVE  \E g \in [SUBSET (1..n) -> T] : FoldRule(g, n, base, step)
<1> DEFINE Has(m) == \E g \in [SUBSET (1..m) -> T] : FoldRule(g, m, base, step)
           P == {m \in Nat : m <= n => Has(m)}
<1>1. 0 \in P
  <2> DEFINE g == [s \in SUBSET (1..0) |-> base]
  <2>1. \A s \in SUBSET (1..0) : s = {} OBVIOUS
  <2>2. FoldRule(g, 0, base, step) BY <2>1 DEF FoldRule
  <2>3. g \in [SUBSET (1..0) -> T] OBVIOUS
  <2> QED BY <2>2, <2>3
<1>2. ASSUME NEW m \in P PROVE m + 1 \in P
  <2> HIDE DEF Has
  <2> SUFFICES ASSUME m + 1 <= n PROVE Has(m + 1) OBVIOUS
  <2>1. m \in Nat /\ m <= n /\ Has(m) OBVIOUS
  <2> USE DEF Has
  <2>0. PICK g \in [SUBSET (1..m) -> T] : FoldRule(g, m, base, step) BY <2>1
  <2> HIDE DEF P, Has
  <2> DEFINE k == m + 1
             e(s) == IF k \in s THEN step[k][g[s \ {k}]] ELSE g[s]
             h == [s \in SUBSET (1..k) |-> e(s)]
  <2>2. k \in 1..n /\ k \in Nat \ {0} BY <2>1
  <2>3. ASSUME NEW s \in SUBSET (1..k), k \in s
        PROVE  /\ Max(s) = k /\ s \ {k} \in SUBSET (1..m)
               /\ h[s] = step[k][h[s \ {k}]] /\ h[s] \in T
    <3>1. Max(s) = k BY <2>2, <2>3, MaxInterval
    <3>2. s \ {k} \in SUBSET (1..m) /\ s \ {k} \in SUBSET (1..k) BY <2>1, <2>3
    <3>3. h[s] = step[k][g[s \ {k}]] BY <2>3
    <3>4. h[s \ {k}] = g[s \ {k}] BY <3>2
    <3>5. step[k] \in [T -> T] /\ g[s \ {k}] \in T BY <2>2, <3>2
    <3> QED BY <3>1, <3>2, <3>3, <3>4, <3>5
  <2>4. ASSUME NEW s \in SUBSET (1..k), k \notin s
        PROVE  /\ s \in SUBSET (1..m) /\ h[s] = g[s] /\ h[s] \in T
               /\ s # {} => /\ Max(s) \in s /\ s \ {Max(s)} \in SUBSET (1..m)
                            /\ h[s \ {Max(s)}] = g[s \ {Max(s)}]
    <3>1. s \in SUBSET (1..m) BY <2>1, <2>4
    <3>2. s \ {Max(s)} \in SUBSET (1..m) /\ s \ {Max(s)} \in SUBSET (1..k)
          /\ k \notin s \ {Max(s)}
      BY <2>1, <2>4, <3>1
    <3>3. h[s] = g[s] /\ h[s] \in T BY <2>4, <3>1
    <3>4. h[s \ {Max(s)}] = g[s \ {Max(s)}] BY <3>2
    <3>5. s # {} => Max(s) \in s BY <2>1, <3>1, MaxIn
    <3> QED BY <3>1, <3>2, <3>3, <3>4, <3>5
  <2>5. FoldRule(h, k, base, step)
    <3> SUFFICES ASSUME NEW s \in SUBSET (1..k)
                 PROVE  h[s] = IF s = {} THEN base
                               ELSE step[Max(s)][h[s \ {Max(s)}]]
      BY DEF FoldRule
    <3> HIDE DEF h
    <3>1. CASE k \in s BY <3>1, <2>3
    <3>2. CASE k \notin s BY <3>2, <2>4, <2>0 DEF FoldRule
    <3> QED BY <3>1, <3>2
  <2>6. h \in [SUBSET (1..k) -> T]
    <3>1. \A s \in SUBSET (1..k) : e(s) \in T BY <2>3, <2>4
    <3> HIDE DEF e
    <3> QED BY <3>1
  <2> QED BY <2>5, <2>6 DEF Has
<1> HIDE DEF Has
<1>3. P = Nat BY <1>1, <1>2, NatSet
<1>4. Has(n) BY <1>3
<1> QED BY <1>4 DEF Has

\* g obeys the rule as far as its values are in T.
FoldGoes(g, n, T, base, step) ==
    /\ g[{}] = base
    /\ \A s \in SUBSET (1..n) : s # {} /\ g[s \ {Max(s)}] \in T =>
            g[s] = step[Max(s)][g[s \ {Max(s)}]]

\* Such a function at the first k positions.
FoldSteps(g, n, T, step) ==
    /\ \A k \in 1..n : g[1..k] = step[k][g[1..(k - 1)]]
    /\ \A k \in 0..n : g[1..k] \in T

LEMMA FoldStages ==
    ASSUME NEW n \in Nat, NEW T, NEW base \in T, NEW step \in [1..n -> [T -> T]],
           NEW g, FoldGoes(g, n, T, base, step)
    PROVE  FoldSteps(g, n, T, step)
<1>1. g[{}] = base BY DEF FoldGoes
<1>2. 1..0 = {} OBVIOUS
<1>3. ASSUME NEW k \in 1..n, g[1..(k - 1)] \in T
      PROVE  g[1..k] = step[k][g[1..(k - 1)]]
  <2>1. 1..k \in SUBSET (1..n) /\ 1..k \in SUBSET (1..k) /\ k \in 1..k
        /\ k \in Nat \ {0}
    OBVIOUS
  <2>2. Max(1..k) = k BY <2>1, MaxInterval
  <2>3. (1..k) \ {k} = 1..(k - 1) OBVIOUS
  <2>4. 1..k # {} BY <2>1
  <2> QED BY <1>3, <2>1, <2>2, <2>3, <2>4 DEF FoldGoes
<1> DEFINE P == {k \in Nat : k <= n => g[1..k] \in T}
<1>4. 0 \in P BY <1>1, <1>2
<1>5. ASSUME NEW k \in P PROVE k + 1 \in P
  <2> SUFFICES ASSUME k + 1 <= n PROVE g[1..(k + 1)] \in T OBVIOUS
  <2>1. k \in Nat /\ k + 1 \in 1..n /\ (k + 1) - 1 = k /\ g[1..k] \in T OBVIOUS
  <2>2. g[1..(k + 1)] = step[k + 1][g[1..k]] BY <1>3, <2>1
  <2>3. step[k + 1] \in [T -> T] BY <2>1
  <2> QED BY <2>1, <2>2, <2>3
<1>6. P = Nat BY <1>4, <1>5, NatSet
<1>7. \A k \in 0..n : g[1..k] \in T
  <2> SUFFICES ASSUME NEW k \in 0..n PROVE g[1..k] \in T OBVIOUS
  <2>1. k \in P BY <1>6
  <2> QED BY <2>1
<1>8. \A k \in 1..n : g[1..k] = step[k][g[1..(k - 1)]]
  <2> SUFFICES ASSUME NEW k \in 1..n PROVE g[1..k] = step[k][g[1..(k - 1)]] OBVIOUS
  <2>1. k - 1 \in 0..n OBVIOUS
  <2> QED BY <1>3, <1>7, <2>1
<1> QED BY <1>7, <1>8 DEF FoldSteps

-----------------------------------------------------------------------------
(* What the commands of a buffer do (Effect) *)

\* One command, executed by a client with the state v: the database it is in
\* and the writes so far.
Executed(v, x) == IF x.op = "select" THEN [v EXCEPT !.db = x.arg]
                  ELSE [v EXCEPT !.seq = Append(@, <<x.arg, v.db>>)]

Progress0(d) == [db |-> d, seq |-> <<>>]

Reader == [db : Nat, seq : Seq(Datum)]

\* All commands of buf, from database d.
Played(buf, d) ==
    FoldLeft(LAMBDA s, x : IF x.op = "select" THEN [s EXCEPT !.db = x.arg]
                           ELSE [s EXCEPT !.seq = Append(@, <<x.arg, s.db>>)],
             [db |-> d, seq |-> <<>>], buf)

LEMMA EffectPlayed ==
    ASSUME NEW buf, NEW d
    PROVE  Effect(buf, d) = Played(buf, d).seq
BY DEF Effect, Played

LEMMA ExecutedType ==
    ASSUME NEW v \in Reader, NEW x \in Item
    PROVE  /\ Executed(v, x) \in Reader
           /\ x.op = "select" => Executed(v, x) = [db |-> x.arg, seq |-> v.seq]
           /\ x.op = "write" => Executed(v, x) =
                 [db |-> v.db, seq |-> Append(v.seq, <<x.arg, v.db>>)]
<1>1. v.db \in Nat /\ v.seq \in Seq(Datum) /\ x.arg \in Nat
      /\ v = [db |-> v.db, seq |-> v.seq] /\ x.op \in {"select", "write"}
  BY DEF Reader, Item
<1>2. <<x.arg, v.db>> \in Datum BY <1>1 DEF Datum
<1>3. Append(v.seq, <<x.arg, v.db>>) \in Seq(Datum) BY <1>1, <1>2
<1>4. CASE x.op = "select"
  <2>1. Executed(v, x) = [db |-> x.arg, seq |-> v.seq] BY <1>1, <1>4 DEF Executed
  <2> QED BY <1>1, <1>4, <2>1 DEF Reader
<1>5. CASE x.op = "write"
  <2>1. Executed(v, x) = [db |-> v.db, seq |-> Append(v.seq, <<x.arg, v.db>>)]
    BY <1>1, <1>5 DEF Executed
  <2> QED BY <1>1, <1>3, <1>5, <2>1 DEF Reader
<1> QED BY <1>1, <1>4, <1>5

\* The states of the client after each command.
LEMMA PlayedStages ==
    ASSUME NEW buf \in Seq(Item), NEW d \in Nat
    PROVE  \E f \in [0..Len(buf) -> Reader] :
             /\ f[0] = Progress0(d)
             /\ \A k \in 1..Len(buf) : f[k] = Executed(f[k - 1], buf[k])
             /\ Played(buf, d) = f[Len(buf)]
<1> DEFINE n == Len(buf)
           e(v, i) == Executed(v, buf[i])
           step == [i \in 1..n |-> [v \in Reader |-> e(v, i)]]
           base == Progress0(d)
           Eqn(g) == g = [s \in SUBSET DOMAIN buf |->
                       IF s = {} THEN base ELSE e(g[s \ {Max(s)}], Max(s))]
           h == CHOOSE g : Eqn(g)
<1>1. n \in Nat /\ DOMAIN buf = 1..n OBVIOUS
<1>2. base \in Reader BY DEF Progress0, Reader
<1>3. \A i \in 1..n : \A v \in Reader : e(v, i) \in Reader BY ExecutedType
<1>4. Played(buf, d) = h[DOMAIN buf]
  BY DEF Played, FoldLeft, MapThenFoldSet, Executed, Progress0
<1> HIDE DEF n, e
<1>5. step \in [1..n -> [Reader -> Reader]] BY <1>3
<1>6. \A i \in 1..n : \A v \in Reader : step[i][v] = e(v, i) OBVIOUS
<1> HIDE DEF step, base
<1>7. PICK g \in [SUBSET (1..n) -> Reader] : FoldRule(g, n, base, step)
  BY <1>1, <1>2, <1>5, FoldExists
<1>8. ASSUME NEW s \in SUBSET (1..n), s # {}
      PROVE  Max(s) \in 1..n /\ s \ {Max(s)} \in SUBSET (1..n)
  BY <1>1, <1>8, MaxIn
<1>9. Eqn(g)
  <2>1. \A s \in SUBSET (1..n) : g[s] = IF s = {} THEN base ELSE e(g[s \ {Max(s)}], Max(s))
    BY <1>6, <1>7, <1>8 DEF FoldRule
  <2>2. g = [s \in SUBSET (1..n) |-> g[s]] BY <1>7
  <2> QED BY <1>1, <2>1, <2>2
<1>10. Eqn(h) BY <1>9
<1> HIDE DEF h
<1>11. \A s \in SUBSET (1..n) :
          h[s] = IF s = {} THEN base ELSE e(h[s \ {Max(s)}], Max(s))
  BY <1>1, <1>10
<1>12. FoldGoes(h, n, Reader, base, step)
  <2>1. h[{}] = base BY <1>11
  <2>2. ASSUME NEW s \in SUBSET (1..n), s # {}, h[s \ {Max(s)}] \in Reader
        PROVE  h[s] = step[Max(s)][h[s \ {Max(s)}]]
    <3>1. h[s] = e(h[s \ {Max(s)}], Max(s)) BY <1>11, <2>2
    <3>2. Max(s) \in 1..n BY <1>8, <2>2
    <3> QED BY <1>6, <2>2, <3>1, <3>2
  <2> QED BY <2>1, <2>2 DEF FoldGoes
<1> DEFINE f == [k \in 0..n |-> h[1..k]]
<1>0. n \in Nat BY <1>1
<1>18. FoldSteps(h, n, Reader, step)
  BY <1>0, <1>2, <1>5, <1>12, FoldStages
<1>13. /\ \A k \in 1..n : h[1..k] = step[k][h[1..(k - 1)]]
       /\ \A k \in 0..n : h[1..k] \in Reader
       /\ 1..0 = {}
  BY <1>18 DEF FoldSteps
<1>14. f \in [0..n -> Reader] BY <1>13
<1>15. f[0] = base BY <1>1, <1>12, <1>13 DEF FoldGoes
<1>16. ASSUME NEW k \in 1..n PROVE f[k] = e(f[k - 1], k)
  <2>1. k \in 0..n /\ k - 1 \in 0..n BY <1>1
  <2> QED BY <1>6, <1>13, <2>1
<1>17. Played(buf, d) = f[n] BY <1>1, <1>4
<1> HIDE DEF f
<1> QED BY <1>14, <1>15, <1>16, <1>17 DEF e, n, base

\* Nothing, and one command more at the end.
LEMMA PlayedEmpty ==
    ASSUME NEW d \in Nat
    PROVE  Played(<<>>, d) = Progress0(d)
<1>1. <<>> \in Seq(Item) /\ Len(<<>>) = 0 OBVIOUS
<1> QED BY <1>1, PlayedStages

LEMMA PlayedType ==
    ASSUME NEW buf \in Seq(Item), NEW d \in Nat
    PROVE  Played(buf, d) \in Reader
<1>1. PICK f \in [0..Len(buf) -> Reader] : Played(buf, d) = f[Len(buf)]
  BY PlayedStages
<1>2. Len(buf) \in 0..Len(buf) OBVIOUS
<1> QED BY <1>1, <1>2

LEMMA PlayedAppend ==
    ASSUME NEW buf \in Seq(Item), NEW x \in Item, NEW d \in Nat
    PROVE  Played(Append(buf, x), d) = Executed(Played(buf, d), x)
<1> DEFINE n == Len(buf)
           more == Append(buf, x)
<1>1. /\ more \in Seq(Item) /\ Len(more) = n + 1 /\ n \in Nat
      /\ more[n + 1] = x /\ \A k \in 1..n : more[k] = buf[k]
  OBVIOUS
<1>2. PICK f \in [0..n -> Reader] :
        /\ f[0] = Progress0(d)
        /\ \A k \in 1..n : f[k] = Executed(f[k - 1], buf[k])
        /\ Played(buf, d) = f[n]
  BY PlayedStages
<1> HIDE DEF more
<1>3. PICK g \in [0..Len(more) -> Reader] :
        /\ g[0] = Progress0(d)
        /\ \A k \in 1..Len(more) : g[k] = Executed(g[k - 1], more[k])
        /\ Played(more, d) = g[Len(more)]
  BY <1>1, PlayedStages
<1> HIDE DEF n
<1> DEFINE P == {k \in Nat : k <= n => f[k] = g[k]}
<1>4. 0 \in P BY <1>2, <1>3
<1>5. ASSUME NEW k \in P PROVE k + 1 \in P
  <2> SUFFICES ASSUME k + 1 <= n PROVE f[k + 1] = g[k + 1] OBVIOUS
  <2>1. /\ k \in Nat /\ k + 1 \in 1..n /\ k + 1 \in 1..(n + 1)
        /\ (k + 1) - 1 = k /\ f[k] = g[k]
    BY <1>1
  <2> HIDE DEF P
  <2>2. f[k + 1] = Executed(f[k], buf[k + 1]) BY <1>2, <2>1
  <2>3. g[k + 1] = Executed(g[k], more[k + 1]) BY <1>1, <1>3, <2>1
  <2> QED BY <1>1, <2>1, <2>2, <2>3
<1>6. P = Nat BY <1>4, <1>5, NatSet
<1>7. f[n] = g[n] BY <1>1, <1>6
<1>8. n + 1 \in 1..(n + 1) /\ (n + 1) - 1 = n BY <1>1
<1>9. g[n + 1] = Executed(g[n], x) BY <1>1, <1>3, <1>8
<1> QED BY <1>1, <1>2, <1>3, <1>7, <1>9 DEF more

\* Appending to the end, and to a concatenation.
LEMMA AppendConcat ==
    ASSUME NEW S, NEW a \in Seq(S), NEW b \in Seq(S), NEW z \in S
    PROVE  Append(a \o b, z) = a \o Append(b, z)
OBVIOUS

LEMMA AppendConcatData ==
    ASSUME NEW a \in Seq(Datum), NEW b \in Seq(Datum), NEW z \in Datum
    PROVE  Append(a \o b, z) = a \o Append(b, z)
<1>1. ASSUME NEW S, S = Datum PROVE Append(a \o b, z) = a \o Append(b, z)
  <2>1. a \in Seq(S) /\ b \in Seq(S) /\ z \in S BY <1>1
  <2> QED BY <2>1
<1> QED BY <1>1

\* Induction over sequences.
LEMMA SeqSet ==
    ASSUME NEW S, NEW P \in SUBSET Seq(S), <<>> \in P,
           \A s \in P : \A x \in S : Append(s, x) \in P
    PROVE  P = Seq(S)
<1> DEFINE Q == {n \in Nat : \A s \in Seq(S) : Len(s) = n => s \in P}
<1>1. 0 \in Q
  <2>1. \A s \in Seq(S) : Len(s) = 0 => s = <<>> OBVIOUS
  <2> QED BY <2>1
<1>2. ASSUME NEW n \in Q PROVE n + 1 \in Q
  <2> SUFFICES ASSUME NEW s \in Seq(S), Len(s) = n + 1 PROVE s \in P OBVIOUS
  <2>1. n \in Nat /\ \A t \in Seq(S) : Len(t) = n => t \in P OBVIOUS
  <2> HIDE DEF Q
  <2>2. s # <<>> BY <2>1
  <2>3. PICK t \in Seq(S), y \in S : s = Append(t, y)
    BY <2>2, SequenceEmptyOrAppend
  <2>4. Len(Append(t, y)) = Len(t) + 1 OBVIOUS
  <2>5. Len(t) \in Nat OBVIOUS
  <2>6. Len(t) = n BY <2>1, <2>3, <2>4, <2>5
  <2>7. t \in P BY <2>1, <2>6
  <2> QED BY <2>3, <2>7
<1>3. Q = Nat BY <1>1, <1>2, NatSet
<1>4. ASSUME NEW s \in Seq(S) PROVE s \in P
  <2>1. Len(s) \in Q BY <1>3
  <2> QED BY <2>1
<1> QED BY <1>4

\* One command more, after those of q, which are those of v and p.
LEMMA ExecutedAfter ==
    ASSUME NEW v \in Reader, NEW p \in Reader, NEW q \in Reader, NEW y \in Item,
           q = [db |-> p.db, seq |-> v.seq \o p.seq]
    PROVE  Executed(q, y) = [db |-> Executed(p, y).db,
                             seq |-> v.seq \o Executed(p, y).seq]
<1>1. v.seq \in Seq(Datum) /\ p.seq \in Seq(Datum) /\ p.db \in Nat
      /\ y.arg \in Nat /\ y.op \in {"select", "write"}
  BY DEF Reader, Item
<1>2. q.db = p.db /\ q.seq = v.seq \o p.seq OBVIOUS
<1>3. CASE y.op = "select"
  <2>1. /\ Executed(q, y) = [db |-> y.arg, seq |-> q.seq]
        /\ Executed(p, y) = [db |-> y.arg, seq |-> p.seq]
    BY <1>3, ExecutedType
  <2> QED BY <1>2, <2>1
<1>4. CASE y.op = "write"
  <2>1. PICK z \in Datum : z = <<y.arg, p.db>> BY <1>1 DEF Datum
  <2>2. /\ Executed(q, y) = [db |-> q.db, seq |-> Append(q.seq, <<y.arg, q.db>>)]
        /\ Executed(p, y) = [db |-> p.db, seq |-> Append(p.seq, <<y.arg, p.db>>)]
    BY <1>4, ExecutedType
  <2>3. PICK a \in Seq(Datum), b \in Seq(Datum) : a = v.seq /\ b = p.seq BY <1>1
  <2>4. Append(a \o b, z) = a \o Append(b, z) BY AppendConcatData
  <2>5. Executed(p, y) = [db |-> p.db, seq |-> Append(b, z)] BY <2>1, <2>2, <2>3
  <2>6. Executed(q, y) = [db |-> p.db, seq |-> Append(a \o b, z)]
    BY <1>2, <2>1, <2>2, <2>3
  <2> QED BY <2>3, <2>4, <2>5, <2>6
<1> QED BY <1>1, <1>3, <1>4

\* One command more at the beginning.
LEMMA PlayedFirst ==
    ASSUME NEW x \in Item, NEW d \in Nat, NEW b \in Seq(Item)
    PROVE  LET v == Executed(Progress0(d), x)
               p == Played(b, v.db)
           IN  /\ v \in Reader /\ p \in Reader
               /\ Played(<<x>> \o b, d) = [db |-> p.db, seq |-> v.seq \o p.seq]
<1> DEFINE v == Executed(Progress0(d), x)
           q(c) == Played(<<x>> \o c, d)
           p(c) == Played(c, v.db)
           P == {c \in Seq(Item) : q(c) = [db |-> p(c).db, seq |-> v.seq \o p(c).seq]}
<1>1. Progress0(d) \in Reader BY DEF Progress0, Reader
<1>2. v \in Reader BY <1>1, ExecutedType
<1>3. v.db \in Nat /\ v.seq \in Seq(Datum) BY <1>2 DEF Reader
<1>4. \A c \in Seq(Item) : p(c) \in Reader BY <1>3, PlayedType
<1> HIDE DEF v
<1>5. <<>> \in P
  <2>1. <<x>> \o <<>> = Append(<<>>, x) /\ <<>> \in Seq(Item) OBVIOUS
  <2>2. q(<<>>) = Executed(Played(<<>>, d), x) BY <2>1, PlayedAppend
  <2>3. q(<<>>) = v BY <2>2, PlayedEmpty DEF v
  <2>4. p(<<>>) = Progress0(v.db) BY <1>3, PlayedEmpty
  <2>5. p(<<>>).db = v.db /\ p(<<>>).seq = <<>> BY <2>4 DEF Progress0
  <2>6. v.seq \o <<>> = v.seq BY <1>3
  <2>7. v = [db |-> v.db, seq |-> v.seq] BY <1>2 DEF Reader
  <2> HIDE DEF q, p
  <2>8. q(<<>>) = [db |-> p(<<>>).db, seq |-> v.seq \o p(<<>>).seq]
    BY <2>3, <2>5, <2>6, <2>7
  <2> QED BY <2>1, <2>8
<1>6. ASSUME NEW c \in P, NEW y \in Item PROVE Append(c, y) \in P
  <2>0. c \in Seq(Item) /\ <<x>> \in Seq(Item) OBVIOUS
  <2>1. /\ Append(c, y) \in Seq(Item)
        /\ <<x>> \o c \in Seq(Item)
        /\ <<x>> \o Append(c, y) = Append(<<x>> \o c, y)
    BY <2>0, AppendConcat
  <2>2. q(c) = [db |-> p(c).db, seq |-> v.seq \o p(c).seq] OBVIOUS
  <2>3. q(Append(c, y)) = Executed(q(c), y) BY <2>0, <2>1, PlayedAppend
  <2>4. p(Append(c, y)) = Executed(p(c), y) BY <1>3, <2>0, PlayedAppend
  <2>5. q(c) \in Reader BY <2>0, <2>1, PlayedType
  <2>6. p(c) \in Reader BY <1>4, <2>0
  <2>7. Executed(q(c), y) = [db |-> Executed(p(c), y).db,
                             seq |-> v.seq \o Executed(p(c), y).seq]
    BY <1>2, <2>2, <2>5, <2>6, ExecutedAfter
  <2>8. q(Append(c, y)) = [db |-> p(Append(c, y)).db,
                           seq |-> v.seq \o p(Append(c, y)).seq]
    BY <2>3, <2>4, <2>7
  <2> HIDE DEF q, p
  <2> QED BY <2>1, <2>8
<1>7. P \in SUBSET Seq(Item) OBVIOUS
<1> HIDE DEF P
<1>8. P = Seq(Item) BY <1>5, <1>6, <1>7, SeqSet
<1>9. b \in P BY <1>8
<1>10. q(b) = [db |-> p(b).db, seq |-> v.seq \o p(b).seq] BY <1>9 DEF P
<1> QED BY <1>2, <1>4, <1>10 DEF v

-----------------------------------------------------------------------------
(* The stream of a connection                                              *)

\* A client in database d, and a master that took it to be in database sel.
Tuned(d, sel, dbs) == d = sel \/ (sel = 0 /\ 0 \notin dbs)

Data(dbs) == Nat \X dbs

\* The commands of k, read in database d, lead from one dataset to the other,
\* unless k is late, and the next SELECT will be sent when it is needed.
Stream(k, d, from, to, dbs) ==
    /\ Played(k.buf, d).seq \in Seq(Data(dbs))
    /\ Played(k.buf, d).db \in dbs \cup {0}
    /\ k.mopen => /\ k.late \/ to = from \o Played(k.buf, d).seq
                  /\ Tuned(Played(k.buf, d).db, k.seldb, dbs)

LEMMA StreamEmpty ==
    ASSUME NEW k, k.buf = <<>>, k.seldb = 0, NEW to \in Seq(Datum), NEW dbs
    PROVE  Stream(k, 0, to, to, dbs)
<1>1. Played(k.buf, 0) = Progress0(0) BY PlayedEmpty
<1>2. Played(k.buf, 0).seq = <<>> /\ Played(k.buf, 0).db = 0
  BY <1>1 DEF Progress0
<1>3. <<>> \in Seq(Data(dbs)) OBVIOUS
<1>4. to \o <<>> = to BY ConcatEmptySeq
<1> QED BY <1>2, <1>3, <1>4 DEF Stream, Tuned

LEMMA StreamLate ==
    ASSUME NEW k, k.late, k.buf = <<>>, k.seldb = 0, NEW from, NEW to, NEW dbs
    PROVE  Stream(k, 0, from, to, dbs)
<1>1. Played(k.buf, 0) = Progress0(0) BY PlayedEmpty
<1>2. Played(k.buf, 0).seq = <<>> /\ Played(k.buf, 0).db = 0
  BY <1>1 DEF Progress0
<1>3. <<>> \in Seq(Data(dbs)) OBVIOUS
<1> QED BY <1>2, <1>3 DEF Stream, Tuned

\* Another connection with the same buffer.
LEMMA StreamCopied ==
    ASSUME NEW k, NEW y, NEW from, NEW to, NEW dbs,
           k.mopen, Stream(k, 0, from, to, dbs),
           y.buf = k.buf, y.seldb = 0, y.late = k.late,
           dbs \subseteq {0} \/ 0 \notin dbs \/ k.seldb = 0
    PROVE  Stream(y, 0, from, to, dbs)
BY DEF Stream, Tuned

LEMMA StreamSame ==
    ASSUME NEW k, NEW y, NEW d, NEW from, NEW to, NEW dbs, NEW begin, NEW end,
           Stream(k, d, from, to, dbs), y.buf = k.buf, y.seldb = k.seldb,
           y.late = k.late,
           y.mopen => k.mopen /\ (k.late \/ (begin = from /\ end = to))
    PROVE  Stream(y, d, begin, end, dbs)
BY DEF Stream

\* Executing one command or two.
LEMMA PlayedWrite ==
    ASSUME NEW b \in Seq(Item), NEW e \in Nat, NEW d \in Nat, NEW w \in Nat
    PROVE  /\ Played(Append(b, Command(w)), e) =
                [db |-> Played(b, e).db,
                 seq |-> Append(Played(b, e).seq, <<w, Played(b, e).db>>)]
           /\ Played(Append(b, Select(d)), e) = [db |-> d, seq |-> Played(b, e).seq]
<1>1. /\ Command(w) \in Item /\ Command(w).op = "write" /\ Command(w).arg = w
      /\ Select(d) \in Item /\ Select(d).op = "select" /\ Select(d).arg = d
  BY DEF Command, Select, Item
<1>2. Played(b, e) \in Reader BY PlayedType
<1>3. Played(Append(b, Command(w)), e) = Executed(Played(b, e), Command(w))
  BY <1>1, PlayedAppend
<1>4. Played(Append(b, Select(d)), e) = Executed(Played(b, e), Select(d))
  BY <1>1, PlayedAppend
<1>5. Executed(Played(b, e), Select(d)) = [db |-> d, seq |-> Played(b, e).seq]
  BY <1>1, <1>2, ExecutedType
<1>6. Executed(Played(b, e), Command(w)) =
        [db |-> Played(b, e).db, seq |-> Append(Played(b, e).seq, <<w, Played(b, e).db>>)]
  BY <1>1, <1>2, ExecutedType
<1> QED BY <1>3, <1>4, <1>5, <1>6

\* A buffer with one write more.
More(b, sel, d, w) ==
    b \o (IF sel # d THEN <<Select(d)>> ELSE <<>>) \o <<Command(w)>>

LEMMA PlayedMore ==
    ASSUME NEW b \in Seq(Item), NEW e \in Nat, NEW d \in Nat, NEW w \in Nat, NEW sel,
           sel = d => Played(b, e).db = d
    PROVE  Played(More(b, sel, d, w), e) =
             [db |-> d, seq |-> Append(Played(b, e).seq, <<w, d>>)]
<1>1. Select(d) \in Item /\ Command(w) \in Item BY DEF Command, Select, Item
<1>2. CASE sel # d
  <2>0. Append(b, Select(d)) \in Seq(Item) BY <1>1, AppendProperties
  <2>1. PICK a \in Seq(Item) : a = Append(b, Select(d)) BY <2>0
  <2>2. a = b \o <<Select(d)>> BY <1>1, <2>1, AppendIsConcat
  <2>3. Append(a, Command(w)) = a \o <<Command(w)>> BY <1>1, AppendIsConcat
  <2>4. More(b, sel, d, w) = Append(a, Command(w)) BY <1>2, <2>2, <2>3 DEF More
  <2>5. Played(a, e) = [db |-> d, seq |-> Played(b, e).seq] BY <2>1, PlayedWrite
  <2>6. Played(a, e).db = d /\ Played(a, e).seq = Played(b, e).seq BY <2>5
  <2>7. Played(Append(a, Command(w)), e) =
          [db |-> Played(a, e).db,
           seq |-> Append(Played(a, e).seq, <<w, Played(a, e).db>>)]
    BY PlayedWrite
  <2> QED BY <2>4, <2>6, <2>7
<1>3. CASE sel = d
  <2>1. b \o <<>> = b BY ConcatEmptySeq
  <2>2. Append(b, Command(w)) = b \o <<Command(w)>> BY <1>1, AppendIsConcat
  <2>3. More(b, sel, d, w) = Append(b, Command(w)) BY <1>3, <2>1, <2>2 DEF More
  <2>4. Played(b, e).db = d BY <1>3
  <2> QED BY <2>3, <2>4, PlayedWrite
<1> QED BY <1>2, <1>3

\* The master writes and feeds the connection.
LEMMA StreamFed ==
    ASSUME NEW k, NEW y, k.buf \in Seq(Item), NEW dbs \in SUBSET Nat,
           NEW e \in Nat, NEW d \in dbs, NEW w \in Nat,
           NEW from \in Seq(Datum), NEW to,
           k.mopen, Stream(k, e, from, to, dbs),
           y.buf = More(k.buf, k.seldb, d, w), y.seldb = d, y.late = k.late
    PROVE  Stream(y, e, from, Append(to, <<w, d>>), dbs)
<1> DEFINE p == Played(k.buf, e)
           q == Played(y.buf, e)
<1>1. p \in Reader BY PlayedType
<1>2. p.seq \in Seq(Datum) BY <1>1 DEF Reader
<1>3. /\ p.seq \in Seq(Data(dbs)) /\ Tuned(p.db, k.seldb, dbs)
      /\ k.late \/ to = from \o p.seq
  BY DEF Stream
<1>4. k.seldb = d => p.db = d BY <1>3 DEF Tuned
<1>13. d \in Nat OBVIOUS
<1>14. Played(More(k.buf, k.seldb, d, w), e) =
         [db |-> d, seq |-> Append(Played(k.buf, e).seq, <<w, d>>)]
  <2>1. ASSUME NEW b \in Seq(Item), NEW sel, sel = d => Played(b, e).db = d
        PROVE  Played(More(b, sel, d, w), e) =
                 [db |-> d, seq |-> Append(Played(b, e).seq, <<w, d>>)]
    BY <1>13, <2>1, PlayedMore
  <2> QED BY <1>4, <2>1
<1>5. q = [db |-> d, seq |-> Append(p.seq, <<w, d>>)] BY <1>14
<1> HIDE DEF p, q
<1>6. q.db = d /\ q.seq = Append(p.seq, <<w, d>>) BY <1>5
<1>7. PICK z : z \in Data(dbs) /\ z \in Datum /\ z = <<w, d>> BY DEF Data, Datum
<1>8. Append(p.seq, z) \in Seq(Data(dbs)) BY <1>3, <1>7
<1>9. Append(from \o p.seq, z) = from \o Append(p.seq, z)
  BY <1>2, <1>7, AppendConcatData
<1>10. q.seq \in Seq(Data(dbs)) BY <1>6, <1>7, <1>8
<1>11. k.late \/ Append(to, <<w, d>>) = from \o q.seq BY <1>3, <1>6, <1>7, <1>9
<1>12. Tuned(q.db, y.seldb, dbs) BY <1>6 DEF Tuned
<1> QED BY <1>6, <1>10, <1>11, <1>12 DEF Stream, q

\* A sequence that begins with z.
LEMMA BeginsWith ==
    ASSUME NEW S, NEW T, NEW z \in S, NEW q \in Seq(S), <<z>> \o q \in Seq(T)
    PROVE  z \in T /\ q \in Seq(T)
<1> DEFINE r == <<z>> \o q
<1>1. <<z>> \in Seq(S) /\ Len(<<z>>) = 1 OBVIOUS
<1>2. Len(r) = Len(q) + 1 /\ r[1] = z /\ \A i \in 1..Len(q) : r[i + 1] = q[i]
  BY <1>1, ConcatProperties
<1>3. r \in Seq(T) OBVIOUS
<1> HIDE DEF r
<1>4. \A i \in 1..Len(q) : i + 1 \in 1..Len(r) BY <1>2
<1>5. \A i \in 1..Len(r) : r[i] \in T BY <1>3
<1>6. \A i \in 1..Len(q) : q[i] \in T BY <1>2, <1>4, <1>5
<1>7. 1 \in 1..Len(r) BY <1>2
<1>8. z \in T BY <1>2, <1>5, <1>7
<1>9. \A i \in 1..Len(q) : q[i] \in T BY <1>6
<1> QED BY <1>8, <1>9

LEMMA HeadFirst ==
    ASSUME NEW S, NEW q \in Seq(S), q # <<>>
    PROVE  /\ Head(q) \in S /\ Tail(q) \in Seq(S) /\ q = <<Head(q)>> \o Tail(q)
<1>1. Head(q) \in S /\ Tail(q) \in Seq(S) BY HeadTailProperties
<1> DEFINE r == <<Head(q)>> \o Tail(q)
<1>2. r \in Seq(S) /\ Len(r) = Len(q) /\ \A i \in 1..Len(q) : r[i] = q[i]
  OBVIOUS
<1> HIDE DEF r
<1>3. r = q BY <1>2, SeqEqual
<1> QED BY <1>1, <1>3 DEF r

\* What from, one write and the rest make.
LEMMA WriteBeginning ==
    ASSUME NEW from \in Seq(Datum), NEW z \in Datum, NEW q \in Seq(Datum)
    PROVE  from \o (<<z>> \o q) = Append(from, z) \o q
<1>1. ASSUME NEW S, S = Datum
      PROVE  from \o (<<z>> \o q) = Append(from, z) \o q
  <2>1. from \in Seq(S) /\ q \in Seq(S) /\ z \in S /\ <<z>> \in Seq(S) BY <1>1
  <2>2. Append(from, z) = from \o <<z>> BY <2>1
  <2>3. (from \o <<z>>) \o q = from \o (<<z>> \o q) BY <2>1
  <2> QED BY <2>2, <2>3
<1> QED BY <1>1

LEMMA WriteDatum ==
    ASSUME NEW w \in Nat, NEW d \in Nat
    PROVE  \E z \in Datum : z = <<w, d>>
BY DEF Datum

\* The slave executes a command of the connection.
LEMMA StreamRead ==
    ASSUME NEW k, NEW y, k.buf \in Seq(Item), k.buf # <<>>, NEW dbs \in SUBSET Nat,
           NEW d \in Nat, NEW from \in Seq(Datum), NEW to,
           Stream(k, d, from, to, dbs),
           y.buf = Tail(k.buf), y.seldb = k.seldb, y.mopen = k.mopen, y.late = k.late
    PROVE  LET i == Head(k.buf)
           IN  /\ i.op = "select" => Stream(y, i.arg, from, to, dbs)
               /\ i.op = "write" => /\ d \in dbs
                                    /\ Stream(y, d, Append(from, <<i.arg, d>>), to, dbs)
<1>0. /\ Head(k.buf) \in Item /\ Tail(k.buf) \in Seq(Item)
      /\ k.buf = <<Head(k.buf)>> \o Tail(k.buf)
  BY HeadFirst
<1>1. PICK i \in Item, b \in Seq(Item) :
        i = Head(k.buf) /\ b = Tail(k.buf) /\ k.buf = <<i>> \o b
  BY <1>0
<1> DEFINE p == Played(k.buf, d)
           v == Executed(Progress0(d), i)
           q == Played(b, v.db)
<1>2. v \in Reader /\ q \in Reader /\ p = [db |-> q.db, seq |-> v.seq \o q.seq]
  BY <1>1, PlayedFirst
<1>3. Progress0(d) \in Reader /\ Progress0(d).db = d /\ Progress0(d).seq = <<>>
  BY DEF Progress0, Reader
<1>4. y.buf = b BY <1>1
<1>5. /\ p.seq \in Seq(Data(dbs)) /\ p.db \in dbs \cup {0}
      /\ k.mopen => (k.late \/ to = from \o p.seq) /\ Tuned(p.db, k.seldb, dbs)
  BY DEF Stream
<1> HIDE DEF p
<1>6. p.db = q.db /\ p.seq = v.seq \o q.seq BY <1>2
<1>7. q.seq \in Seq(Datum) /\ i.arg \in Nat BY <1>2 DEF Reader, Item
<1>8. CASE i.op = "select"
  <2>1. v = [db |-> i.arg, seq |-> <<>>] BY <1>3, <1>8, ExecutedType
  <2>2. v.db = i.arg /\ v.seq = <<>> BY <2>1
  <2>3. p.seq = q.seq BY <1>6, <1>7, <2>2, ConcatEmptySeq
  <2>4. q = Played(y.buf, i.arg) BY <1>4, <2>2
  <2> HIDE DEF q, v
  <2>5. Stream(y, i.arg, from, to, dbs) BY <1>5, <1>6, <2>3, <2>4 DEF Stream
  <2> QED BY <1>1, <1>8, <2>5
<1>9. CASE i.op = "write"
  <2>1. v = [db |-> d, seq |-> Append(<<>>, <<i.arg, d>>)] BY <1>3, <1>9, ExecutedType
  <2>2. PICK z : z = <<i.arg, d>> /\ z \in Datum BY <1>7, WriteDatum
  <2>3. v.db = d /\ v.seq = <<z>> BY <2>1, <2>2
  <2>4. q = Played(y.buf, d) BY <1>4, <2>3
  <2> HIDE DEF q, v
  <2>5. z \in Data(dbs) /\ q.seq \in Seq(Data(dbs))
    BY <1>5, <1>6, <1>7, <2>2, <2>3, BeginsWith
  <2>6. d \in dbs BY <2>2, <2>5 DEF Data
  <2>7. from \o p.seq = Append(from, z) \o q.seq
    <3>1. z \in Datum /\ p.seq = <<z>> \o q.seq BY <1>6, <2>2, <2>3
    <3>2. PICK s \in Seq(Datum) : s = q.seq BY <1>7
    <3>3. from \o (<<z>> \o s) = Append(from, z) \o s
      BY <3>1, WriteBeginning
    <3> QED BY <3>1, <3>2, <3>3
  <2>8. Stream(y, d, Append(from, z), to, dbs)
    BY <1>5, <1>6, <2>4, <2>5, <2>7 DEF Stream
  <2> QED BY <1>1, <1>5, <1>9, <2>2, <2>6, <2>7, <2>8
<1>10. i.op = "select" \/ i.op = "write" BY DEF Item
<1> QED BY <1>8, <1>9, <1>10

-----------------------------------------------------------------------------
(* The invariant of the streams                                            *)

\* The slave has yet to load a file.
Unread(k) == k.st = "end" \/ (k.st \in {"bulk", "online"} /\ k.bulk # None)
File(k, ch) ==
    IF k.late THEN <<>> ELSE IF k.st = "end" THEN ch[k.master] ELSE k.bulk

\* The slave executes what it gets.
Live(k, r) == k.sopen /\ r[k.slave] = "connected"

\* The file, or the dataset of the slave, and the commands in the buffer make
\* the dataset of the master, which is another server.  Of a late connection
\* only the databases of its commands are known, whatever the file.
Good(k, dt, ch, r, md, dbs) ==
    /\ Unread(k) => Stream(k, 0, File(k, ch), dt[k.master], dbs)
    /\ Live(k, r) => /\ k.st = "online" /\ k.bulk = None
                     /\ k.mopen => k.master # k.slave
                     /\ Stream(k, md[k.slave], dt[k.slave], dt[k.master], dbs)
    /\ k.st = "start" => k.buf = <<>> /\ k.seldb = 0

Streams == \A c \in Conn : Good(conn[c], data, child, rs, mdb, left.db)

\* Only a server without a master, or with its master's data, has slaves.
Client(k) == k.mopen /\ k.st \in {"start", "end", "bulk", "online"}
Welcome == \A c \in Conn : Client(conn[c]) => MaySync(conn[c].master)

SInv == IInv /\ Streams /\ Welcome

\* No end of the connection opens, and what it carries is the same or is gone.
Idle(k) == k.st \in {"free", "new", "asked", "refused", "closed"}
Faded(x, y) ==
    /\ y.sopen => x.sopen /\ y.slave = x.slave
    /\ y.mopen => x.mopen /\ y.master = x.master
    /\ \/ Idle(y) /\ (x.st = "online" => ~y.sopen)
       \/ /\ y.st = x.st /\ y.buf = x.buf /\ y.seldb = x.seldb /\ y.bulk = x.bulk
          /\ y.late = x.late

LEMMA GoodIdle ==
    ASSUME NEW k, NEW dt, NEW ch, NEW r, NEW md, NEW dbs, Idle(k), ~Live(k, r)
    PROVE  Good(k, dt, ch, r, md, dbs)
BY DEF Good, Idle, Unread

LEMMA GoodFaded ==
    ASSUME NEW x, NEW y, NEW dt, NEW dt2, NEW ch, NEW ch2, NEW r, NEW r2,
           NEW md, NEW md2, NEW dbs,
           Good(x, dt, ch, r, md, dbs), Faded(x, y),
           x.st = "end" /\ x.mopen /\ ~x.late => ch2[x.master] = ch[x.master],
           x.st \in Sent /\ x.mopen => dt2[x.master] = dt[x.master],
           Live(x, r2) => /\ r[x.slave] = "connected"
                          /\ md2[x.slave] = md[x.slave] /\ dt2[x.slave] = dt[x.slave]
    PROVE  Good(y, dt2, ch2, r2, md2, dbs)
<1>1. Live(y, r2) => Live(x, r2) /\ Live(x, r) BY DEF Live, Faded
<1>2. CASE Idle(y) /\ (x.st = "online" => ~y.sopen)
  <2>1. ~Live(y, r2) BY <1>1, <1>2 DEF Good, Live
  <2> QED BY <1>2, <2>1, GoodIdle
<1>3. CASE /\ y.st = x.st /\ y.buf = x.buf /\ y.seldb = x.seldb /\ y.bulk = x.bulk
           /\ y.late = x.late
  <2>1. ASSUME Unread(y) PROVE Stream(y, 0, File(y, ch2), dt2[y.master], dbs)
    <3>1. Unread(x) /\ x.st \in Sent BY <1>3, <2>1 DEF Unread, Sent
    <3>2. Stream(x, 0, File(x, ch), dt[x.master], dbs) BY <3>1 DEF Good
    <3>3. y.mopen => x.mopen /\ File(y, ch2) = File(x, ch)
                     /\ dt2[y.master] = dt[x.master]
      BY <1>3, <3>1 DEF File, Faded
    <3> QED BY <1>3, <3>2, <3>3, StreamSame
  <2>2. ASSUME Live(y, r2)
        PROVE  /\ y.st = "online" /\ y.bulk = None
               /\ y.mopen => y.master # y.slave
               /\ Stream(y, md2[y.slave], dt2[y.slave], dt2[y.master], dbs)
    <3>1. Live(x, r2) /\ Live(x, r) /\ y.slave = x.slave BY <1>1, <2>2 DEF Live, Faded
    <3>2. /\ x.st = "online" /\ x.bulk = None
          /\ x.mopen => x.master # x.slave
          /\ Stream(x, md[x.slave], dt[x.slave], dt[x.master], dbs)
      BY <3>1 DEF Good
    <3>3. md2[y.slave] = md[x.slave] /\ dt2[y.slave] = dt[x.slave] BY <3>1
    <3>4. y.mopen => x.mopen /\ dt2[y.master] = dt[x.master]
      BY <3>2 DEF Sent, Faded
    <3>5. Stream(y, md[x.slave], dt[x.slave], dt2[y.master], dbs)
      BY <1>3, <3>2, <3>4, StreamSame
    <3>6. y.mopen => y.master # y.slave BY <3>1, <3>2 DEF Faded
    <3> QED BY <1>3, <3>2, <3>3, <3>5, <3>6
  <2>3. y.st = "start" => y.buf = <<>> /\ y.seldb = 0 BY <1>3 DEF Good
  <2> QED BY <2>1, <2>2, <2>3 DEF Good
<1> QED BY <1>2, <1>3 DEF Faded

LEMMA GoodSame ==
    ASSUME NEW x, NEW dt, NEW dt2, NEW ch, NEW r, NEW md, NEW dbs,
           Good(x, dt, ch, r, md, dbs),
           x.st \in Sent /\ x.mopen => dt2[x.master] = dt[x.master],
           Live(x, r) => dt2[x.slave] = dt[x.slave]
    PROVE  Good(x, dt2, ch, r, md, dbs)
<1>1. Faded(x, x) BY DEF Faded
<1>2. Live(x, r) => r[x.slave] = "connected" BY DEF Live
<1> QED BY <1>1, <1>2, GoodFaded

\* Closing ends.
LEMMA FadedTwice ==
    ASSUME NEW x, NEW y, NEW z, Faded(x, y), Faded(y, z)
    PROVE  Faded(x, z)
BY DEF Faded, Idle

LEMMA FadedSame == ASSUME NEW x PROVE Faded(x, x)
BY DEF Faded

LEMMA FadedClient ==
    ASSUME NEW x, NEW y, Faded(x, y), Client(y)
    PROVE  Client(x) /\ y.master = x.master
BY DEF Faded, Client, Idle

LEMMA CloseMasterFades ==
    ASSUME NEW cn \in [Conn -> Connection], NEW C, NEW c \in Conn
    PROVE  /\ Faded(cn[c], CloseMaster(cn, C)[c])
           /\ c \in C => ~CloseMaster(cn, C)[c].mopen
<1> DEFINE x == cn[c]
           y == CloseMaster(cn, C)[c]
<1>1. x \in Connection OBVIOUS
<1>2. y = IF c \notin C THEN x
          ELSE IF ~x.sopen THEN Free
          ELSE [x EXCEPT !.mopen = FALSE, !.st = IF @ = "online" THEN @ ELSE "closed"]
  BY DEF CloseMaster
<1> HIDE DEF x, y
<1>3. CASE c \notin C BY <1>2, <1>3, FadedSame DEF x, y
<1>4. CASE c \in C /\ ~x.sopen
  <2>1. y = Free BY <1>2, <1>4
  <2>2. Free.st = "free" BY DEF Free
  <2> QED BY <2>1, <2>2, FreeType DEF Faded, Idle, x, y
<1>5. CASE c \in C /\ x.sopen
  <2>1. y = [x EXCEPT !.mopen = FALSE, !.st = IF @ = "online" THEN @ ELSE "closed"]
    BY <1>2, <1>5
  <2>2. /\ y.sopen = x.sopen /\ y.slave = x.slave /\ ~y.mopen
        /\ y.buf = x.buf /\ y.seldb = x.seldb /\ y.bulk = x.bulk /\ y.late = x.late
        /\ y.st = IF x.st = "online" THEN "online" ELSE "closed"
    BY <1>1, <2>1 DEF Connection
  <2>3. Faded(x, y) BY <2>2 DEF Faded, Idle
  <2> QED BY <1>5, <2>2, <2>3 DEF x, y
<1> QED BY <1>3, <1>4, <1>5

LEMMA CloseSlaveFades ==
    ASSUME NEW cn \in [Conn -> Connection], NEW k \in Conn \cup {None}, NEW c \in Conn
    PROVE  Faded(cn[c], CloseSlave(cn, k)[c])
<1>1. CASE k = None BY <1>1, FadedSame DEF CloseSlave
<1>2. CASE k \in Conn /\ c # k BY <1>2, CloseSlaveKeeps, FadedSame
<1>3. CASE k \in Conn /\ c = k
  <2> DEFINE x == cn[k]
             y == CloseSlave(cn, k)[k]
  <2>0. k # None /\ x \in Connection BY <1>3, ReplicationConstants
  <2>1. y = IF x.mopen THEN [x EXCEPT !.sopen = FALSE] ELSE Free
    BY <1>3, <2>0 DEF CloseSlave
  <2> HIDE DEF x, y
  <2>2. CASE x.mopen
    <3>1. y = [x EXCEPT !.sopen = FALSE] BY <2>1, <2>2
    <3>2. /\ ~y.sopen /\ y.mopen = x.mopen /\ y.master = x.master
          /\ y.buf = x.buf /\ y.seldb = x.seldb /\ y.bulk = x.bulk /\ y.st = x.st
          /\ y.late = x.late
      BY <2>0, <3>1 DEF Connection
    <3> QED BY <1>3, <3>2 DEF Faded, x, y
  <2>3. CASE ~x.mopen
    <3>1. y = Free /\ Free.st = "free" BY <2>1, <2>3 DEF Free
    <3> QED BY <1>3, <3>1, FreeType DEF Faded, Idle, x, y
  <2> QED BY <2>2, <2>3
<1> QED BY <1>1, <1>2, <1>3

-----------------------------------------------------------------------------
(* What the steps do to the streams                                        *)

LEMMA SInvParts ==
    ASSUME SInv
    PROVE  /\ IInv /\ Owned /\ FileHere /\ Roles /\ Waiting(conn, child)
           /\ \A c \in Conn : Good(conn[c], data, child, rs, mdb, left.db)
           /\ \A c \in Conn : Client(conn[c]) =>
                 conn[c].master \in Node /\ MaySync(conn[c].master)
           /\ left.db \in SUBSET Nat
<1>1. IInv BY DEF SInv
<1>2. left.db \in SUBSET Nat BY <1>1, Types DEF BoundsLeft
<1> QED BY <1>1, <1>2 DEF SInv, IInv, Streams, Welcome, Client, MastersKnown

\* Where a slave is.
LEMMA LiveSlave ==
    ASSUME SInv, NEW c \in Conn, Live(conn[c], rs)
    PROVE  /\ conn[c].slave \in Node /\ cur[conn[c].slave] = c
           /\ host[conn[c].slave] # None
<1>1. conn[c].slave \in Node /\ cur[conn[c].slave] = c
  BY SInvParts DEF Live, Owned
<1> QED BY <1>1, SInvParts DEF Roles, Live

\* A step that only closes ends, or gives the connection to a slave that does
\* not execute commands.
LEMMA FadeStep ==
    ASSUME SInv,
           \A c \in Conn : \/ Faded(conn[c], conn'[c])
                           \/ Idle(conn'[c]) /\ ~Live(conn'[c], rs'),
           \A m \in Node : child[m] # None => child'[m] = child[m],
           \A m \in Node : MaySync(m) => data'[m] = data[m],
           \A s \in Node : rs'[s] = "connected" =>
               rs[s] = "connected" /\ mdb'[s] = mdb[s] /\ data'[s] = data[s],
           left'.db = left.db
    PROVE  Streams'
<1> SUFFICES ASSUME NEW c \in Conn
             PROVE  Good(conn'[c], data', child', rs', mdb', left.db)
  BY DEF Streams
<1> DEFINE x == conn[c]
           y == conn'[c]
<1>1. Good(x, data, child, rs, mdb, left.db) BY SInvParts
<1>2. Client(x) => x.master \in Node /\ MaySync(x.master) BY SInvParts
<1>3. x.st = "end" /\ x.mopen /\ ~x.late => child[x.master] # None
  BY SInvParts DEF Waiting
<1>4. x.sopen => x.slave \in Node BY SInvParts DEF Owned
<1> HIDE DEF x, y
<1>5. CASE Faded(x, y)
  <2>1. x.st = "end" /\ x.mopen /\ ~x.late => child'[x.master] = child[x.master]
    BY <1>2, <1>3 DEF Client
  <2>2. x.st \in Sent /\ x.mopen => data'[x.master] = data[x.master]
    BY <1>2 DEF Client, Sent
  <2>3. Live(x, rs') => /\ rs[x.slave] = "connected"
                        /\ mdb'[x.slave] = mdb[x.slave] /\ data'[x.slave] = data[x.slave]
    BY <1>4 DEF Live
  <2> QED BY <1>1, <1>5, <2>1, <2>2, <2>3, GoodFaded DEF y
<1>6. CASE Idle(y) /\ ~Live(y, rs') BY <1>6, GoodIdle DEF y
<1> QED BY <1>5, <1>6 DEF x, y

\* The connections that stay clients keep their masters.
LEMMA WelcomeKept ==
    ASSUME SInv,
           \A c \in Conn : Client(conn'[c]) =>
              \/ Client(conn[c]) /\ conn'[c].master = conn[c].master
              \/ host'[conn'[c].master] = None \/ rs'[conn'[c].master] = "connected",
           \A m \in Node : MaySync(m) =>
              \/ host'[m] = None \/ rs'[m] = "connected"
              \/ \A c \in Conn : Client(conn'[c]) => conn'[c].master # m
    PROVE  Welcome'
<1> SUFFICES ASSUME NEW c \in Conn, Client(conn'[c])
             PROVE  host'[conn'[c].master] = None \/ rs'[conn'[c].master] = "connected"
  BY DEF Welcome, MaySync
<1>1. CASE Client(conn[c]) /\ conn'[c].master = conn[c].master
  <2>1. conn[c].master \in Node /\ MaySync(conn[c].master) BY <1>1, SInvParts
  <2> QED BY <1>1, <2>1
<1> QED BY <1>1

\* A connection of n is fed, or is not one of n.
LEMMA GoodFeed ==
    ASSUME SInv, NEW c \in Conn, NEW cn, cn[c] = conn[c],
           NEW n \in Node, NEW d \in left.db, NEW w \in Nat,
           data' = [data EXCEPT ![n] = Append(@, <<w, d>>)],
           child' = child, rs' = rs, mdb' = mdb,
           Live(conn[c], rs) => conn[c].slave # n,
           conn'[c] = replicationFeedSlaves(cn, n, d, w)[c]
    PROVE  Good(conn'[c], data', child', rs', mdb', left.db)
<1> DEFINE x == conn[c]
           y == conn'[c]
           fed == x.mopen /\ x.master = n /\ x.st \in Sent
<1>0. IInv BY SInvParts
<1>1. x \in Connection /\ Good(x, data, child, rs, mdb, left.db)
  BY <1>0, SInvParts, Types
<1>2. y = IF fed THEN [x EXCEPT !.buf = More(@, x.seldb, d, w), !.seldb = d] ELSE x
  BY DEF replicationFeedSlaves, Slaves, Sent, More
<1>3. x.sopen => x.slave \in Node BY SInvParts DEF Owned
<1>4. Client(x) => x.master \in Node BY SInvParts
<1>5. x.st = "end" /\ x.mopen /\ ~x.late => child[x.master] # None
  BY SInvParts DEF Waiting
<1>6. data'[n] = Append(data[n], <<w, d>>) /\ \A m \in Node \ {n} : data'[m] = data[m]
  BY <1>0, Types
<1>7. Live(x, rs) => data'[x.slave] = data[x.slave] BY <1>3, <1>6 DEF Live
<1>8. left.db \in SUBSET Nat BY SInvParts
<1> HIDE DEF x, y
<1>9. CASE ~fed
  <2>1. y = x BY <1>2, <1>9
  <2>2. x.st \in Sent /\ x.mopen => data'[x.master] = data[x.master]
    BY <1>4, <1>6, <1>9 DEF Client, Sent
  <2>3. Good(x, data', child, rs, mdb, left.db) BY <1>1, <1>7, <2>2, GoodSame
  <2> QED BY <2>1, <2>3 DEF y
<1>10. CASE fed
  <2>1. y = [x EXCEPT !.buf = More(@, x.seldb, d, w), !.seldb = d] BY <1>2, <1>10
  <2>2. /\ y.st = x.st /\ y.sopen = x.sopen /\ y.slave = x.slave /\ y.mopen = x.mopen
        /\ y.master = x.master /\ y.bulk = x.bulk
        /\ y.buf = More(x.buf, x.seldb, d, w) /\ y.seldb = d /\ y.late = x.late
    BY <1>1, <2>1 DEF Connection
  <2>3. x.buf \in Seq(Item) /\ x.mopen /\ x.master = n BY <1>1, <1>10 DEF Connection
  <2>4. ASSUME NEW e \in Nat, NEW from \in Seq(Datum),
               Stream(x, e, from, data[x.master], left.db)
        PROVE  Stream(y, e, from, data'[y.master], left.db)
    <3>1. Stream(y, e, from, Append(data[n], <<w, d>>), left.db)
      BY <1>8, <2>2, <2>3, <2>4, StreamFed
    <3> QED BY <1>6, <2>2, <2>3, <3>1
  <2>5. ASSUME Unread(y) PROVE Stream(y, 0, File(y, child'), data'[y.master], left.db)
    <3>1. Unread(x) /\ File(y, child') = File(x, child) BY <2>2, <2>5 DEF Unread, File
    <3>2. Stream(x, 0, File(x, child), data[x.master], left.db) BY <1>1, <3>1 DEF Good
    <3>3. File(x, child) \in Seq(Datum)
      <4>1. CASE x.late
        <5>1. <<>> \in Seq(Datum) OBVIOUS
        <5> QED BY <4>1, <5>1 DEF File
      <4>2. CASE ~x.late /\ x.st = "end"
        <5>1. child[n] \in Seq(Datum) BY <1>0, <1>5, <2>3, <4>2, Types
        <5> QED BY <2>3, <4>2, <5>1 DEF File
      <4>3. CASE ~x.late /\ x.st # "end"
        BY <1>1, <3>1, <4>3 DEF Unread, File, Connection
      <4> QED BY <4>1, <4>2, <4>3
    <3> QED BY <2>4, <3>1, <3>2, <3>3
  <2>6. ASSUME Live(y, rs')
        PROVE  /\ y.st = "online" /\ y.bulk = None
               /\ y.mopen => y.master # y.slave
               /\ Stream(y, mdb'[y.slave], data'[y.slave], data'[y.master], left.db)
    <3>1. Live(x, rs) BY <2>2, <2>6 DEF Live
    <3>2. /\ x.st = "online" /\ x.bulk = None
          /\ x.mopen => x.master # x.slave
          /\ Stream(x, mdb[x.slave], data[x.slave], data[x.master], left.db)
      BY <1>1, <3>1 DEF Good
    <3>3. mdb[x.slave] \in Nat /\ data[x.slave] \in Seq(Datum)
      BY <1>0, <1>3, <3>1, Types DEF Live
    <3>4. Stream(y, mdb[x.slave], data[x.slave], data'[y.master], left.db)
      BY <2>4, <3>2, <3>3
    <3> QED BY <1>7, <2>2, <3>1, <3>2, <3>4
  <2>7. y.st # "start" BY <1>10, <2>2 DEF Sent
  <2> QED BY <2>5, <2>6, <2>7 DEF Good, y
<1> QED BY <1>9, <1>10

LEMMA FedClient ==
    ASSUME NEW cn \in [Conn -> Connection], NEW n, NEW d, NEW w, NEW c \in Conn
    PROVE  LET y == replicationFeedSlaves(cn, n, d, w)[c]
           IN  /\ Client(y) <=> Client(cn[c])
               /\ y.master = cn[c].master
<1> DEFINE x == cn[c]
           y == replicationFeedSlaves(cn, n, d, w)[c]
<1>1. x \in Connection OBVIOUS
<1>2. \/ y = x
      \/ y = [x EXCEPT !.buf = @ \o (IF x.seldb # d THEN <<Select(d)>> ELSE <<>>)
                                 \o <<Command(w)>>, !.seldb = d]
  BY DEF replicationFeedSlaves
<1> HIDE DEF x, y
<1>3. y.mopen = x.mopen /\ y.st = x.st /\ y.master = x.master
  BY <1>1, <1>2 DEF Connection
<1> QED BY <1>3 DEF Client, x, y

LEMMA WriteStreams ==
    ASSUME SInv, NEW n \in Node, NEW d \in left.db, Write(n, d)
    PROVE  Streams' /\ Welcome'
<1>0. IInv BY SInvParts
<1> DEFINE w == left.writes
<1>1. /\ host[n] = None /\ data' = [data EXCEPT ![n] = Append(@, <<w, d>>)]
      /\ conn' = replicationFeedSlaves(conn, n, d, w)
      /\ left' = [left EXCEPT !.writes = @ - 1]
      /\ host' = host /\ rs' = rs /\ mdb' = mdb /\ child' = child
  BY DEF Write
<1>2. w \in Nat /\ left'.db = left.db BY <1>0, <1>1, Types DEF BoundsLeft
<1> HIDE DEF w
<1>3. ASSUME NEW c \in Conn
      PROVE  Good(conn'[c], data', child', rs', mdb', left.db)
  <2>1. Live(conn[c], rs) => conn[c].slave # n BY <1>1, LiveSlave
  <2>2. conn'[c] = replicationFeedSlaves(conn, n, d, w)[c] BY <1>1
  <2> QED BY <1>1, <1>2, <2>1, <2>2, GoodFeed
<1>4. Streams' BY <1>2, <1>3 DEF Streams
<1>5. \A c \in Conn : Client(conn'[c]) =>
        Client(conn[c]) /\ conn'[c].master = conn[c].master
  <2>1. conn \in [Conn -> Connection] BY <1>0, Types
  <2>2. \A c \in Conn : LET y == replicationFeedSlaves(conn, n, d, w)[c]
                        IN  (Client(y) <=> Client(conn[c])) /\ y.master = conn[c].master
    BY <2>1, FedClient
  <2> QED BY <1>1, <2>2
<1>6. Welcome' BY <1>1, <1>5, WelcomeKept DEF MaySync
<1> QED BY <1>4, <1>6

\* A step that is about one connection, or none, and no role.
LEMMA SameWelcome ==
    ASSUME SInv, \A c \in Conn : Client(conn'[c]) =>
                   \/ Client(conn[c]) /\ conn'[c].master = conn[c].master
                   \/ host[conn'[c].master] = None \/ rs[conn'[c].master] = "connected",
           host' = host, rs' = rs
    PROVE  Welcome'
BY WelcomeKept DEF MaySync

LEMMA BgSaveStreams ==
    ASSUME SInv, NEW n \in Node, BgSave(n)
    PROVE  Streams' /\ Welcome'
<1>0. IInv BY SInvParts
<1>1. /\ child[n] = None /\ child' = [child EXCEPT ![n] = data[n]]
      /\ left' = [left EXCEPT !.saves = @ - 1]
      /\ data' = data /\ host' = host /\ rs' = rs /\ mdb' = mdb /\ conn' = conn
  BY DEF BgSave
<1>2. left'.db = left.db BY <1>0, <1>1, Types DEF BoundsLeft
<1>3. \A m \in Node : child[m] # None => child'[m] = child[m] BY <1>0, <1>1, Types
<1>4. \A c \in Conn : Faded(conn[c], conn'[c]) BY <1>1, FadedSame
<1>5. Streams' BY <1>1, <1>2, <1>3, <1>4, FadeStep
<1>6. Welcome' BY <1>1, <1>4, SameWelcome
<1> QED BY <1>5, <1>6

LEMMA SendBulkStreams ==
    ASSUME SInv, NEW k \in Conn, SendBulk(k)
    PROVE  Streams' /\ Welcome'
<1>0. IInv BY SInvParts
<1> DEFINE x == conn[k]
           z == [x EXCEPT !.st = "online"]
<1>1. /\ x.st = "bulk" /\ conn' = [conn EXCEPT ![k] = z]
      /\ data' = data /\ host' = host /\ rs' = rs /\ mdb' = mdb
      /\ child' = child /\ left' = left
  BY DEF SendBulk
<1>2. x \in Connection /\ Good(x, data, child, rs, mdb, left.db)
  BY <1>0, SInvParts, Types
<1> HIDE DEF x
<1>3. /\ z.st = "online" /\ z.sopen = x.sopen /\ z.slave = x.slave
      /\ z.mopen = x.mopen /\ z.master = x.master /\ z.bulk = x.bulk
      /\ z.buf = x.buf /\ z.seldb = x.seldb /\ z.late = x.late
  BY <1>2 DEF Connection
<1> HIDE DEF z
<1>4. conn'[k] = z /\ \A c \in Conn \ {k} : conn'[c] = conn[c]
  BY <1>0, <1>1, Types
<1>5. Good(z, data, child, rs, mdb, left.db)
  <2>1. ~Live(z, rs) BY <1>1, <1>2, <1>3 DEF Live, Good
  <2>2. ASSUME Unread(z) PROVE Stream(z, 0, File(z, child), data[z.master], left.db)
    <3>1. Unread(x) /\ File(z, child) = File(x, child)
      BY <1>1, <1>3, <2>2 DEF Unread, File
    <3>2. Stream(x, 0, File(x, child), data[x.master], left.db) BY <1>2, <3>1 DEF Good
    <3> QED BY <1>3, <3>1, <3>2, StreamSame
  <2> QED BY <1>3, <2>1, <2>2 DEF Good
<1>6. Streams' BY <1>1, <1>4, <1>5, SInvParts DEF Streams
<1>7. \A c \in Conn : Client(conn'[c]) =>
        Client(conn[c]) /\ conn'[c].master = conn[c].master
  BY <1>1, <1>3, <1>4 DEF Client, x
<1>8. Welcome' BY <1>1, <1>7, SameWelcome
<1> QED BY <1>6, <1>8

\* Slaves that waited for the next child begin with what it saves.
LEMMA BgSaveDoneStreams ==
    ASSUME SInv, NEW n \in Node, NEW ok \in BOOLEAN, BgSaveDone(n, ok)
    PROVE  Streams' /\ Welcome'
<1>0. IInv BY SInvParts
<1>1. PICK fork \in BOOLEAN :
        /\ updateSlavesWaitingBgsave(n, ok, fork) /\ (Fault \/ UNCHANGED left)
        /\ child[n] # None
        /\ data' = data /\ host' = host /\ rs' = rs /\ cur' = cur /\ mdb' = mdb
  BY DEF BgSaveDone, ForkFails
<1> DEFINE starts == \E c \in Slaves(conn, n) : conn[c].st = "start"
           after == [c \in Conn |-> SlaveAfterSave(c, n, child[n], ok, fork, conn)]
           waiting == {c \in Slaves(after, n) : after[c].st = "start"}
<1>2. /\ child' = [child EXCEPT ![n] = IF starts /\ fork THEN data[n] ELSE None]
      /\ conn' = after
  <2>1. /\ child' = [child EXCEPT ![n] = IF starts /\ fork THEN data[n] ELSE None]
        /\ conn' = IF starts /\ ~fork THEN CloseMaster(after, waiting) ELSE after
    BY <1>1 DEF updateSlavesWaitingBgsave
  <2>2. child[n] \in Seq(Datum) /\ conn \in [Conn -> Connection] BY <1>0, <1>1, Types
  <2>3. \A c \in Conn : after[c].mopen /\ after[c].st = "start" => after[c].master # n
    BY <2>2, AfterSaveKeeps
  <2>4. after = [c \in Conn |-> after[c]] OBVIOUS
  <2> HIDE DEF after
  <2>5. waiting = {} BY <2>3 DEF Slaves
  <2>6. CloseMaster(after, {}) = after BY <2>4 DEF CloseMaster
  <2> QED BY <2>1, <2>5, <2>6
<1>3. left'.db = left.db BY <1>0, <1>1, Types DEF Fault, BoundsLeft
<1>4. child[n] \in Seq(Datum) /\ data[n] \in Seq(Datum) BY <1>0, <1>1, Types
<1>5. \A m \in Node \ {n} : child'[m] = child[m] BY <1>0, <1>2, Types
<1>6. starts /\ fork => child'[n] = data[n] BY <1>0, <1>2, Types
<1>7. ASSUME NEW c \in Conn
      PROVE  /\ Good(conn'[c], data, child', rs, mdb, left.db)
             /\ Client(conn'[c]) => Client(conn[c]) /\ conn'[c].master = conn[c].master
  <2> DEFINE x == conn[c]
             y == SlaveAfterSave(c, n, child[n], ok, fork, conn)
  <2>1. x \in Connection /\ Good(x, data, child, rs, mdb, left.db)
    BY <1>0, SInvParts, Types
  <2>2. conn'[c] = y BY <1>2
  <2>3. Client(x) => x.master \in Node BY SInvParts
  <2>4. CASE c \notin Slaves(conn, n) \/ x.st \notin {"start", "end"}
    <3>1. y = x BY <2>4 DEF SlaveAfterSave
    <3>2. x.st = "end" /\ x.mopen => x.master # n BY <2>4 DEF Slaves
    <3> HIDE DEF x, y
    <3>3. x.st = "end" /\ x.mopen => child'[x.master] = child[x.master]
      BY <1>5, <2>3, <3>2 DEF Client
    <3>4. Faded(x, x) BY FadedSame
    <3>5. Good(x, data, child', rs, mdb, left.db)
      BY <2>1, <3>3, <3>4, GoodFaded DEF Live
    <3> QED BY <2>2, <3>1, <3>5 DEF x
  <2>5. CASE c \in Slaves(conn, n) /\ x.st = "start"
    <3>1. y = [x EXCEPT !.st = "end", !.late = ~fork] BY <2>5 DEF SlaveAfterSave
    <3>2. x.mopen /\ x.master = n /\ (fork => child'[n] = data[n])
      BY <1>6, <2>5 DEF Slaves
    <3> HIDE DEF x, y
    <3>3. /\ y.st = "end" /\ y.sopen = x.sopen /\ y.slave = x.slave
          /\ y.mopen = x.mopen /\ y.master = x.master
          /\ y.buf = x.buf /\ y.seldb = x.seldb /\ y.late = ~fork
      BY <2>1, <3>1 DEF Connection
    <3>4. y.buf = <<>> /\ y.seldb = 0 /\ ~Live(x, rs)
      BY <2>1, <2>5, <3>3 DEF Good
    <3>5. fork => File(y, child') = data[n] /\ data[y.master] = data[n]
      BY <3>2, <3>3 DEF File
    <3>6. Stream(y, 0, File(y, child'), data[y.master], left.db)
      <4>1. CASE fork BY <1>4, <3>4, <3>5, <4>1, StreamEmpty
      <4>2. CASE ~fork BY <3>3, <3>4, <4>2, StreamLate
      <4> QED BY <4>1, <4>2
    <3>7. ~Live(y, rs) BY <3>3, <3>4 DEF Live
    <3>8. Good(y, data, child', rs, mdb, left.db) BY <3>3, <3>6, <3>7 DEF Good
    <3> QED BY <2>2, <2>5, <3>2, <3>3, <3>8 DEF x, Client
  <2>6. CASE c \in Slaves(conn, n) /\ x.st = "end" /\ ok
    <3>1. y = [x EXCEPT !.st = "bulk", !.bulk = child[n]]
      BY <2>6 DEF SlaveAfterSave
    <3>2. x.mopen /\ x.master = n BY <2>6 DEF Slaves
    <3> HIDE DEF x, y
    <3>3. /\ y.st = "bulk" /\ y.sopen = x.sopen /\ y.slave = x.slave
          /\ y.mopen = x.mopen /\ y.master = x.master /\ y.bulk = child[n]
          /\ y.buf = x.buf /\ y.seldb = x.seldb /\ y.late = x.late
      BY <2>1, <3>1 DEF Connection
    <3>4. ~Live(y, rs) BY <2>1, <2>6, <3>3 DEF Good, Live
    <3>5. Stream(x, 0, File(x, child), data[n], left.db)
      BY <2>1, <2>6, <3>2 DEF Good, Unread
    <3>9. File(y, child') = File(x, child) BY <2>6, <3>2, <3>3 DEF File, x
    <3>6. Stream(y, 0, File(y, child'), data[y.master], left.db)
      BY <3>2, <3>3, <3>5, <3>9, StreamSame
    <3>7. Good(y, data, child', rs, mdb, left.db) BY <3>3, <3>4, <3>6 DEF Good
    <3> QED BY <2>2, <2>6, <3>2, <3>3, <3>7 DEF x, Client
  <2>7. CASE c \in Slaves(conn, n) /\ x.st = "end" /\ ~ok
    <3>1. y = CloseMaster(conn, {c})[c] BY <2>7 DEF SlaveAfterSave
    <3>6. conn \in [Conn -> Connection] /\ c \in {c} BY <1>0, Types
    <3>2. Faded(x, y) /\ ~y.mopen BY <3>1, <3>6, CloseMasterFades
    <3>3. Idle(y)
      BY <2>1, <2>7, <3>1 DEF CloseMaster, Free, Idle, Connection
    <3> HIDE DEF x, y
    <3>4. ~Live(y, rs) BY <2>1, <2>7, <3>2 DEF Good, Live, Faded
    <3>5. Good(y, data, child', rs, mdb, left.db) BY <3>3, <3>4, GoodIdle
    <3> QED BY <2>2, <3>2, <3>5 DEF x, Client
  <2> QED BY <2>4, <2>5, <2>6, <2>7
<1>8. Streams' BY <1>1, <1>3, <1>7 DEF Streams
<1>9. Welcome' BY <1>1, <1>7, SameWelcome
<1> QED BY <1>8, <1>9

\* The master believes that the slaves that wait for the same child read in the
\* same database: no one copied the output of another without its slaveseldb.
Alike ==
    \A c, e \in Conn :
       /\ conn[c].mopen /\ conn[c].st = "end" /\ conn[e].mopen /\ conn[e].st = "end"
       /\ conn[c].master = conn[e].master
       => conn[c].seldb = conn[e].seldb

\* Where all is written to one database, or none to database 0, this does not
\* matter.
Selects == left.db \subseteq {0} \/ 0 \notin left.db \/ Alike

\* The new state of connection k is the only one.
LEMMA OneConn ==
    ASSUME SInv, NEW k \in Conn, NEW z, conn' = [conn EXCEPT ![k] = z],
           host' = host, rs' = rs, mdb' = mdb, data' = data, left'.db = left.db,
           \A m \in Node : child[m] # None => child'[m] = child[m],
           Good(z, data, child', rs, mdb, left.db),
           Client(z) => host[z.master] = None \/ rs[z.master] = "connected"
    PROVE  Streams' /\ Welcome'
<1>0. IInv BY SInvParts
<1>1. conn'[k] = z /\ \A c \in Conn \ {k} : conn'[c] = conn[c] BY <1>0, Types
<1>2. ASSUME NEW c \in Conn \ {k} PROVE Good(conn[c], data, child', rs, mdb, left.db)
  <2> DEFINE x == conn[c]
  <2>1. Good(x, data, child, rs, mdb, left.db) BY SInvParts
  <2>2. x.st = "end" /\ x.mopen /\ ~x.late =>
           x.master \in Node /\ child[x.master] # None
    BY SInvParts DEF Waiting, Client
  <2> HIDE DEF x
  <2>3. x.st = "end" /\ x.mopen /\ ~x.late => child'[x.master] = child[x.master]
    BY <2>2
  <2>4. Faded(x, x) BY FadedSame
  <2>5. Good(x, data, child', rs, mdb, left.db)
    BY <2>1, <2>3, <2>4, GoodFaded DEF Live
  <2> QED BY <2>5 DEF x
<1>3. Streams' BY <1>1, <1>2 DEF Streams
<1>4. Welcome' BY <1>1, SameWelcome
<1> QED BY <1>3, <1>4

LEMMA SyncStreams ==
    ASSUME SInv, NEW k \in Conn, Sync(k), Selects'
    PROVE  Streams' /\ Welcome'
<1>0. IInv BY SInvParts
<1> DEFINE x == conn[k]
           m == conn[k].master
           ends == {e \in Slaves(conn, m) : conn[e].st = "end"}
<1>1. /\ x.st = "asked" /\ x.mopen
      /\ data' = data /\ host' = host /\ rs' = rs /\ mdb' = mdb
  BY DEF Sync
<1>2. x \in Connection /\ Good(x, data, child, rs, mdb, left.db)
      /\ m \in Node /\ data[m] \in Seq(Datum) /\ data[m] # None
  BY <1>0, <1>1, SInvParts, Types DEF IInv, MastersKnown
<1>3. ~Live(x, rs) BY <1>1, <1>2 DEF Good
<1>4. left'.db = left.db BY <1>0, Types DEF Sync, ForkFails, Fault, BoundsLeft
<1>5. CASE conn' = Refused(k) /\ child' = child
  <2> DEFINE z == [x EXCEPT !.st = "refused"]
  <2>1. conn' = [conn EXCEPT ![k] = z] BY <1>5 DEF Refused
  <2> HIDE DEF x
  <2>2. z.st = "refused" /\ z.sopen = x.sopen /\ z.slave = x.slave
    BY <1>2 DEF Connection
  <2> HIDE DEF z
  <2>3. Idle(z) /\ ~Live(z, rs) /\ ~Client(z)
    BY <1>3, <2>2 DEF Idle, Live, Client
  <2>4. Good(z, data, child', rs, mdb, left.db) BY <2>3, GoodIdle
  <2> QED BY <1>1, <1>4, <1>5, <2>1, <2>3, <2>4, OneConn
<1>6. ASSUME NEW st \in {"start", "end"}, NEW buf, NEW late \in BOOLEAN, NEW from,
             conn' = Listed(k, st, buf, late),
             MaySync(m), \A n \in Node : child[n] # None => child'[n] = child[n],
             from = IF late THEN <<>> ELSE child'[m],
             st = "start" => buf = <<>>,
             st = "end" => \A z : z.buf = buf /\ z.seldb = 0 /\ z.late = late =>
                                     Stream(z, 0, from, data[m], left.db)
      PROVE  Streams' /\ Welcome'
  <2> DEFINE z == [x EXCEPT !.st = st, !.buf = buf, !.seldb = 0, !.late = late]
  <2>1. conn' = [conn EXCEPT ![k] = z] BY <1>0, <1>6, Types DEF Listed
  <2>2. m = x.master OBVIOUS
  <2> HIDE DEF x, m
  <2>3. z.st = st /\ z.buf = buf /\ z.seldb = 0 /\ z.sopen = x.sopen
        /\ z.slave = x.slave /\ z.master = m /\ z.late = late
    BY <1>2, <2>2 DEF Connection
  <2> HIDE DEF z
  <2>4. ~Live(z, rs) BY <1>3, <2>3 DEF Live
  <2>5. ASSUME Unread(z) PROVE Stream(z, 0, File(z, child'), data[z.master], left.db)
    <3>1. st = "end" /\ File(z, child') = from BY <1>6, <2>3, <2>5 DEF Unread, File
    <3>2. Stream(z, 0, from, data[m], left.db) BY <1>6, <2>3, <3>1
    <3> QED BY <2>3, <3>1, <3>2
  <2>6. z.st = "start" => z.buf = <<>> /\ z.seldb = 0 BY <1>6, <2>3
  <2>7. Good(z, data, child', rs, mdb, left.db) BY <2>4, <2>5, <2>6 DEF Good
  <2>8. host[z.master] = None \/ rs[z.master] = "connected"
    BY <1>6, <2>3 DEF MaySync
  <2> QED BY <1>1, <1>4, <1>6, <2>1, <2>7, <2>8, OneConn
<1>7. CASE /\ MaySync(m) /\ child[m] # None
           /\ \E e \in ends : conn' = Listed(k, "end", conn[e].buf, conn[e].late)
           /\ child' = child
  <2>1. PICK e \in ends : conn' = Listed(k, "end", conn[e].buf, conn[e].late) BY <1>7
  <2>2. /\ e \in Conn /\ conn[e].mopen /\ conn[e].master = m /\ conn[e].st = "end"
        /\ e # k
    BY <1>1 DEF Slaves
  <2>3. Good(conn[e], data, child, rs, mdb, left.db) BY <2>2, SInvParts
  <2> DEFINE from == IF conn[e].late THEN <<>> ELSE child'[m]
  <2>4. Stream(conn[e], 0, from, data[m], left.db)
    BY <1>7, <2>2, <2>3 DEF Good, Unread, File
  <2>5. left.db \subseteq {0} \/ 0 \notin left.db \/ conn[e].seldb = 0
    <3>1. conn'[e] = conn[e] BY <1>0, <2>1, <2>2, Types DEF Listed
    <3>2. conn'[k] = [x EXCEPT !.st = "end", !.buf = conn[e].buf, !.seldb = 0,
                                 !.late = conn[e].late]
      BY <1>0, <2>1, Types DEF Listed
    <3>3. conn'[k].st = "end" /\ conn'[k].mopen /\ conn'[k].master = m /\ conn'[k].seldb = 0
      BY <1>1, <1>2, <3>2 DEF Connection
    <3>4. Alike' => conn[e].seldb = 0 BY <2>2, <3>1, <3>3 DEF Alike
    <3> QED BY <1>4, <3>4 DEF Selects
  <2> HIDE DEF from
  <2>6. ASSUME NEW z, z.buf = conn[e].buf, z.seldb = 0, z.late = conn[e].late
        PROVE  Stream(z, 0, from, data[m], left.db)
    BY <2>2, <2>4, <2>5, <2>6, StreamCopied
  <2>7. conn[e].late \in BOOLEAN BY <1>0, <2>2, Types DEF Connection
  <2>8. from = IF conn[e].late THEN <<>> ELSE child'[m] BY DEF from
  <2> QED BY <1>6, <1>7, <2>1, <2>6, <2>7, <2>8
<1>8. CASE MaySync(m) /\ conn' = Listed(k, "start", <<>>, FALSE) /\ child' = child
  BY <1>6, <1>8
<1>9. CASE /\ MaySync(m) /\ child[m] = None /\ conn' = Listed(k, "end", <<>>, FALSE)
           /\ child' = [child EXCEPT ![m] = data[m]]
  <2>1. child'[m] = data[m] /\ \A n \in Node : child[n] # None => child'[n] = child[n]
    BY <1>0, <1>2, <1>9, Types
  <2>2. ASSUME NEW z, z.buf = <<>>, z.seldb = 0
        PROVE  Stream(z, 0, child'[m], data[m], left.db)
    BY <1>2, <2>1, <2>2, StreamEmpty
  <2> QED BY <1>6, <1>9, <2>1, <2>2
<1> QED BY <1>5, <1>7, <1>8, <1>9 DEF Sync

\* The connection of a busy slave, and the others.
LEMMA OthersLive ==
    ASSUME SInv, NEW s \in Node, Busy(s), NEW c \in Conn, c # cur[s]
    PROVE  conn[c].sopen => conn[c].slave \in Node \ {s}
BY SInvParts DEF Owned

LEMMA ReadBulkStreams ==
    ASSUME SInv, NEW s \in Node, ReadBulk(s)
    PROVE  Streams' /\ Welcome'
<1>0. IInv BY SInvParts
<1> DEFINE k == cur[s]
           x == conn[k]
           z == [x EXCEPT !.bulk = None]
<1>1. /\ rs[s] = "transfer" /\ x.st = "online"
      /\ data' = [data EXCEPT ![s] = x.bulk] /\ conn' = [conn EXCEPT ![k] = z]
      /\ rs' = [rs EXCEPT ![s] = "connected"] /\ mdb' = [mdb EXCEPT ![s] = 0]
      /\ host' = host /\ child' = child /\ left' = left
  BY DEF ReadBulk
<1>2. Busy(s) /\ ~MaySync(s)
  BY <1>0, <1>1, SInvParts DEF Busy, MaySync, Roles
<1>3. k \in Conn /\ x \in Connection /\ x.slave = s BY <1>0, <1>2, HeldConn
<1>4. Good(x, data, child, rs, mdb, left.db) /\ (Client(x) => x.master \in Node \ {s})
  BY <1>2, <1>3, SInvParts
<1>5. x.bulk # None BY <1>1, SInvParts DEF FileHere
<1>6. conn'[k] = z /\ \A c \in Conn \ {k} : conn'[c] = conn[c]
  BY <1>0, <1>1, <1>3, Types
<1>7. /\ data'[s] = x.bulk /\ mdb'[s] = 0 /\ rs'[s] = "connected"
      /\ \A n \in Node \ {s} : data'[n] = data[n] /\ mdb'[n] = mdb[n] /\ rs'[n] = rs[n]
  BY <1>0, <1>1, Types
<1>8. ASSUME NEW c \in Conn \ {k}
      PROVE  Good(conn[c], data', child, rs', mdb', left.db)
  <2> DEFINE y == conn[c]
  <2>1. Good(y, data, child, rs, mdb, left.db) /\ (Client(y) => y.master \in Node \ {s})
    BY <1>2, SInvParts
  <2>2. y.sopen => y.slave \in Node \ {s} BY <1>2, OthersLive
  <2> HIDE DEF y
  <2>3. Faded(y, y) BY FadedSame
  <2>4. y.st \in Sent /\ y.mopen => data'[y.master] = data[y.master]
    BY <1>7, <2>1 DEF Client, Sent
  <2>5. Live(y, rs') => /\ rs[y.slave] = "connected"
                        /\ mdb'[y.slave] = mdb[y.slave] /\ data'[y.slave] = data[y.slave]
    BY <1>7, <2>2 DEF Live
  <2>6. Good(y, data', child, rs', mdb', left.db)
    BY <2>1, <2>3, <2>4, <2>5, GoodFaded
  <2> QED BY <2>6 DEF y
<1> HIDE DEF x
<1>9. /\ z.st = "online" /\ z.bulk = None /\ z.slave = s /\ z.mopen = x.mopen
      /\ z.master = x.master /\ z.buf = x.buf /\ z.seldb = x.seldb
      /\ z.late = x.late
  BY <1>1, <1>3 DEF Connection
<1> HIDE DEF z
<1>10. Good(z, data', child, rs', mdb', left.db)
  <2>1. Stream(x, 0, File(x, child), data[x.master], left.db)
    BY <1>1, <1>4, <1>5 DEF Good, Unread
  <2>5. x.late \/ File(x, child) = x.bulk BY <1>1 DEF File
  <2>2. z.mopen => x.mopen /\ data'[z.master] = data[x.master]
    BY <1>1, <1>4, <1>7, <1>9 DEF Client
  <2>3. Stream(z, 0, x.bulk, data'[z.master], left.db)
    BY <1>9, <2>1, <2>2, <2>5, StreamSame
  <2>4. Stream(z, mdb'[z.slave], data'[z.slave], data'[z.master], left.db)
    BY <1>7, <1>9, <2>3
  <2>6. z.mopen => z.master # z.slave BY <1>1, <1>4, <1>9 DEF Client
  <2> QED BY <1>9, <2>4, <2>6 DEF Good, Unread
<1>11. Streams' BY <1>1, <1>6, <1>8, <1>10 DEF Streams
<1>12. \A c \in Conn : Client(conn'[c]) =>
         Client(conn[c]) /\ conn'[c].master = conn[c].master
  BY <1>1, <1>6, <1>9 DEF Client, x
<1>13. \A m \in Node : MaySync(m) => host'[m] = None \/ rs'[m] = "connected"
  BY <1>1, <1>7 DEF MaySync
<1>14. Welcome' BY <1>12, <1>13, WelcomeKept
<1> QED BY <1>11, <1>14

LEMMA ApplyStreams ==
    ASSUME SInv, NEW s \in Node, Apply(s)
    PROVE  Streams' /\ Welcome'
<1>0. IInv BY SInvParts
<1> DEFINE k == cur[s]
           x == conn[k]
           i == Head(x.buf)
           d == mdb[s]
           z == [x EXCEPT !.buf = Tail(@)]
           read == [conn EXCEPT ![k] = z]
<1>1. /\ rs[s] = "connected" /\ x.buf # <<>>
      /\ host' = host /\ rs' = rs /\ child' = child /\ left' = left
  BY DEF Apply
<1>2. \/ /\ i.op = "select" /\ mdb' = [mdb EXCEPT ![s] = i.arg]
         /\ conn' = read /\ data' = data
      \/ /\ i.op = "write"
         /\ data' = [data EXCEPT ![s] = Append(@, <<i.arg, d>>)]
         /\ conn' = replicationFeedSlaves(read, s, d, i.arg)
         /\ mdb' = mdb
  BY DEF Apply
<1>3. Busy(s) BY <1>1 DEF Busy
<1>4. k \in Conn /\ x \in Connection /\ x.sopen /\ x.slave = s BY <1>0, <1>3, HeldConn
<1>5. x.buf \in Seq(Item) BY <1>4 DEF Connection
<1>6. Live(x, rs) BY <1>1, <1>4 DEF Live
<1>7. Good(x, data, child, rs, mdb, left.db) /\ (Client(x) => x.master \in Node)
  BY <1>4, SInvParts
<1>8. /\ x.st = "online" /\ x.bulk = None /\ (x.mopen => x.master # s)
      /\ Stream(x, d, data[s], data[x.master], left.db)
  BY <1>4, <1>6, <1>7 DEF Good
<1>9. d \in Nat /\ data[s] \in Seq(Datum) /\ left.db \in SUBSET Nat
      /\ i \in Item /\ i.arg \in Nat
  <2>1. i \in Item BY <1>1, <1>5, HeadTailProperties
  <2>2. i.arg \in Nat BY <2>1 DEF Item
  <2>3. d \in Nat /\ data[s] \in Seq(Datum) BY <1>0, Types
  <2> QED BY <2>1, <2>2, <2>3, SInvParts
<1>10. conn \in [Conn -> Connection] BY <1>0, Types
<1> HIDE DEF x, i, d
<1>11. /\ z.st = x.st /\ z.bulk = x.bulk /\ z.slave = s /\ z.mopen = x.mopen
       /\ z.master = x.master /\ z.buf = Tail(x.buf) /\ z.seldb = x.seldb
       /\ z.sopen = x.sopen /\ z.late = x.late
  BY <1>4 DEF Connection
<1>22. z \in Connection
  <2>1. Tail(x.buf) \in Seq(Item) BY <1>1, <1>5, HeadTailProperties
  <2> QED BY <1>4, <2>1 DEF Connection
<1> HIDE DEF z
<1>12. read[k] = z /\ (\A c \in Conn \ {k} : read[c] = conn[c])
       /\ read \in [Conn -> Connection]
  BY <1>4, <1>10, <1>22
<1> HIDE DEF read
<1>13. /\ i.op = "select" => Stream(z, i.arg, data[s], data[x.master], left.db)
       /\ i.op = "write" =>
            /\ d \in left.db
            /\ Stream(z, d, Append(data[s], <<i.arg, d>>), data[x.master], left.db)
  <2>1. PICK dbs \in SUBSET Nat, from \in Seq(Datum),
                 to \in {data[x.master]} :
          dbs = left.db /\ from = data[s] /\ to = data[x.master]
    BY <1>9
  <2>2. Stream(x, d, from, to, dbs) BY <1>8, <2>1
  <2>3. z.buf = Tail(x.buf) /\ z.seldb = x.seldb /\ z.mopen = x.mopen /\ z.late = x.late
    BY <1>11
  <2>4. LET j == Head(x.buf)
        IN  /\ j.op = "select" => Stream(z, j.arg, from, to, dbs)
            /\ j.op = "write" => /\ d \in dbs
                                 /\ Stream(z, d, Append(from, <<j.arg, d>>), to, dbs)
    BY <1>1, <1>5, <1>9, <2>2, <2>3, StreamRead
  <2> QED BY <2>1, <2>4 DEF i
<1>14. CASE /\ i.op = "select" /\ mdb' = [mdb EXCEPT ![s] = i.arg]
            /\ conn' = read /\ data' = data
  <2>1. mdb'[s] = i.arg /\ \A n \in Node \ {s} : mdb'[n] = mdb[n]
    BY <1>0, <1>14, Types
  <2>2. ASSUME NEW c \in Conn \ {k}
        PROVE  Good(conn[c], data, child, rs, mdb', left.db)
    <3> DEFINE y == conn[c]
    <3>1. Good(y, data, child, rs, mdb, left.db) BY SInvParts
    <3>2. y.sopen => y.slave \in Node \ {s} BY <1>3, OthersLive
    <3> HIDE DEF y
    <3>3. Faded(y, y) BY FadedSame
    <3>4. Live(y, rs) => rs[y.slave] = "connected" /\ mdb'[y.slave] = mdb[y.slave]
      BY <2>1, <3>2 DEF Live
    <3>5. Good(y, data, child, rs, mdb', left.db) BY <3>1, <3>3, <3>4, GoodFaded
    <3> QED BY <3>5 DEF y
  <2>3. Good(z, data, child, rs, mdb', left.db)
    <3>1. Stream(z, mdb'[z.slave], data[z.slave], data[z.master], left.db)
      BY <1>11, <1>13, <1>14, <2>1
    <3> QED BY <1>8, <1>11, <3>1 DEF Good, Unread
  <2>4. Streams' BY <1>1, <1>12, <1>14, <2>2, <2>3 DEF Streams
  <2>5. \A c \in Conn : Client(conn'[c]) =>
          Client(conn[c]) /\ conn'[c].master = conn[c].master
    BY <1>11, <1>12, <1>14 DEF Client, x
  <2>6. Welcome' BY <1>1, <2>5, SameWelcome
  <2> QED BY <2>4, <2>6
<1>15. CASE /\ i.op = "write"
            /\ data' = [data EXCEPT ![s] = Append(@, <<i.arg, d>>)]
            /\ conn' = replicationFeedSlaves(read, s, d, i.arg)
            /\ mdb' = mdb
  <2>1. d \in left.db BY <1>13, <1>15
  <2>2. ASSUME NEW c \in Conn \ {k}
        PROVE  Good(conn'[c], data', child', rs', mdb', left.db)
    <3>1. Live(conn[c], rs) => conn[c].slave # s BY <1>3, OthersLive DEF Live
    <3>2. read[c] = conn[c] BY <1>12
    <3>3. conn'[c] = replicationFeedSlaves(read, s, d, i.arg)[c] BY <1>15
    <3> QED BY <1>1, <1>9, <1>15, <2>1, <3>1, <3>2, <3>3, GoodFeed
  <2>3. data'[s] = Append(data[s], <<i.arg, d>>)
        /\ \A n \in Node \ {s} : data'[n] = data[n]
    BY <1>0, <1>15, Types
  <2>4. x.mopen => x.master \in Node \ {s} BY <1>7, <1>8 DEF Client
  <2>5. k \notin Slaves(read, s) BY <1>11, <1>12, <2>4 DEF Slaves
  <2>6. conn'[k] = z BY <1>4, <1>12, <1>15, <2>5 DEF replicationFeedSlaves
  <2>7. Good(z, data', child', rs', mdb', left.db)
    <3>1. Stream(z, d, data'[s], data[x.master], left.db) BY <1>13, <1>15, <2>3
    <3>2. z.mopen => data'[z.master] = data[x.master] BY <1>11, <2>3, <2>4
    <3>3. Stream(z, d, data'[s], data'[z.master], left.db)
      BY <3>1, <3>2, StreamSame
    <3>4. Stream(z, mdb'[z.slave], data'[z.slave], data'[z.master], left.db)
      BY <1>11, <1>15, <3>3 DEF d
    <3> QED BY <1>8, <1>11, <3>4 DEF Good, Unread
  <2>8. Streams' BY <1>1, <2>2, <2>6, <2>7 DEF Streams
  <2>9. ASSUME NEW c \in Conn, Client(conn'[c])
        PROVE  Client(conn[c]) /\ conn'[c].master = conn[c].master
    <3>1. Client(read[c]) /\ conn'[c].master = read[c].master
      BY <1>12, <1>15, <2>9, FedClient
    <3>2. CASE c = k BY <1>11, <1>12, <3>1, <3>2 DEF Client, x
    <3>3. CASE c # k BY <1>12, <3>1, <3>3
    <3> QED BY <3>2, <3>3
  <2>10. Welcome' BY <1>1, <2>9, SameWelcome
  <2> QED BY <2>8, <2>10
<1> QED BY <1>2, <1>14, <1>15

\* A step of server n, which executes no commands of a master after it.
LEMMA LeaveStreams ==
    ASSUME SInv, NEW n \in Node,
           \A c \in Conn : \/ Faded(conn[c], conn'[c])
                           \/ Idle(conn'[c]) /\ ~Live(conn'[c], rs'),
           child' = child, mdb' = mdb, left'.db = left.db, rs'[n] # "connected",
           \A k \in Node \ {n} : rs'[k] = rs[k] /\ host'[k] = host[k] /\ data'[k] = data[k],
           MaySync(n) => data'[n] = data[n],
           \/ host'[n] = None \/ ~MaySync(n)
           \/ \A c \in Conn : Client(conn'[c]) => conn'[c].master # n
    PROVE  Streams' /\ Welcome'
<1>1. \A m \in Node : MaySync(m) => data'[m] = data[m] OBVIOUS
<1>2. \A s \in Node : rs'[s] = "connected" =>
         rs[s] = "connected" /\ mdb'[s] = mdb[s] /\ data'[s] = data[s]
  OBVIOUS
<1>3. Streams' BY <1>1, <1>2, FadeStep
<1>4. \A c \in Conn : Client(conn'[c]) =>
         Client(conn[c]) /\ conn'[c].master = conn[c].master
  BY FadedClient DEF Client, Idle
<1>5. \A m \in Node : MaySync(m) =>
         \/ host'[m] = None \/ rs'[m] = "connected"
         \/ \A c \in Conn : Client(conn'[c]) => conn'[c].master # m
  BY DEF MaySync
<1>6. Welcome' BY <1>4, <1>5, WelcomeKept
<1> QED BY <1>3, <1>6

LEMMA HandshakeStreams ==
    ASSUME SInv, NEW s \in Node, Connect(s) \/ Ping(s) \/ SendSync(s)
    PROVE  Streams' /\ Welcome'
<1>0. IInv BY SInvParts
<1>1. /\ data' = data /\ host' = host /\ mdb' = mdb /\ child' = child /\ left' = left
      /\ rs[s] \in {"connect", "connecting", "pong"}
      /\ \E r \in {"connecting", "pong", "transfer"} : rs' = [rs EXCEPT ![s] = r]
  BY DEF Connect, Ping, SendSync
<1>2. rs'[s] # "connected" /\ \A k \in Node \ {s} : rs'[k] = rs[k]
  BY <1>0, <1>1, Types
<1>3. ~MaySync(s) BY <1>1, SInvParts DEF Roles, MaySync
<1>4. ASSUME NEW k \in Conn, NEW z, conn' = [conn EXCEPT ![k] = z],
             Idle(z), z.sopen => z.slave = s
      PROVE  Streams' /\ Welcome'
  <2>1. conn'[k] = z /\ \A c \in Conn \ {k} : conn'[c] = conn[c]
    BY <1>0, <1>4, Types
  <2>2. ~Live(z, rs') BY <1>2, <1>4 DEF Live
  <2>3. \A c \in Conn : \/ Faded(conn[c], conn'[c])
                        \/ Idle(conn'[c]) /\ ~Live(conn'[c], rs')
    BY <1>4, <2>1, <2>2, FadedSame
  <2> QED BY <1>1, <1>2, <1>3, <2>3, LeaveStreams
<1>5. CASE Connect(s)
  <2>1. PICK k \in Conn :
          conn' = [conn EXCEPT ![k] =
                      [Free EXCEPT !.slave = s, !.master = host[s],
                                   !.st = "new", !.mopen = TRUE, !.sopen = TRUE]]
    BY <1>5 DEF Connect
  <2> DEFINE z == [Free EXCEPT !.slave = s, !.master = host[s],
                                   !.st = "new", !.mopen = TRUE, !.sopen = TRUE]
  <2>2. z.st = "new" /\ z.slave = s BY DEF Free
  <2> HIDE DEF z
  <2>3. Idle(z) BY <2>2 DEF Idle
  <2> QED BY <1>4, <2>1, <2>2, <2>3 DEF z
<1>6. CASE Ping(s)
  <2>1. \A c \in Conn : Faded(conn[c], conn'[c]) BY <1>6, FadedSame DEF Ping
  <2> QED BY <1>1, <1>2, <1>3, <2>1, LeaveStreams
<1>7. CASE SendSync(s)
  <2> DEFINE x == conn[cur[s]]
             z == [x EXCEPT !.st = "asked"]
  <2>1. conn' = [conn EXCEPT ![cur[s]] = z] BY <1>7 DEF SendSync
  <2>2. Busy(s) BY <1>7 DEF SendSync, Busy
  <2>3. cur[s] \in Conn /\ x \in Connection /\ x.slave = s BY <1>0, <2>2, HeldConn
  <2> HIDE DEF x
  <2>4. z.st = "asked" /\ z.slave = s BY <2>3 DEF Connection
  <2> HIDE DEF z
  <2>5. Idle(z) BY <2>4 DEF Idle
  <2> QED BY <1>4, <2>1, <2>3, <2>4, <2>5
<1> QED BY <1>5, <1>6, <1>7

\* Disconnecting the slaves of n.
LEMMA Disconnected ==
    ASSUME NEW cn \in [Conn -> Connection], NEW n, NEW c \in Conn
    PROVE  LET y == disconnectSlaves(cn, n)[c]
           IN  /\ Faded(cn[c], y)
               /\ Client(y) => y.master # n
<1> DEFINE y == disconnectSlaves(cn, n)[c]
<1>1. y = CloseMaster(cn, Slaves(cn, n))[c] BY DEF disconnectSlaves
<1>2. Faded(cn[c], y) /\ (c \in Slaves(cn, n) => ~y.mopen) BY <1>1, CloseMasterFades
<1> HIDE DEF y
<1>3. ASSUME Client(y), y.master = n PROVE FALSE
  <2>1. Client(cn[c]) /\ cn[c].master = n BY <1>2, <1>3, FadedClient
  <2>2. c \in Slaves(cn, n) BY <2>1 DEF Client, Slaves
  <2> QED BY <1>2, <1>3, <2>2 DEF Client
<1> QED BY <1>2, <1>3 DEF y

\* A slave closes its connection, and perhaps those of its slaves.
LEMMA EndsClosed ==
    ASSUME SInv, NEW s \in Node
    PROVE  /\ CloseSlave(conn, cur[s]) \in [Conn -> Connection]
           /\ \A c \in Conn : Faded(conn[c], CloseSlave(conn, cur[s])[c])
           /\ \A c \in Conn :
                Faded(conn[c], disconnectSlaves(CloseSlave(conn, cur[s]), s)[c])
           /\ \A c \in Conn :
                LET y == disconnectSlaves(CloseSlave(conn, cur[s]), s)[c]
                IN  Client(y) => y.master # s
<1>1. conn \in [Conn -> Connection] /\ cur[s] \in Conn \cup {None}
  BY SInvParts, Types
<1>2. CloseSlave(conn, cur[s]) \in [Conn -> Connection]
  BY <1>1, CloseSlaveKeeps DEF CloseSlave
<1>3. \A c \in Conn : Faded(conn[c], CloseSlave(conn, cur[s])[c])
  BY <1>1, CloseSlaveFades
<1> QED BY <1>2, <1>3, Disconnected, FadedTwice

LEMMA DropStreams ==
    ASSUME SInv, NEW s \in Node, Busy(s), DropLink(s), left'.db = left.db,
           \A n \in Node \ {s} : data'[n] = data[n],
           rs[s] = "connected" => data' = data
    PROVE  Streams' /\ Welcome'
<1>0. IInv BY SInvParts
<1>1. /\ conn' = FreeMasterLink(conn, s, host[s])
      /\ rs' = [rs EXCEPT ![s] = "connect"]
      /\ host' = host /\ mdb' = mdb /\ child' = child
  BY DEF DropLink
<1>2. host[s] # None BY <1>0, BusySlave
<1>3. rs'[s] # "connected" /\ \A n \in Node \ {s} : rs'[n] = rs[n]
  BY <1>0, <1>1, Types
<1>4. CASE rs[s] = "connected"
  <2>1. conn' = disconnectSlaves(CloseSlave(conn, cur[s]), s)
    BY <1>1, <1>2, <1>4 DEF FreeMasterLink
  <2>2. /\ \A c \in Conn : Faded(conn[c], conn'[c])
        /\ \A c \in Conn : Client(conn'[c]) => conn'[c].master # s
    BY <2>1, EndsClosed
  <2>3. data' = data BY <1>4
  <2> QED BY <1>1, <1>3, <2>2, <2>3, LeaveStreams
<1>5. CASE rs[s] # "connected"
  <2>1. conn' = CloseSlave(conn, cur[s]) BY <1>1, <1>5 DEF FreeMasterLink
  <2>2. \A c \in Conn : Faded(conn[c], conn'[c]) BY <2>1, EndsClosed
  <2>3. ~MaySync(s) BY <1>2, <1>5 DEF MaySync
  <2> QED BY <1>1, <1>3, <2>2, <2>3, LeaveStreams
<1> QED BY <1>4, <1>5

LEMMA LinkLostStreams ==
    ASSUME SInv, NEW s \in Node, LinkFails(s) \/ LoadFails(s) \/ LinkEnds(s)
    PROVE  Streams' /\ Welcome'
<1>0. IInv BY SInvParts
<1>1. Busy(s) /\ DropLink(s) BY DEF LinkFails, LoadFails, LinkEnds, Busy
<1>2. left'.db = left.db
  BY <1>0, Types DEF LinkFails, LoadFails, LinkEnds, Fault, BoundsLeft
<1>3. CASE data' = data BY <1>1, <1>2, <1>3, DropStreams
<1>4. CASE LoadFails(s)
  <2>1. rs[s] = "transfer" /\ data' = [data EXCEPT ![s] = <<>>]
    BY <1>4 DEF LoadFails
  <2>2. \A n \in Node \ {s} : data'[n] = data[n] BY <1>0, <2>1, Types
  <2> QED BY <1>1, <1>2, <2>1, <2>2, DropStreams
<1> QED BY <1>3, <1>4 DEF LinkFails, LinkEnds

LEMMA RoleStreams ==
    ASSUME SInv, NEW n \in Node, SlaveOfNoOne(n) \/ \E m \in Node : SlaveOf(n, m)
    PROVE  Streams' /\ Welcome'
<1>0. IInv BY SInvParts
<1>1. /\ data' = data /\ mdb' = mdb /\ child' = child
      /\ left' = [left EXCEPT !.roles = @ - 1]
  BY DEF SlaveOf, SlaveOfNoOne
<1>2. left'.db = left.db BY <1>0, <1>1, Types DEF BoundsLeft
<1>3. CASE SlaveOfNoOne(n)
  <2>1. host' = [host EXCEPT ![n] = None] /\ conn' = CloseSlave(conn, cur[n])
        /\ rs' = [rs EXCEPT ![n] = "none"]
    BY <1>3 DEF SlaveOfNoOne, FreeMasterLink
  <2>2. host'[n] = None /\ rs'[n] # "connected"
        /\ \A k \in Node \ {n} : host'[k] = host[k] /\ rs'[k] = rs[k]
    BY <1>0, <2>1, Types
  <2>3. \A c \in Conn : Faded(conn[c], conn'[c]) BY <2>1, EndsClosed
  <2> QED BY <1>1, <1>2, <2>2, <2>3, LeaveStreams
<1>4. ASSUME NEW m \in Node, SlaveOf(n, m) PROVE Streams' /\ Welcome'
  <2>1. host' = [host EXCEPT ![n] = m] /\ rs' = [rs EXCEPT ![n] = "connect"]
        /\ conn' = disconnectSlaves(CloseSlave(conn, cur[n]), n)
    BY <1>4 DEF SlaveOf
  <2>2. rs'[n] # "connected"
        /\ \A k \in Node \ {n} : host'[k] = host[k] /\ rs'[k] = rs[k]
    BY <1>0, <2>1, Types
  <2>3. /\ \A c \in Conn : Faded(conn[c], conn'[c])
        /\ \A c \in Conn : Client(conn'[c]) => conn'[c].master # n
    BY <2>1, EndsClosed
  <2> QED BY <1>1, <1>2, <2>2, <2>3, LeaveStreams
<1> QED BY <1>3, <1>4

LEMMA SlaveFailsStreams ==
    ASSUME SInv, NEW k \in Conn, SlaveFails(k)
    PROVE  Streams' /\ Welcome'
<1>0. IInv BY SInvParts
<1>1. /\ conn' = CloseMaster(conn, {k})
      /\ data' = data /\ host' = host /\ rs' = rs /\ mdb' = mdb /\ child' = child
  BY DEF SlaveFails
<1>2. left'.db = left.db BY <1>0, Types DEF SlaveFails, Fault, BoundsLeft
<1>3. conn \in [Conn -> Connection] BY <1>0, Types
<1>4. \A c \in Conn : Faded(conn[c], conn'[c]) BY <1>1, <1>3, CloseMasterFades
<1>5. Streams' BY <1>1, <1>2, <1>4, FadeStep
<1>6. \A c \in Conn : Client(conn'[c]) =>
         Client(conn[c]) /\ conn'[c].master = conn[c].master
  BY <1>4, FadedClient
<1>7. Welcome' BY <1>1, <1>6, SameWelcome
<1> QED BY <1>5, <1>7

LEMMA InitStreams == Init => Streams /\ Welcome
<1> SUFFICES ASSUME Init PROVE Streams /\ Welcome OBVIOUS
<1>1. \A c \in Conn : conn[c] = Free BY DEF Init
<1>2. Idle(Free) /\ ~Live(Free, rs) /\ ~Client(Free)
  BY DEF Free, Idle, Live, Client
<1>3. \A c \in Conn : Good(conn[c], data, child, rs, mdb, left.db)
  BY <1>1, <1>2, GoodIdle
<1> QED BY <1>1, <1>2, <1>3 DEF Streams, Welcome

LEMMA StepStreams ==
    ASSUME SInv, [Next]_vars, Selects'
    PROVE  Streams' /\ Welcome'
<1>1. ASSUME NEW n \in Node, NEW d \in left.db, Write(n, d)
      PROVE  Streams' /\ Welcome'
  BY <1>1, WriteStreams
<1>2. ASSUME NEW n \in Node, NEW ok \in BOOLEAN, BgSaveDone(n, ok)
      PROVE  Streams' /\ Welcome'
  BY <1>2, BgSaveDoneStreams
<1>3. ASSUME NEW n \in Node,
             \/ BgSave(n) \/ Progress(n) \/ LinkFails(n) \/ LoadFails(n)
             \/ SlaveOfNoOne(n) \/ \E m \in Node : SlaveOf(n, m)
      PROVE  Streams' /\ Welcome'
  BY <1>3, BgSaveStreams, HandshakeStreams, ReadBulkStreams, ApplyStreams,
     LinkLostStreams, RoleStreams
     DEF Progress
<1>4. ASSUME NEW c \in Conn, Sync(c) \/ SendBulk(c) \/ SlaveFails(c)
      PROVE  Streams' /\ Welcome'
  BY <1>4, SyncStreams, SendBulkStreams, SlaveFailsStreams
<1>5. CASE UNCHANGED vars
  <2>1. /\ data' = data /\ host' = host /\ rs' = rs /\ mdb' = mdb
        /\ child' = child /\ conn' = conn /\ left' = left
    BY <1>5 DEF vars
  <2>2. \A c \in Conn : Faded(conn[c], conn'[c]) BY <2>1, FadedSame
  <2>3. Streams' BY <2>1, <2>2, FadeStep
  <2>4. Welcome' BY <2>1, SameWelcome
  <2> QED BY <2>3, <2>4
<1> QED BY <1>1, <1>2, <1>3, <1>4, <1>5 DEF Next

\* Each slave gets every write of its master exactly once, in order and in the
\* right database, through snapshots, buffers that grow while a child saves,
\* chains of slaves, lost links, failing saves and forks and changes of role
\* (replicationFeedSlaves, updateSlavesWaitingBgsave, syncCommand), but for the
\* late ones, as long as no slave copies an output that ends in another database
\* than 0 while database 0 and another one are written to.
THEOREM StreamCompleteHolds ==
    Spec /\ []Selects => []StreamComplete
<1>1. Init => SInv BY InitInv, InitStreams DEF SInv
<1>2. SInv /\ [Next]_vars /\ Selects' => SInv'
  <2> SUFFICES ASSUME SInv, [Next]_vars, Selects' PROVE SInv' OBVIOUS
  <2>1. IInv' BY StepInv DEF SInv
  <2>2. Streams' /\ Welcome' BY StepStreams
  <2> QED BY <2>1, <2>2 DEF SInv
<1>3. SInv => StreamComplete
  <2> SUFFICES ASSUME SInv, NEW m \in Node, NEW c \in Slaves(conn, m),
                      ~conn[c].late, conn[c].st \in Sent,
                      \/ conn[c].bulk # None
                      \/ conn[c].st = "end" /\ child[m] # None
                      \/ conn[c].sopen /\ rs[conn[c].slave] = "connected"
               PROVE  LET s == conn[c].slave
                          live == conn[c].sopen /\ rs[s] = "connected"
                          from == IF conn[c].st = "end" THEN child[m]
                                  ELSE IF conn[c].bulk # None THEN conn[c].bulk
                                  ELSE data[s]
                      IN  data[m] = from \o Effect(conn[c].buf, IF live THEN mdb[s] ELSE 0)
    BY DEF StreamComplete
  <2> DEFINE x == conn[c]
  <2>1. c \in Conn /\ x.mopen /\ x.master = m /\ ~x.late BY DEF Slaves
  <2>2. Good(x, data, child, rs, mdb, left.db) BY <2>1, SInvParts
  <2>3. CASE x.sopen /\ rs[x.slave] = "connected"
    <3>1. /\ x.st = "online" /\ x.bulk = None
          /\ Stream(x, mdb[x.slave], data[x.slave], data[m], left.db)
      BY <2>1, <2>2, <2>3 DEF Good, Live
    <3>2. data[m] = data[x.slave] \o Effect(x.buf, mdb[x.slave])
      BY <2>1, <3>1, EffectPlayed DEF Stream
    <3> QED BY <2>3, <3>1, <3>2
  <2>4. CASE ~(x.sopen /\ rs[x.slave] = "connected")
    <3>1. Unread(x) BY <2>4 DEF Unread, Sent
    <3>2. Stream(x, 0, File(x, child), data[m], left.db) BY <2>1, <2>2, <3>1 DEF Good
    <3>3. data[m] = File(x, child) \o Effect(x.buf, 0)
      BY <2>1, <3>2, EffectPlayed DEF Stream
    <3>4. File(x, child) = IF x.st = "end" THEN child[m] ELSE x.bulk
      BY <2>1 DEF File
    <3>5. x.st = "end" \/ x.bulk # None BY <3>1 DEF Unread
    <3>6. (IF x.st = "end" THEN child[m]
             ELSE IF x.bulk # None THEN x.bulk ELSE data[x.slave]) = File(x, child)
      <4> HIDE DEF x
      <4> QED BY <3>4, <3>5
    <3>7. (IF x.sopen /\ rs[x.slave] = "connected" THEN mdb[x.slave] ELSE 0) = 0
      BY <2>4
    <3> QED BY <3>3, <3>6, <3>7
  <2> QED BY <2>3, <2>4
<1> QED BY <1>1, <1>2, <1>3, PTL DEF Spec
=============================================================================
