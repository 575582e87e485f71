---------------------------- MODULE Replication ----------------------------
(* replication.c: servers that follow each other.  A slave asks its       *)
(* master for a SYNC, gets a snapshot and then every write after it; a    *)
(* slave may have slaves of its own and any server may change its role.   *)
EXTENDS Integers, Sequences, SequencesExt, FiniteSets

CONSTANTS
    Node,       \* the servers
    Conn,       \* bound: the connections to masters at a time
    None,
    Scenario    \* bounds: the slaveof directive of each server, the databases
                \* in use, the writes, saves, faults and SLAVEOF commands
                \* and the forks that may be among the faults

ASSUME ReplicationConstants ==
    /\ None \notin Node /\ None \notin Conn /\ None \notin Seq(Nat \X Nat)
    /\ \A x \in Scenario :
         /\ x.host \in [Node -> Node \cup {None}]
         /\ x.db \subseteq Nat /\ x.writes \in Nat /\ x.saves \in Nat
         /\ x.faults \in Nat /\ x.roles \in Nat
         /\ x.forks \subseteq {"sync", "next"}

VARIABLES
    data,    \* the dataset: the writes that made it, each with its database
    host,    \* server.masterhost
    rs,      \* server.repl_state
    cur,     \* the connection to the master (repl_transfer_s or server.master)
    mdb,     \* the database server.master has selected
    child,   \* what the BGSAVE child saves, None without a child
    conn,    \* the connections, as both ends see them
    left     \* what is left of the bounds of the scenario

vars == <<data, host, rs, cur, mdb, child, conn, left>>

(* A connection.  The master's end is a client: open or freed (mopen),    *)
(* replstate st, slaveseldb, and buf, the commands for the slave that it  *)
(* has not read.  bulk is the file the master sends.  late is a history   *)
(* variable: the fork that this slave, or the one whose buffer it got,    *)
(* waited for has failed.                                                 *)
Free == [slave |-> None, master |-> None, st |-> "free", seldb |-> 0,
         buf |-> <<>>, bulk |-> None, mopen |-> FALSE, sopen |-> FALSE,
         late |-> FALSE]
Sent == {"end", "bulk", "online"}   \* the states whose clients are fed

States == {"none", "connect", "connecting", "pong", "transfer", "connected"}
Busy(s) == rs[s] \in {"connecting", "pong", "transfer", "connected"}

Init ==
    /\ data = [n \in Node |-> <<>>]
    /\ \E x \in Scenario :
         /\ host = x.host
         /\ left = [db |-> x.db, writes |-> x.writes, saves |-> x.saves,
                    faults |-> x.faults, roles |-> x.roles, forks |-> x.forks]
    /\ rs = [n \in Node |-> IF host[n] = None THEN "none" ELSE "connect"]
    /\ cur = [n \in Node |-> None]
    /\ mdb = [n \in Node |-> 0]
    /\ child = [n \in Node |-> None]
    /\ conn = [c \in Conn |-> Free]

----------------------------------------------------------------------------
(* One end of connections is closed; a connection that both ends have     *)
(* closed is gone.  What the slave has not read of a connection its       *)
(* master closed may still reach it.                                      *)
CloseMaster(cn, C) ==
    [c \in Conn |-> IF c \notin C THEN cn[c]
                    ELSE IF ~cn[c].sopen THEN Free
                    ELSE [cn[c] EXCEPT !.mopen = FALSE,
                            !.st = IF @ = "online" THEN @ ELSE "closed"]]
CloseSlave(cn, c) ==
    IF c = None THEN cn
    ELSE [cn EXCEPT ![c] = IF @.mopen THEN [@ EXCEPT !.sopen = FALSE] ELSE Free]

(* server.slaves: the clients that did a SYNC.                            *)
Slaves(cn, n) ==
    {c \in Conn : cn[c].mopen /\ cn[c].master = n
                  /\ cn[c].st \in {"start", "end", "bulk", "online"}}

(* The slave's end is closed.  When it was server.master, freeClient also *)
(* disconnects the slaves of the slave, unless it is no slave any more.   *)
disconnectSlaves(cn, n) == CloseMaster(cn, Slaves(cn, n))
FreeMasterLink(cn, s, h) ==
    LET closed == CloseSlave(cn, cur[s])
    IN  IF rs[s] = "connected" /\ h # None THEN disconnectSlaves(closed, s)
        ELSE closed

(* replicationFeedSlaves: a SELECT when the slave is in another database, *)
(* and the command.                                                       *)
Select(d) == [op |-> "select", arg |-> d]
Command(w) == [op |-> "write", arg |-> w]
replicationFeedSlaves(cn, n, d, w) ==
    [c \in Conn |->
       IF c \in Slaves(cn, n) /\ cn[c].st \in Sent
       THEN [cn[c] EXCEPT
               !.buf = @ \o (IF cn[c].seldb # d THEN <<Select(d)>> ELSE <<>>)
                         \o <<Command(w)>>,
               !.seldb = d]
       ELSE cn[c]]

----------------------------------------------------------------------------
(* A client writes; a slave is read only.                                 *)
Write(n, d) ==
    /\ host[n] = None /\ left.writes > 0
    /\ LET w == left.writes
       IN  /\ data' = [data EXCEPT ![n] = Append(@, <<w, d>>)]
           /\ conn' = replicationFeedSlaves(conn, n, d, w)
           /\ left' = [left EXCEPT !.writes = @ - 1]
    /\ UNCHANGED <<host, rs, cur, mdb, child>>

(* rdbSaveBackground, for BGSAVE or a save point.                         *)
BgSave(n) ==
    /\ child[n] = None /\ left.saves > 0
    /\ child' = [child EXCEPT ![n] = data[n]]
    /\ left' = [left EXCEPT !.saves = @ - 1]
    /\ UNCHANGED <<data, host, rs, cur, mdb, conn>>

(* A fault, when one is left, and a fork that may fail.                   *)
Fault == left.faults > 0 /\ left' = [left EXCEPT !.faults = @ - 1]
ForkFails(which) == which \in left.forks /\ Fault

(* updateSlavesWaitingBgsave at the end of the child, that saved snapshot *)
(* or failed: who waited for it gets the file or is freed, who waited for *)
(* the next one waits for it to end from now on.  When the fork of the    *)
(* next one fails, the code looks for slaves that wait for it to start,   *)
(* to free them, and finds none: the loop before has moved them all.      *)
SlaveAfterSave(c, n, snapshot, ok, fork, cn) ==
    IF c \notin Slaves(cn, n) THEN cn[c]
    ELSE CASE cn[c].st = "start" -> [cn[c] EXCEPT !.st = "end", !.late = ~fork]
           [] cn[c].st = "end" /\ ok -> [cn[c] EXCEPT !.st = "bulk", !.bulk = snapshot]
           [] cn[c].st = "end" /\ ~ok -> CloseMaster(cn, {c})[c]
           [] OTHER -> cn[c]

(* Mutant of updateSlavesWaitingBgsave: nothing is started for the slaves *)
(* that wait for the next BGSAVE.                                         *)
UpdateSlavesOnly(n, ok, fork) ==
    /\ child' = [child EXCEPT ![n] = None]
    /\ conn' = [c \in Conn |-> SlaveAfterSave(c, n, child[n], ok, TRUE, conn)]

updateSlavesWaitingBgsave(n, ok, fork) ==
    LET starts == \E c \in Slaves(conn, n) : conn[c].st = "start"
        after == [c \in Conn |-> SlaveAfterSave(c, n, child[n], ok, fork, conn)]
        waiting == {c \in Slaves(after, n) : after[c].st = "start"}
    IN  /\ child' = [child EXCEPT ![n] = IF starts /\ fork THEN data[n] ELSE None]
        /\ conn' = IF starts /\ ~fork THEN CloseMaster(after, waiting) ELSE after

(* backgroundSaveDoneHandler.                                             *)
BgSaveDone(n, ok) ==
    /\ child[n] # None
    /\ \/ ok /\ updateSlavesWaitingBgsave(n, ok, TRUE) /\ UNCHANGED left
       \/ ~ok /\ updateSlavesWaitingBgsave(n, ok, TRUE) /\ Fault
       \/ updateSlavesWaitingBgsave(n, ok, FALSE) /\ ForkFails("next")
    /\ UNCHANGED <<data, host, rs, cur, mdb>>

(* sendBulkToSlave has written the last of the file.                      *)
SendBulk(c) ==
    /\ conn[c].st = "bulk" /\ conn[c].mopen
    /\ conn' = [conn EXCEPT ![c].st = "online"]
    /\ UNCHANGED <<data, host, rs, cur, mdb, child, left>>

----------------------------------------------------------------------------
(* Mutant of MaySync: a slave that has no data of its master yet agrees.  *)
MaySyncAlways(m) == TRUE

(* syncCommand, when the master reads the SYNC of connection c.  A BGSAVE *)
(* under way is good for c when another slave registers the differences   *)
(* since it started: the output buffer of that slave is copied.           *)
Refused(c) == [conn EXCEPT ![c].st = "refused"]
Listed(c, st, buf, late) ==
    [conn EXCEPT ![c].st = st, ![c].buf = buf, ![c].seldb = 0, ![c].late = late]
MaySync(m) == host[m] = None \/ rs[m] = "connected"

Sync(c) ==
    /\ conn[c].st = "asked" /\ conn[c].mopen
    /\ LET m == conn[c].master
           ends == {e \in Slaves(conn, m) : conn[e].st = "end"}
       IN  \/ /\ ~MaySync(m)
              /\ conn' = Refused(c) /\ UNCHANGED <<child, left>>
           \/ /\ MaySync(m) /\ child[m] # None /\ ends # {}
              /\ \E e \in ends : conn' = Listed(c, "end", conn[e].buf, conn[e].late)
              /\ UNCHANGED <<child, left>>
           \/ /\ MaySync(m) /\ child[m] # None /\ ends = {}
              /\ conn' = Listed(c, "start", <<>>, FALSE)
              /\ UNCHANGED <<child, left>>
           \/ /\ MaySync(m) /\ child[m] = None
              /\ child' = [child EXCEPT ![m] = data[m]]
              /\ conn' = Listed(c, "end", <<>>, FALSE) /\ UNCHANGED left
           \/ /\ MaySync(m) /\ child[m] = None /\ ForkFails("sync")
              /\ conn' = Refused(c) /\ UNCHANGED child
    /\ UNCHANGED <<data, host, rs, cur, mdb>>

(* replicationCron: connectWithMaster.                                    *)
Connect(s) ==
    /\ rs[s] = "connect"
    /\ \E c \in Conn :
          /\ conn[c] = Free
          /\ conn' = [conn EXCEPT ![c] =
                        [Free EXCEPT !.slave = s, !.master = host[s],
                                     !.st = "new", !.mopen = TRUE, !.sopen = TRUE]]
          /\ cur' = [cur EXCEPT ![s] = c]
    /\ rs' = [rs EXCEPT ![s] = "connecting"]
    /\ UNCHANGED <<data, host, mdb, child, left>>

(* syncWithMaster: the socket is writable, PING is sent; the PONG is      *)
(* there, AUTH and REPLCONF are done with and SYNC is sent.               *)
Ping(s) ==
    /\ rs[s] = "connecting"
    /\ rs' = [rs EXCEPT ![s] = "pong"]
    /\ UNCHANGED <<data, host, cur, mdb, child, conn, left>>
SendSync(s) ==
    /\ rs[s] = "pong" /\ conn[cur[s]].mopen
    /\ rs' = [rs EXCEPT ![s] = "transfer"]
    /\ conn' = [conn EXCEPT ![cur[s]].st = "asked"]
    /\ UNCHANGED <<data, host, cur, mdb, child, left>>

(* readSyncBulkPayload at the end of the file: the dataset is replaced,   *)
(* and the connection becomes the client server.master.                   *)
ReadBulk(s) ==
    /\ rs[s] = "transfer" /\ conn[cur[s]].st = "online"
    /\ data' = [data EXCEPT ![s] = conn[cur[s]].bulk]
    /\ conn' = [conn EXCEPT ![cur[s]].bulk = None]
    /\ rs' = [rs EXCEPT ![s] = "connected"]
    /\ mdb' = [mdb EXCEPT ![s] = 0]
    /\ UNCHANGED <<host, cur, child, left>>

(* The slave executes the next command of its master, and feeds its own   *)
(* slaves with it.                                                        *)
Apply(s) ==
    /\ rs[s] = "connected" /\ conn[cur[s]].buf # <<>>
    /\ LET x == Head(conn[cur[s]].buf)
           read == [conn EXCEPT ![cur[s]].buf = Tail(@)]
       IN  \/ /\ x.op = "select"
              /\ mdb' = [mdb EXCEPT ![s] = x.arg]
              /\ conn' = read /\ UNCHANGED data
           \/ /\ x.op = "write"
              /\ data' = [data EXCEPT ![s] = Append(@, <<x.arg, mdb[s]>>)]
              /\ conn' = replicationFeedSlaves(read, s, mdb[s], x.arg)
              /\ UNCHANGED mdb
    /\ UNCHANGED <<host, rs, cur, child, left>>

(* The slave gives its connection up: undoConnectWithMaster,              *)
(* replicationAbortSyncTransfer, or freeClient of server.master.          *)
DropLink(s) ==
    /\ conn' = FreeMasterLink(conn, s, host[s])
    /\ cur' = [cur EXCEPT ![s] = None]
    /\ rs' = [rs EXCEPT ![s] = "connect"]
    /\ UNCHANGED <<host, mdb, child>>

(* A timeout of replicationCron, or an error of the network or the disk.  *)
LinkFails(s) ==
    /\ Busy(s) /\ DropLink(s) /\ Fault /\ UNCHANGED data

(* Mutant of LinkEnds: the error reply to SYNC is not looked at.          *)
LinkEndsClosed(s) ==
    /\ Busy(s) /\ ~conn[cur[s]].mopen
    /\ DropLink(s) /\ UNCHANGED <<data, left>>

(* The dataset was emptied and the file cannot be loaded.                 *)
LoadFails(s) ==
    /\ rs[s] = "transfer" /\ conn[cur[s]].st = "online"
    /\ data' = [data EXCEPT ![s] = <<>>]
    /\ DropLink(s) /\ Fault

(* The master refused the SYNC or closed the connection.                  *)
LinkEnds(s) ==
    /\ Busy(s) /\ (~conn[cur[s]].mopen \/ conn[cur[s]].st = "refused")
    /\ DropLink(s) /\ UNCHANGED <<data, left>>

(* The master frees a slave's client: an error of the network, a buffer   *)
(* past its limit, CLIENT KILL; or the slave has closed the connection.   *)
SlaveFails(c) ==
    /\ conn[c].mopen
    /\ \/ ~conn[c].sopen /\ UNCHANGED left
       \/ conn[c].sopen /\ Fault
    /\ conn' = CloseMaster(conn, {c})
    /\ UNCHANGED <<data, host, rs, cur, mdb, child>>

(* SLAVEOF host port: the link to the old master is freed, the slaves are *)
(* disconnected, so that they resync.                                     *)
SlaveOf(n, m) ==
    /\ left.roles > 0 /\ m # n /\ host[n] # m
    /\ host' = [host EXCEPT ![n] = m]
    /\ conn' = disconnectSlaves(CloseSlave(conn, cur[n]), n)
    /\ cur' = [cur EXCEPT ![n] = None]
    /\ rs' = [rs EXCEPT ![n] = "connect"]
    /\ left' = [left EXCEPT !.roles = @ - 1]
    /\ UNCHANGED <<data, mdb, child>>

(* SLAVEOF NO ONE: the slaves stay, the dataset is the same.              *)
SlaveOfNoOne(n) ==
    /\ left.roles > 0 /\ host[n] # None
    /\ host' = [host EXCEPT ![n] = None]
    /\ conn' = FreeMasterLink(conn, n, None)
    /\ cur' = [cur EXCEPT ![n] = None]
    /\ rs' = [rs EXCEPT ![n] = "none"]
    /\ left' = [left EXCEPT !.roles = @ - 1]
    /\ UNCHANGED <<data, mdb, child>>

Progress(n) ==
    \/ Connect(n) \/ Ping(n) \/ SendSync(n) \/ ReadBulk(n) \/ Apply(n)
    \/ LinkEnds(n)
Served(c) == Sync(c) \/ SendBulk(c) \/ (SlaveFails(c) /\ ~conn[c].sopen)

Next ==
    \/ \E n \in Node :
          \/ \E d \in left.db : Write(n, d)
          \/ BgSave(n) \/ \E ok \in BOOLEAN : BgSaveDone(n, ok)
          \/ Progress(n) \/ LinkFails(n) \/ LoadFails(n) \/ SlaveOfNoOne(n)
          \/ \E m \in Node : SlaveOf(n, m)
    \/ \E c \in Conn : Sync(c) \/ SendBulk(c) \/ SlaveFails(c)

Spec == Init /\ [][Next]_vars

(* The event loop runs the handlers of ready sockets, cron runs, children *)
(* end; nothing makes a write, a BGSAVE, a fault or a SLAVEOF happen.     *)
(* Connect is strongly fair since only the bound Conn makes it wait.      *)
Fairness ==
    /\ \A n \in Node : SF_vars(Connect(n))
    /\ \A n \in Node : WF_vars(Progress(n)) /\ WF_vars(BgSaveDone(n, TRUE))
    /\ \A c \in Conn : WF_vars(Served(c))
FairSpec == Spec /\ Fairness

----------------------------------------------------------------------------
(* What the commands of buf do, read by a client in database d.           *)
Effect(buf, d) ==
    FoldLeft(LAMBDA s, x : IF x.op = "select" THEN [s EXCEPT !.db = x.arg]
                           ELSE [s EXCEPT !.seq = Append(@, <<x.arg, s.db>>)],
             [db |-> d, seq |-> <<>>], buf).seq

(* Each slave gets every write of its master exactly once, in order and   *)
(* in the right database: what it has, or will load, and what is on its   *)
(* way to it make the dataset of the master (replicationFeedSlaves,       *)
(* syncCommand, updateSlavesWaitingBgsave).  Nothing of the kind is true  *)
(* of a late slave: it collects the writes made since the fork failed and *)
(* gets the file of whatever BGSAVE ends next, that has some of them.     *)
StreamComplete ==
    \A m \in Node : \A c \in Slaves(conn, m) : ~conn[c].late =>
      LET s == conn[c].slave
          live == conn[c].sopen /\ rs[s] = "connected"
          from == IF conn[c].st = "end" THEN child[m]
                  ELSE IF conn[c].bulk # None THEN conn[c].bulk ELSE data[s]
          known == conn[c].bulk # None \/ (conn[c].st = "end" /\ child[m] # None)
      IN  conn[c].st \in Sent /\ (known \/ live) =>
                data[m] = from \o Effect(conn[c].buf, IF live THEN mdb[s] ELSE 0)

(* A slave that waits for a BGSAVE waits for one that runs, whatever else *)
(* fails, unless the fork of the BGSAVE it waited for has failed: the     *)
(* code means to free it then and does not (updateSlavesWaitingBgsave).   *)
WaitersHaveChild ==
    \A m \in Node : \A c \in Slaves(conn, m) :
      conn[c].st \in {"start", "end"} /\ ~conn[c].late => child[m] # None

(* When faults and changes of role have stopped, every slave ends up with *)
(* the dataset of its master, unless the servers follow each other in a   *)
(* circle, or the slave or its master is late: it waits for good then, or *)
(* has some writes twice.                                                 *)
Above(n) == IF host[n] = None THEN {} ELSE {host[n]}
Rooted(n) ==
    \E m \in Above(n) : host[m] = None \/ \E r \in Above(m) : host[r] = None
Late(n) == cur[n] # None /\ conn[cur[n]].late
Reached(n) == Rooted(n) /\ \A x \in {n} \cup Above(n) : ~Late(x)
Converges ==
    <>[](\A n \in Node : Reached(n) => rs[n] = "connected" /\ data[n] = data[host[n]])
=============================================================================
