------------------------------ MODULE Keyspace ------------------------------
(* db.c and t_string.c: keys with a time to live.  A key that is past its *)
(* time is deleted by the master alone, when it is looked up or by the    *)
(* cron, and a DEL is propagated.  Commands are executed by the master,   *)
(* again by a slave that lags behind, and again when the append only file *)
(* is loaded.  A command runs within one tick of the clock.               *)
EXTENDS Integers, Sequences, SequencesExt, FiniteSetsExt

CONSTANTS
    Db, Key,
    None,        \* no value
    MaxValue,    \* LLONG_MAX for INCR, and the longest string for APPEND
    MaxTime,     \* bound: the last tick of the clock
    LoadTime     \* when the append only file is loaded, after everything else

ASSUME KeyspaceConstants ==
    /\ 0 \in Db /\ IsFiniteSet(Db) /\ IsFiniteSet(Key) /\ None \notin Int
    /\ MaxValue \in Nat /\ MaxTime \in Nat /\ LoadTime \in Int /\ LoadTime > MaxTime

VARIABLES now,    \* mstime()
          db,     \* the master
          slave,  \* a slave
          sent,   \* what the slave has not executed yet
          aof,    \* what the load of the append only file gives
          plan    \* what is left of the scenario

ksVars == <<now, db, slave, sent, aof, plan>>

Cell == Db \X Key
Never == -1    \* what getExpire returns for a key without a time

(* A server: db->dict, db->expires, and of the command it runs what it    *)
(* propagates (out).                                                      *)
Server(role, val, exp) == [role |-> role, val |-> val, exp |-> exp, out |-> <<>>]
(* mstime(): one clock for all machines, so what a slave or a load does   *)
(* when the clocks of two machines differ is not covered.  A load runs at *)
(* any later time.                                                        *)
Clock(s) == IF s.role = "loading" THEN LoadTime ELSE now
In(s, d) == {x \in Cell : x[1] = d /\ s.val[x] # None}

(* S: the scenarios, that say which commands are sent and how many, if    *)
(* there is an append only file, and the first datasets.                  *)
KsInit(S) ==
    /\ now = 0 /\ sent = <<>>
    /\ \E p \in S : \E i \in p.start :
         /\ plan = [commands |-> p.commands, ops |-> p.ops, aof |-> p.aof]
         /\ db = Server("master", i.val, i.exp)
         /\ slave = Server("slave", i.val, i.exp)
         /\ aof = Server("loading", i.val, i.exp)

----------------------------------------------------------------------------
(* A command: its cells (y of the commands of two keys), value, option    *)
(* and time, a number of ticks or an instant.                             *)
Cmd(op, x, y, v, opt, ttl) ==
    [op |-> op, x |-> x, y |-> y, v |-> v, opt |-> opt, ttl |-> ttl]
Del(x) == Cmd("del", x, x, 0, "none", 0)

dbDelete(s, x) == [s EXCEPT !.val[x] = None, !.exp[x] = Never]
dbPut(s, x, v) == [s EXCEPT !.val[x] = v]
setExpire(s, x, when) == [s EXCEPT !.exp[x] = when]
Propagated(s, c) == [s EXCEPT !.out = Append(@, c)]

(* Only a master deletes; the lookup of a slave finds the key still.      *)
Expired(s, x) == s.exp[x] >= 0 /\ Clock(s) > s.exp[x]

(* Mutant of expireIfNeeded: the deletion is not propagated.              *)
ExpireSilently(s, x) ==
    IF s.role = "master" /\ Expired(s, x) THEN dbDelete(s, x) ELSE s

expireIfNeeded(s, x) ==
    IF s.role = "master" /\ Expired(s, x)
    THEN dbDelete(Propagated(s, Del(x)), x) ELSE s

ExpireAll(s, X) == FoldLeft(expireIfNeeded, s, SetToSeq(X))

setKey(s, x, v) == setExpire(dbPut(expireIfNeeded(s, x), x, v), x, Never)

(* SET with NX, XX, EX and PX, SETNX, SETEX and PSETEX.                   *)
setGenericCommand(s, c) ==
    LET t == IF c.opt = "none" THEN s ELSE expireIfNeeded(s, c.x)
        stop == \/ c.opt = "nx" /\ t.val[c.x] # None
                \/ c.opt = "xx" /\ t.val[c.x] = None
        u == setKey(t, c.x, c.v)
    IN  IF stop THEN t
        ELSE Propagated(IF c.ttl = 0 THEN u
                        ELSE setExpire(u, c.x, Clock(s) + c.ttl), c)

getsetCommand(s, c) == Propagated(setKey(expireIfNeeded(s, c.x), c.x, c.v), c)

(* The commands that change a value and keep its time.  INCRBYFLOAT is    *)
(* propagated as a SET of the result.                                     *)
Changed(s, c, rewritten) ==
    LET t == expireIfNeeded(s, c.x)
        old == IF t.val[c.x] = None THEN 0 ELSE t.val[c.x]
    IN  IF old + c.v > MaxValue THEN t
        ELSE Propagated(dbPut(t, c.x, old + c.v),
                        IF rewritten THEN Cmd("set", c.x, c.x, old + c.v, "none", 0) ELSE c)
incrDecrCommand(s, c) == Changed(s, c, FALSE)
appendCommand(s, c) == Changed(s, c, FALSE)
incrbyfloatCommand(s, c) == Changed(s, c, TRUE)

(* SETRANGE of nothing does nothing; a string only gets longer.           *)
setrangeCommand(s, c) ==
    LET t == expireIfNeeded(s, c.x)
    IN  IF c.v = 0 THEN t ELSE Propagated(dbPut(t, c.x, Max({t.val[c.x], c.v} \ {None})), c)

msetGenericCommand(s, c) ==
    LET t == IF c.opt = "nx" THEN expireIfNeeded(expireIfNeeded(s, c.x), c.y) ELSE s
        busy == c.opt = "nx" /\ (t.val[c.x] # None \/ t.val[c.y] # None)
    IN  IF busy THEN t ELSE Propagated(setKey(setKey(t, c.x, c.v), c.y, c.v), c)

delCommand(s, c) ==
    IF s.val[c.x] = None /\ s.val[c.y] = None THEN s
    ELSE Propagated(dbDelete(dbDelete(s, c.x), c.y), c)

(* RENAME takes the time along, MOVE does not.                            *)
renameGenericCommand(s, c) ==
    LET t == expireIfNeeded(s, c.x)
        u == expireIfNeeded(t, c.y)
        w == setExpire(dbPut(dbDelete(u, c.y), c.y, t.val[c.x]), c.y, t.exp[c.x])
    IN  IF t.val[c.x] = None THEN t
        ELSE IF u.val[c.y] # None /\ c.opt = "nx" THEN u
        ELSE Propagated(dbDelete(w, c.x), c)

moveCommand(s, c) ==
    LET t == expireIfNeeded(s, c.x)
        u == expireIfNeeded(t, c.y)
    IN  IF t.val[c.x] = None THEN t
        ELSE IF u.val[c.y] # None THEN u
        ELSE Propagated(dbDelete(dbPut(u, c.y, t.val[c.x]), c.x), c)

(* EXPIRE, PEXPIRE and, with opt "at", EXPIREAT and PEXPIREAT.  A time in *)
(* the past deletes the key, on a master that is not loading.             *)
expireGenericCommand(s, c) ==
    LET t == expireIfNeeded(s, c.x)
        when == IF c.opt = "at" THEN c.ttl ELSE Clock(s) + c.ttl
    IN  IF t.val[c.x] = None THEN t
        ELSE IF when <= Clock(s) /\ s.role = "master"
             THEN Propagated(dbDelete(t, c.x), Del(c.x))
             ELSE Propagated(setExpire(t, c.x, when), c)

persistCommand(s, c) ==
    IF s.val[c.x] = None \/ s.exp[c.x] = Never THEN s
    ELSE Propagated(setExpire(s, c.x, Never), c)

restoreCommand(s, c) ==
    LET t == expireIfNeeded(s, c.x)
        u == dbPut(t, c.x, c.v)
    IN  IF t.val[c.x] # None THEN t
        ELSE Propagated(IF c.ttl = 0 THEN u
                        ELSE setExpire(u, c.x, Clock(s) + c.ttl), c)

(* FLUSHDB of an empty database changes nothing, FLUSHALL always does.    *)
flushdbCommand(s, c) ==
    LET X == In(s, c.x[1])
        t == FoldLeft(dbDelete, s, SetToSeq(X))
    IN  IF X = {} THEN s ELSE Propagated(t, c)
flushallCommand(s, c) ==
    Propagated(FoldLeft(dbDelete, s, SetToSeq(Cell)), c)

(* GET, EXISTS, TYPE, STRLEN look one key up, KEYS all of a database.     *)
lookupKeyRead(s, c) == expireIfNeeded(s, c.x)
keysCommand(s, c) == ExpireAll(s, In(s, c.x[1]))

Exec(s, c) ==
    CASE c.op = "set" -> setGenericCommand(s, c)
      [] c.op = "setex" -> setGenericCommand(s, c)
      [] c.op = "getset" -> getsetCommand(s, c)
      [] c.op = "incr" -> incrDecrCommand(s, c)
      [] c.op = "append" -> appendCommand(s, c)
      [] c.op = "setrange" -> setrangeCommand(s, c)
      [] c.op = "incrbyfloat" -> incrbyfloatCommand(s, c)
      [] c.op = "mset" -> msetGenericCommand(s, c)
      [] c.op = "del" -> delCommand(s, c)
      [] c.op = "rename" -> renameGenericCommand(s, c)
      [] c.op = "move" -> moveCommand(s, c)
      [] c.op = "expire" -> expireGenericCommand(s, c)
      [] c.op = "persist" -> persistCommand(s, c)
      [] c.op = "restore" -> restoreCommand(s, c)
      [] c.op = "flushdb" -> flushdbCommand(s, c)
      [] c.op = "flushall" -> flushallCommand(s, c)
      [] c.op = "keys" -> keysCommand(s, c)
      [] c.op = "get" -> lookupKeyRead(s, c)

----------------------------------------------------------------------------
(* Mutant of feedAppendOnlyFile: nothing is translated.                   *)
FeedVerbatim(c) == <<c>>

(* feedAppendOnlyFile makes the times of EXPIRE and SETEX absolute.       *)
feedAppendOnlyFile(c) ==
    CASE c.op = "expire" /\ c.opt # "at" ->
            <<[c EXCEPT !.opt = "at", !.ttl = now + c.ttl]>>
      [] c.op = "setex" ->
            <<[c EXCEPT !.op = "set", !.ttl = 0],
              Cmd("expire", c.x, c.x, 0, "at", now + c.ttl)>>
      [] OTHER -> <<c>>

Written(commands) ==
    FoldLeft(LAMBDA q, c : q \o feedAppendOnlyFile(c), <<>>, commands)

Run(s, commands) ==
    FoldLeft(LAMBDA t, c : [Exec(t, c) EXCEPT !.out = <<>>], s, commands)

(* What the master has done and propagated.                               *)
Done(s) ==
    /\ db' = [s EXCEPT !.out = <<>>]
    /\ sent' = sent \o s.out
    /\ aof' = IF plan.aof THEN Run(aof, Written(s.out)) ELSE aof
    /\ UNCHANGED <<now, slave>>

Call(c) ==
    /\ plan.ops > 0
    /\ plan' = [plan EXCEPT !.ops = @ - 1]
    /\ Done(Exec(db, c))

(* activeExpireCycle finds some of the keys that are past their time, the *)
(* search of RANDOMKEY some of those of one database.                     *)
PastTime(D) == {x \in Cell : x[1] \in D /\ Expired(db, x)}
ActiveExpireCycle(X) == X # {} /\ Done(ExpireAll(db, X)) /\ UNCHANGED plan
RandomKey(X) == X # {} /\ Done(ExpireAll(db, X)) /\ UNCHANGED plan

(* freeMemoryIfNeeded: each round evicts a key of every database that has *)
(* one, or has one with a time when the policy is volatile.               *)
Candidates(d, volatile) ==
    {x \in In(db, d) : volatile => db.exp[x] # Never}
Evict(s, x) == dbDelete(Propagated(s, Del(x)), x)
FreeMemoryIfNeeded(volatile) ==
    /\ plan.ops > 0
    /\ plan' = [plan EXCEPT !.ops = @ - 1]
    /\ \E X \in SUBSET Cell :
         /\ X # {}
         /\ \A d \in Db :
              LET picked == {x \in X : x[1] = d}
              IN  /\ picked \subseteq Candidates(d, volatile)
                  /\ Cardinality(picked) = IF Candidates(d, volatile) = {} THEN 0 ELSE 1
         /\ Done(FoldLeft(Evict, db, SetToSeq(X)))

(* The slave executes the next command of its master.                     *)
SlaveRuns ==
    /\ sent # <<>>
    /\ slave' = Run(slave, <<Head(sent)>>)
    /\ sent' = Tail(sent)
    /\ UNCHANGED <<now, db, aof, plan>>

Tick == now < MaxTime /\ now' = now + 1 /\ UNCHANGED <<db, slave, sent, aof, plan>>

KsNext ==
    \/ \E c \in plan.commands : Call(c)
    \/ \E X \in SUBSET PastTime(Db) : ActiveExpireCycle(X)
    \/ \E d \in Db : \E X \in SUBSET PastTime({d}) : RandomKey(X)
    \/ \E volatile \in BOOLEAN : FreeMemoryIfNeeded(volatile)
    \/ SlaveRuns \/ Tick

----------------------------------------------------------------------------
(* The scenarios.  SET, SETEX and RESTORE refuse a time that is not       *)
(* positive, SETEX has no options.                                        *)
Value == Int \cup {None}
Ops == {"set", "setex", "getset", "incr", "append", "setrange", "incrbyfloat", "mset",
        "del", "rename", "move", "expire", "persist", "restore", "flushdb", "flushall",
        "keys", "get"}
Command ==
    {c \in [op : Ops, x : Cell, y : Cell, v : Int, opt : {"none", "nx", "xx", "at"}, ttl : Int] :
        /\ c.op \in {"set", "restore"} => c.ttl >= 0
        /\ c.op = "setex" => c.ttl > 0 /\ c.opt = "none"}

(* SET and RESTORE with a time are written to the file as they are.       *)
Restorable(c) == c.op \in {"set", "restore"} => c.ttl = 0
GivesTime(c) == c.op \in {"setex", "expire"} \/ ~Restorable(c)

(* INCRBYFLOAT, propagated as a SET, takes the time of its key from the   *)
(* slave, and a duration in the file starts again at every load: they are *)
(* for scenarios without times and without a file.                        *)
Scenarios(S) ==
    \A p \in S :
        /\ p.commands \subseteq Command /\ p.ops \in Nat /\ p.aof \in BOOLEAN
        /\ \A i \in p.start :
             /\ i.val \in [Cell -> Value] /\ i.exp \in [Cell -> Nat \cup {Never}]
             /\ \A x \in Cell : i.exp[x] # Never => i.val[x] # None
        /\ (\E c \in p.commands : c.op = "incrbyfloat") =>
             /\ \A c \in p.commands : ~GivesTime(c)
             /\ \A i \in p.start : \A x \in Cell : i.exp[x] = Never
        /\ p.aof => \A c \in p.commands : Restorable(c)

----------------------------------------------------------------------------
(* A time belongs to a key: what getExpire, setExpire and removeExpire    *)
(* assert.  A slave that has executed everything has the keys and values  *)
(* of its master, whatever expired or was evicted meanwhile, and the same *)
(* keys have a time, that is never earlier than on the master.            *)
SlaveFollows ==
    /\ \A s \in {db, slave, aof} : \A x \in Cell : s.exp[x] # Never => s.val[x] # None
    /\ sent = <<>> =>
         /\ slave.val = db.val
         /\ \A x \in Cell : /\ slave.exp[x] >= db.exp[x]
                            /\ db.exp[x] = Never => slave.exp[x] = Never

(* A restart from the append only file gives the dataset, and every key   *)
(* the time it had: the file holds instants, not durations.               *)
LoadRestores == plan.aof => aof.val = db.val /\ aof.exp = db.exp
=============================================================================
