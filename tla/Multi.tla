------------------------------- MODULE Multi -------------------------------
(***************************************************************************)
(* multi.c: MULTI, EXEC, DISCARD, WATCH and UNWATCH, with what processCommand *)
(* and call do around them: refusing and queueing commands, marking the     *)
(* clients that watch a modified key, and propagating to the slaves and the  *)
(* append only file what changed server.dirty.                              *)
(*                                                                         *)
(* The server runs one command at a time.  EXEC is several steps here, one  *)
(* per queued command, during which no other client is served.  The lists   *)
(* of watched keys and of watching clients are searched and never depend on *)
(* their order: the model keeps how many nodes they have for a key and a    *)
(* client.                                                                  *)
(***************************************************************************)
EXTENDS Integers, Sequences, FiniteSets

CONSTANTS Client, Db, Name, Val, Null,
          Lapsed,     \* in snap: the watched value expired or was evicted
          Plans       \* bounds: who connects, the commands they send, how many
                      \* they queue, and the changes at which they stop

\* The commands by what they do to keys and clients: "set" and "del" stand for
\* every write that signals what it changed, "get" for every read.
Op == {"get", "set", "del", "move", "select", "flushdb", "flushall", "save",
       "unwatch", "slaveof"}

ASSUME MultiConstants ==
    /\ Null \notin Client /\ Null \notin Val /\ Lapsed \notin Val /\ Lapsed # Null
    /\ \A p \in Plans :
          /\ p.clients \subseteq Client /\ p.queue \in Nat /\ p.dirty \in Nat
          /\ p.commands \subseteq [op : Op, name : Name, val : Val, db : Db]
    /\ IsFiniteSet(Db) /\ IsFiniteSet(Name) /\ Db # {}

Key == Db \X Name

Commands == UNION {p.commands : p \in Plans}

VARIABLES plan,      \* the plan of this behaviour
          data,      \* the value of every key of every database
          dirty,     \* server.dirty: changes since the last save
          slave,     \* server.masterhost # NULL, with slave-read-only yes
          flags,     \* c->flags
          cdb,       \* c->db
          mstate,    \* c->mstate: the queued commands
          watching,  \* c->watched_keys: the nodes for a key
          watchers,  \* db->watched_keys: the nodes for a client
          exec,      \* the EXEC under way
          stream,    \* what the propagated commands give where they are run
          snap,      \* history: the value of a key when it was watched
          silent,    \* history: the watched keys that changed without a signal
          saved      \* history: an EXEC has run SAVE

vars == <<plan, data, dirty, slave, flags, cdb, mstate, watching, watchers, exec,
          stream, snap, silent, saved>>

Dataset == [Key -> Val \cup {Null}]

NoExec == [client |-> Null, next |-> 1, propagated |-> FALSE, dirty |-> 0]

Unwatched == [k \in Key |-> 0]

NoSnap == [k \in Key |-> Null]

Init ==
    /\ plan \in Plans
    /\ data = [k \in Key |-> Null]
    /\ dirty = 0
    /\ slave = FALSE
    /\ flags = [c \in Client |-> {}]
    /\ cdb = [c \in Client |-> CHOOSE id \in Db : TRUE]
    /\ mstate = [c \in Client |-> <<>>]
    /\ watching = [c \in Client |-> Unwatched]
    /\ watchers = [k \in Key |-> [c \in Client |-> 0]]
    /\ exec = NoExec
    /\ stream = [data |-> data, block |-> data, open |-> FALSE]
    /\ snap = [c \in Client |-> NoSnap]
    /\ silent = [c \in Client |-> {}]
    /\ saved = FALSE

Serving == exec = NoExec

\* What c sends is handled.
Serves(c) == Serving /\ c \in plan.clients

-----------------------------------------------------------------------------
(* The command table and the commands' effect *)

IsWrite(q) == q.op \in {"set", "del", "move", "flushdb", "flushall"}

IsReadOnly(q) == q.op \in {"get", "select", "save", "unwatch"}

\* The keys q names when it runs in database id.
Scope(q, id) ==
    {k \in Key : \/ q.op \in {"set", "del", "move"} /\ k = <<id, q.name>>
                 \/ q.op = "move" /\ k = <<q.db, q.name>>
                 \/ q.op = "flushdb" /\ k[1] = id
                 \/ q.op = "flushall"}

\* moveCommand finds the key, and none of that name where it is to go.
Moves(ds, q, id) ==
    /\ q.op = "move" /\ q.db # id
    /\ ds[<<id, q.name>>] # Null /\ ds[<<q.db, q.name>>] = Null

DataAfter(ds, q, id) ==
    IF q.op = "move" /\ ~Moves(ds, q, id) THEN ds
    ELSE [k \in Key |-> IF k \notin Scope(q, id) THEN ds[k]
                        ELSE IF q.op = "set" THEN q.val
                        ELSE IF q.op = "move" /\ k[1] = q.db
                        THEN ds[<<id, q.name>>]
                        ELSE Null]

Present(ds, K) == {k \in K : ds[k] # Null}

\* The save of FLUSHALL does not reset dirty, that of SAVE does.
DirtyAfter(q, id) ==
    CASE q.op = "set" -> dirty + 1
      [] q.op \in {"del", "flushdb"} ->
            dirty + Cardinality(Present(data, Scope(q, id)))
      [] q.op = "flushall" -> dirty + Cardinality(Present(data, Key)) + 1
      [] q.op = "move" -> IF Moves(data, q, id) THEN dirty + 1 ELSE dirty
      [] q.op = "save" -> 0
      [] OTHER -> dirty

\* Mutant of FlushTouches: only clients outside a transaction are marked.
FlushTouchesIdle(c, K) ==
    "MULTI" \notin flags[c] /\ \E k \in K : watching[c][k] > 0 /\ data[k] # Null

\* touchWatchedKeysOnFlush: goes through the clients' own lists.
FlushTouches(c, K) == \E k \in K : watching[c][k] > 0 /\ data[k] # Null

\* Mutant of KeyTouches: a client that is flagged already is marked no more,
\* and one in a transaction is taken for flagged.
KeyTouchesOnce(c, K) == flags[c] = {} /\ \E k \in K : watchers[k][c] > 0

\* touchWatchedKey
KeyTouches(c, K) == \E k \in K : watchers[k][c] > 0

\* The clients that get DIRTY_CAS.  moveCommand calls no signalModifiedKey.
Touched(q, id) ==
    {c \in Client :
        \/ q.op \in {"flushdb", "flushall"} /\ FlushTouches(c, Scope(q, id))
        \/ q.op = "set" /\ KeyTouches(c, Scope(q, id))
        \/ q.op = "del" /\ KeyTouches(c, Present(data, Scope(q, id)))}

\* Watched keys of K change and nobody is told.
SilentAfter(K) ==
    [c \in Client |-> silent[c] \cup {k \in K : watching[c][k] > 0}]

Moved(q, id) == IF Moves(data, q, id) THEN Scope(q, id) ELSE {}

-----------------------------------------------------------------------------
(* The commands propagate sends, as a slave runs them: it queues what it gets *)
(* between MULTI and EXEC, so that a block takes effect as a whole.           *)
(* loadAppendOnlyFile runs a block as it reads it, and refuses a file that    *)
(* ends inside one.                                                          *)

FeedMulti(a) == [data |-> a.data, block |-> a.block, open |-> TRUE]

FeedExec(a) == [data |-> a.block, block |-> a.block, open |-> FALSE]

Feed(a, q, id) ==
    [data  |-> IF a.open THEN a.data ELSE DataAfter(a.data, q, id),
     block |-> DataAfter(a.block, q, id),
     open  |-> a.open]

-----------------------------------------------------------------------------
(* call: run q for c, then propagate it if it changed dirty *)

\* unwatchAllKeys
UnwatchAllKeys(c) ==
    /\ watching' = [watching EXCEPT ![c] = Unwatched]
    /\ watchers' = [k \in Key |->
                       [watchers[k] EXCEPT ![c] = @ - watching[c][k]]]
    /\ snap' = [snap EXCEPT ![c] = NoSnap]
    /\ silent' = [silent EXCEPT ![c] = {}]

\* Mutant of FlagsAfter: UNWATCH leaves the mark.
FlagsAfterMarked(c, q) ==
    [x \in Client |-> IF x \in Touched(q, cdb[c])
                     THEN flags[x] \cup {"DIRTY_CAS"} ELSE flags[x]]

FlagsAfter(c, q) ==
    [x \in Client |-> IF x = c /\ q.op = "unwatch" THEN flags[x] \ {"DIRTY_CAS"}
                     ELSE IF x \in Touched(q, cdb[c])
                     THEN flags[x] \cup {"DIRTY_CAS"} ELSE flags[x]]

Call(c, q, a) ==
    /\ data' = DataAfter(data, q, cdb[c])
    /\ dirty' = DirtyAfter(q, cdb[c])
    /\ stream' = IF dirty' # dirty THEN Feed(a, q, cdb[c]) ELSE a
    /\ cdb' = IF q.op = "select" THEN [cdb EXCEPT ![c] = q.db] ELSE cdb
    /\ slave' = IF q.op = "slaveof" THEN ~slave ELSE slave
    /\ flags' = FlagsAfter(c, q)
    /\ IF q.op = "unwatch" THEN UnwatchAllKeys(c)
       ELSE /\ UNCHANGED <<watching, watchers, snap>>
            /\ silent' = SilentAfter(Moved(q, cdb[c]))

-----------------------------------------------------------------------------
(* processCommand *)

\* An unknown command, wrong arity, no memory, no authentication...
RefuseAndFlag(c) ==
    /\ Serves(c)
    /\ "MULTI" \in flags[c]
    /\ flags' = [flags EXCEPT ![c] = @ \cup {"DIRTY_EXEC"}]
    /\ UNCHANGED <<plan, data, dirty, slave, cdb, mstate, watching, watchers, exec,
                   stream, snap, silent, saved>>

\* queueMultiCommand.  A write a read only slave refuses leaves no trace: the
\* transaction is not flagged.
QueueMultiCommand(c, q) ==
    /\ Serves(c) /\ q \in plan.commands
    /\ "MULTI" \in flags[c] /\ ~(slave /\ IsWrite(q))
    /\ Len(mstate[c]) < plan.queue
    /\ mstate' = [mstate EXCEPT ![c] = Append(@, q)]
    /\ UNCHANGED <<plan, data, dirty, slave, flags, cdb, watching, watchers, exec,
                   stream, snap, silent, saved>>

RunCommand(c, q) ==
    /\ Serves(c) /\ q \in plan.commands
    /\ "MULTI" \notin flags[c] /\ ~(slave /\ IsWrite(q))
    /\ dirty < plan.dirty
    /\ Call(c, q, stream)
    /\ UNCHANGED <<plan, mstate, exec, saved>>

-----------------------------------------------------------------------------
(* multi.c *)

MultiCommand(c) ==
    /\ Serves(c)
    /\ "MULTI" \notin flags[c]
    /\ flags' = [flags EXCEPT ![c] = @ \cup {"MULTI"}]
    /\ UNCHANGED <<plan, data, dirty, slave, cdb, mstate, watching, watchers, exec,
                   stream, snap, silent, saved>>

\* discardTransaction, for DISCARD, EXEC and the end of a client.
DiscardTransaction(c) ==
    /\ mstate' = [mstate EXCEPT ![c] = <<>>]
    /\ flags' = [flags EXCEPT ![c] = {}]
    /\ UnwatchAllKeys(c)

DiscardCommand(c) ==
    /\ Serves(c)
    /\ "MULTI" \in flags[c]
    /\ DiscardTransaction(c)
    /\ UNCHANGED <<plan, data, dirty, slave, cdb, exec, stream, saved>>

\* Mutant of WatchForKey: a key that is watched already is added again.
WatchForKeyAgain(c, k) ==
    /\ watching' = [watching EXCEPT ![c][k] = @ + 1]
    /\ watchers' = [watchers EXCEPT ![k][c] = @ + 1]
    /\ snap' = [snap EXCEPT ![c][k] = data[k]]

\* watchForKey
WatchForKey(c, k) ==
    IF watching[c][k] > 0 THEN UNCHANGED <<watching, watchers, snap>>
    ELSE /\ watching' = [watching EXCEPT ![c][k] = @ + 1]
         /\ watchers' = [watchers EXCEPT ![k][c] = @ + 1]
         /\ snap' = [snap EXCEPT ![c][k] = data[k]]

WatchCommand(c, n) ==
    /\ Serves(c)
    /\ "MULTI" \notin flags[c]
    /\ WatchForKey(c, <<cdb[c], n>>)
    /\ UNCHANGED <<plan, data, dirty, slave, flags, cdb, mstate, exec, stream, silent,
                   saved>>

\* EXEC of a transaction that was touched or flagged.
ExecAbort(c) ==
    /\ Serves(c)
    /\ "MULTI" \in flags[c] /\ flags[c] \cap {"DIRTY_CAS", "DIRTY_EXEC"} # {}
    /\ DiscardTransaction(c)
    /\ UNCHANGED <<plan, data, dirty, slave, cdb, exec, stream, saved>>

ExecBegin(c) ==
    /\ Serves(c)
    /\ "MULTI" \in flags[c] /\ flags[c] \cap {"DIRTY_CAS", "DIRTY_EXEC"} = {}
    /\ dirty < plan.dirty
    /\ UnwatchAllKeys(c)
    /\ exec' = [client |-> c, next |-> 1, propagated |-> FALSE, dirty |-> dirty]
    /\ UNCHANGED <<plan, data, dirty, slave, flags, cdb, mstate, stream, saved>>

\* One queued command; MULTI is propagated before the first that is no read.
ExecStep ==
    /\ ~Serving
    /\ exec.next <= Len(mstate[exec.client])
    /\ LET q == mstate[exec.client][exec.next]
           starts == ~exec.propagated /\ ~IsReadOnly(q)
       IN /\ Call(exec.client, q, IF starts THEN FeedMulti(stream) ELSE stream)
          /\ exec' = [client |-> exec.client, next |-> exec.next + 1,
                      propagated |-> exec.propagated \/ starts,
                      dirty |-> exec.dirty]
          /\ saved' = (saved \/ q.op = "save")
    /\ UNCHANGED <<plan, mstate>>

\* Mutant of DirtyAtEnd: dirty is not changed for the sake of EXEC.
DirtyAtEndSame == dirty

DirtyAtEnd == IF exec.propagated THEN dirty + 1 ELSE dirty

\* The end of execCommand, and of the call that ran it.
ExecEnd ==
    /\ ~Serving
    /\ exec.next > Len(mstate[exec.client])
    /\ DiscardTransaction(exec.client)
    /\ dirty' = DirtyAtEnd
    /\ stream' = IF dirty' # exec.dirty THEN FeedExec(stream) ELSE stream
    /\ exec' = NoExec
    /\ UNCHANGED <<plan, data, slave, cdb, saved>>

-----------------------------------------------------------------------------
(* The rest of the server *)

\* Mutant of FreeClient: the client is freed while it is in the lists.
FreeClientWatching(c) ==
    /\ Serves(c)
    /\ mstate' = [mstate EXCEPT ![c] = <<>>]
    /\ flags' = [flags EXCEPT ![c] = {}]
    /\ watching' = [watching EXCEPT ![c] = Unwatched]
    /\ cdb' = [cdb EXCEPT ![c] = CHOOSE id \in Db : TRUE]
    /\ snap' = [snap EXCEPT ![c] = NoSnap]
    /\ silent' = [silent EXCEPT ![c] = {}]
    /\ UNCHANGED <<plan, data, dirty, slave, watchers, exec, stream, saved>>

\* freeClient; the client may connect again.
FreeClient(c) ==
    /\ Serves(c)
    /\ DiscardTransaction(c)
    /\ cdb' = [cdb EXCEPT ![c] = CHOOSE id \in Db : TRUE]
    /\ UNCHANGED <<plan, data, dirty, slave, exec, stream, saved>>

\* A key is expired (expireIfNeeded, activeExpireCycle) or evicted
\* (freeMemoryIfNeeded): a DEL is propagated, no watcher is told.  A queued
\* command that looks a key up expires it in the middle of an EXEC.
Vanish(k) ==
    /\ data[k] # Null
    /\ data' = [data EXCEPT ![k] = Null]
    /\ stream' = [data  |-> IF stream.open THEN stream.data
                         ELSE [stream.data EXCEPT ![k] = Null],
               block |-> [stream.block EXCEPT ![k] = Null],
               open  |-> stream.open]
    /\ snap' = [c \in Client |-> IF watching[c][k] = 0 THEN snap[c]
                                ELSE [snap[c] EXCEPT ![k] = Lapsed]]
    /\ UNCHANGED <<plan, dirty, slave, flags, cdb, mstate, watching, watchers, exec,
                   silent, saved>>

\* readSyncBulkPayload: a slave empties its dataset and loads the snapshot of
\* its master, ds.  The clients are told as for FLUSHALL, of the keys that were
\* there.  Slaves of the slave and the append only file begin again from ds.
LoadSnapshot(ds) ==
    /\ Serving /\ slave
    /\ data' = ds
    /\ flags' = [c \in Client |-> IF FlushTouches(c, Key)
                                  THEN flags[c] \cup {"DIRTY_CAS"} ELSE flags[c]]
    /\ silent' = SilentAfter({k \in Key : data[k] = Null /\ ds[k] # Null})
    /\ stream' = [data |-> ds, block |-> ds, open |-> FALSE]
    /\ saved' = FALSE
    /\ UNCHANGED <<plan, dirty, slave, cdb, mstate, watching, watchers, exec, snap>>

\* backgroundSaveDoneHandler: the changes the child saved no longer count.
BackgroundSaveDone(n) ==
    /\ Serving
    /\ dirty' = n
    /\ UNCHANGED <<plan, data, slave, flags, cdb, mstate, watching, watchers, exec,
                   stream, snap, silent, saved>>

Next ==
    \/ \E c \in Client :
          \/ RefuseAndFlag(c)
          \/ \E q \in Commands : QueueMultiCommand(c, q) \/ RunCommand(c, q)
          \/ MultiCommand(c) \/ DiscardCommand(c)
          \/ \E n \in Name : WatchCommand(c, n)
          \/ ExecAbort(c) \/ ExecBegin(c)
          \/ FreeClient(c)
    \/ ExecStep \/ ExecEnd
    \/ \E k \in Key : Vanish(k)
    \/ \E ds \in Dataset : LoadSnapshot(ds)
    \/ \E n \in 0..(dirty - 1) : BackgroundSaveDone(n)

Spec == Init /\ [][Next]_vars

-----------------------------------------------------------------------------
(* Properties *)

\* Types; a key is watched at most once by a client.
TypeOK ==
    /\ plan \in Plans
    /\ data \in Dataset
    /\ dirty \in Nat
    /\ slave \in BOOLEAN
    /\ flags \in [Client -> SUBSET {"MULTI", "DIRTY_CAS", "DIRTY_EXEC"}]
    /\ cdb \in [Client -> Db]
    /\ mstate \in [Client -> Seq(Commands)]
    /\ watching \in [Client -> [Key -> 0..1]]
    /\ watchers \in [Key -> [Client -> 0..1]]
    /\ exec \in [client : Client \cup {Null}, next : Nat \ {0},
                 propagated : BOOLEAN, dirty : Nat]
    /\ stream \in [data : Dataset, block : Dataset, open : BOOLEAN]
    /\ snap \in [Client -> [Key -> Val \cup {Null, Lapsed}]]
    /\ silent \in [Client -> SUBSET Key]
    /\ saved \in BOOLEAN

\* The two indexes agree, which is what the assertion of unwatchAllKeys and
\* the search in the list of clients rely on.
WatchIndex == \A c \in Client, k \in Key : watching[c][k] = watchers[k][c]

\* k is as c watched it, or absent because it expired or was evicted.
AsWatched(c, k) == data[k] = IF snap[c][k] = Lapsed THEN Null ELSE snap[c][k]

\* A transaction that will not be aborted runs on the values its client saw
\* when it watched them, except for what the code changes without a signal:
\* keys that expired or were evicted are absent, and the keys of a MOVE and
\* those that came with the snapshot of a master may have any value.
WatchedUnchanged ==
    \A c \in Client : "DIRTY_CAS" \notin flags[c] =>
        \A k \in Key \ silent[c] : watching[c][k] > 0 => AsWatched(c, k)

\* db.c: "Every time a key in the database is modified the function
\* signalModifiedKey() is called": only expiry and eviction, of which the
\* comment does not speak, change a watched key without a mark.
EveryChangeSignalled ==
    \A c \in Client : "DIRTY_CAS" \notin flags[c] =>
        \A k \in Key : watching[c][k] > 0 => AsWatched(c, k)

\* EXEC fails with a nil only for a reason: a client is marked only while it
\* watches something, so a mark never outlives UNWATCH, DISCARD or EXEC.
MarkedWatches ==
    \A c \in Client : "DIRTY_CAS" \in flags[c] =>
        \E k \in Key : watching[c][k] > 0

\* execCommand: "we'll deliver the MULTI/..../EXEC block as a whole": whenever
\* no EXEC is under way no block is open in what was propagated, and a slave or
\* a server that loads the append only file has the dataset; unless an EXEC ran
\* SAVE, which resets the counter that decides whether EXEC is propagated.
StreamAgrees == Serving /\ ~saved => ~stream.open /\ stream.data = data

\* execCommand: "Make sure the EXEC command will be propagated as well if MULTI
\* was already propagated": between two commands no block is open.
ExecFollowsMulti == Serving => ~stream.open
=============================================================================
