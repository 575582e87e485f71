# A TLA+ model of the Redis 2.6.16 server with aggregated dict entries

The repository is a fork of Redis 2.6.16 (`src/redis-2.6.16/src`). What the fork
adds is `memory_aggregator.c`, an allocator that cuts hash table entries out of
mapped pages so that entries looked up together share a page, its use in
`dictAddRaw`, hardware counters (`papiwrap.c`) and a benchmark. Everything else is
the Redis server. This directory specifies the parts of both that carry state and
order: the modules are TLA+, checked with TLC on small instances and, for the ones
that have a `...Proofs` module, proved with TLAPS for all values of their
constants. `PROJECT.json` maps every definition to the lines it models and lists
the runs, the mutants, the hazards and the theorems.

## The system

The server is one process. Its **main thread** runs an event loop (`ae.c`): before
each poll `beforeSleep` resumes unblocked clients and flushes the append only file,
then the sockets that are ready are read and their commands executed to the end,
one at a time, then `serverCron` runs as a timer. Beside it there are the **bio
threads** (closing and syncing files), **child processes** (snapshot, rewrite of
the append only file) that work on a copy of the memory, **slaves** that get the
stream of propagated commands, and the disk. There is no other concurrency, so that
what is hard is (1) order: state that one command leaves and a later command, a
timer or a callback uses; (2) the threads and children; (3) crashes.

| Component | State | Operations | Interacts with | What makes it correct |
|---|---|---|---|---|
| Hash table `dict.c` | two tables, rehash position, iterator count | add, replace, delete, find, random key, resize, rehash, iterate | every other component; cron rehashes, children suspend resizing | it is a map although it is half moved; no key lost, doubled or skipped by an iteration |
| Page pool `memory_aggregator.c` | list of pages with an offset | alloc_entry, alloc_entry_skip, alloc_entry_random | dictAddRaw; the C library's malloc; mmap | entries do not overlap; no dangling node |
| Background I/O `bio.c` | a queue, a counter, a mutex per job type | create job, pending count, worker loop | append only file (fsync, close) | a count of 0 means done; order; no lost wakeup |
| Transactions `multi.c` | queued commands, flags, watched keys of clients, watching clients of keys | MULTI, EXEC, DISCARD, WATCH, UNWATCH, touching | every write, flush, expiry; propagation | EXEC runs on what was watched, or the exceptions are known; a block is propagated whole |
| Blocking lists `t_list.c` | waiting clients of keys, ready keys, unblocked clients | BLPOP, BRPOP, BRPOPLPUSH, push, serve, timeout | event loop, EXEC, freeClient, propagation | no element lost or delivered twice, nobody waits in vain, serving ends |
| Append only file `aof.c` | buffer, rewrite buffer, file, fsync policy, child | feed, flush, rewrite, switch on/off, load | bio, cron, snapshots, shutdown | the file loads to the dataset; acknowledged writes survive |
| Snapshots `rdb.c` | child pid, what an object is in a file | SAVE, BGSAVE, load | cron, replication, append only file | an object read again is the one written |
| Replication `replication.c` | link state machines, output queues | SYNC, SLAVEOF, cron | snapshots, clients, other servers | a slave gets every write once, in order, in its database; it ends up with the master's dataset |
| Keyspace and expiry `db.c`, `t_string.c` | keys, values, expire times | lookup, commands on keys and strings, active expiry, eviction | propagation of DEL, slaves, append only file | a slave that has executed everything agrees; the file restores the times |
| Clients `networking.c` | output buffer and list, query buffer, limits, lists of clients | accept, read, reply, close now or later | everything that keeps a client pointer | replies whole and in order; no list keeps a freed client; requests as sent |
| Pub/sub `pubsub.c` | channel and pattern indexes | (P)SUBSCRIBE, PUBLISH | clients | the two indexes agree; each message once |
| Sentinel `sentinel.c` | instances, votes, failover state, script queue | pings, INFO, hello, votes, failover, scripts | other sentinels, servers, child processes | nobody is told to follow a server that was never a master; the pointers of the failover are good |
| Data types `t_*.c` | values in up to two encodings each | commands | keyspace, propagation | whatever the encoding, a key holds what the commands made of it |
| Encodings `ziplist.c`, `intset.c`, skiplist | bytes, lengths, spans | insert, delete, search, convert | data types, snapshots | what each search relies on |
| Server core `redis.c` | cron, command table, memory limit | processCommand, call, eviction | all | refused commands change nothing |

The hazards list of `PROJECT.json` says, line by line, what can go wrong in these
parts that a test would hardly reach, and which property would catch it.

## The modules

| Module | Models | Composition |
|---|---|---|
| `DictMap` | what a dict promises: a map with replies | abstract specification |
| `Dict`, `MCDict`, `DictProofs` | `dict.c` and the cron and resize policy of `redis.c` | refines `DictMap` |
| `PagePool`, `MCPagePool`, `PagePoolProofs` | `memory_aggregator.c` | |
| `Bio`, `MCBio` (proofs in `ServerProofs`) | `bio.c`, main thread and workers | |
| `Multi`, `MCMulti`, `MultiProofs` | `multi.c`, with `processCommand`, `call`, `propagate`, expiry | |
| `Blocking`, `BlockingProofs` | `t_list.c`, with `freeClient`, `beforeSleep`, the turns of the event loop | |
| `Aof`, `MCAof`, `AofProofs` | `aof.c`, with the children, shutdown, crash and load | uses what `Bio` shows: a job runs once, in order |
| `Replication`, `MCReplication`, `ReplicationProofs` | `replication.c`, both ends, with BGSAVE and `freeClient` | three servers composed |
| `Sentinel`, `SentinelScripts`, `MCSentinel`, `SentinelProofs` | `sentinel.c`: the failover, and the queue of scripts | the two side by side; they share no state |
| `Strings`, `Objects` | what the types see of `object.c`, `util.c`, `db.c` | |
| `Ziplist`, `Intset`, `Skiplist` | `ziplist.c`, `intset.c`, the skiplist of `t_zset.c` | used by the types |
| `ListType`, `SetType`, `HashType`, `ZsetType` | `t_list.c`, `t_set.c`, `t_hash.c`, `t_zset.c` | each over its encodings |
| `RdbObject` | objects in `rdb.c`, DUMP and RESTORE of `migrate.c` | over all the types |
| `Types` | the commands of all the types over one keyspace | composes the six above |
| `MCTypes` | | `Types` and `Blocking`, one at a time |
| `Keyspace`, `ServerProofs` | `db.c`, `t_string.c`, expiry, eviction; a master, a slave, a loaded file | |
| `Clients` | the output half of `networking.c`, `pubsub.c`, MONITOR | |
| `Protocol` | the input half of `networking.c` | |
| `MCServer` | | the last three and `PagePool`, one part at a time |

### Dict

`d` holds the two tables (`ht0`, `ht1`), `rehashidx` and the entries' keys and
values; a chain is a set of entries because the code only ever searches it. `iter`
is one safe iterator, with the order of a chain chosen step by step. One action per
function of `dict.c`; a function that begins with `_dictRehashStep` does that step
in the same action. `Hash` is a constant function, so that collisions are chosen by
the instance; `InitialSize`, `ForceRatio`, `MinFill` stand for
`DICT_HT_INITIAL_SIZE`, `dict_force_resize_ratio` and `REDIS_HT_MINFILL`.
`DictDelete` is the deletion by the user of the iterator (`keysCommand` deletes the
entry it was given). A safe iterator does not protect more than that: deleting the
*next* entry of the chain leaves `nextEntry` dangling, although the comment of
`dict.h` allows "other functions against the dictionary even while iterating"; no
caller in the repository does it.

### PagePool

`node` are the `page_state` structs, `live` and `freed` the chunks of malloc (a
freed chunk is the next one handed out, as in the thread cache of the C library),
`entries` the memory handed out so far. `alloc_entry`, `alloc_entry_skip` and
`alloc_entry_random` differ only in how they choose the page. Reading a freed node
before it is reused ends the behaviour in `status = "undefined"`. After a failed mmap
an entry is cut at the offset of the head from the page that was removed, and may run
past the end of that page (`Spills`): what is behind it depends on where the kernel put
the pages, and `CutEntriesSound` claims nothing of such an entry.

### Bio

Each lock, queue, counter and signal operation of `bioCreateBackgroundJob`,
`bioPendingJobsOfType` and `bioProcessBackgroundJobs` is a step, so that the main
thread and the workers interleave between any two of them. Spurious wakeups are
allowed.

### Multi

The server runs one command at a time; EXEC takes one step per queued command, and
nothing but those steps happens meanwhile. `watching` and `watchers` count the nodes
of the two lists that index watched keys. `Plans` says who connects and which commands
they send: `set` and `del` stand for the writes that signal what they changed, `get` for
the reads, and MOVE, SELECT, the flushes, SAVE, SLAVEOF and UNWATCH are themselves.
`stream` is the state of somebody who runs what is propagated; a slave queues a block
until its EXEC. `Vanish` is expiry or eviction, `LoadSnapshot` a slave that loads what its
master sent.

Four changes of a key mark no client that watches it. Expiry and eviction are recorded in
`snap` (`Lapsed`). MOVE, and a key that was absent and comes with the snapshot of a master
(`signalFlushedDb` marks for the keys that were there), are recorded in `silent`, a
history variable. `WatchedUnchanged` is about everything else, so that it says what EXEC
can be trusted with; `EveryChangeSignalled` is what the comment of `db.c` says, and MOVE
violates it. `saved` records in the same way that an EXEC has run SAVE, which
`StreamAgrees` excepts; `ExecFollowsMulti` is the promise of `multi.c` without that
exception, and SAVE violates it.

### Blocking

`blocking`, `ready`, `readyset`, `unblocked` are `db->blocking_keys`,
`server.ready_keys`, `db->ready_keys` and `server.unblocked_clients`. Every pushed
value is a new number, so that the properties can follow it. `phase` and `turn` are
the turns of the event loop, in each of which a client's socket is read once;
`HandleBegin`, `HandleKey`, `ServeClientBlockedOnList`, `HandleKeyDone` are the
loops of `handleClientsBlockedOnLists`. `phase = "lost"` is reached when
`beforeSleep` uses a freed client.

### Aof

A dataset is the sequence of the writes that made it, each with its database; a file
is the snapshot of a rewrite followed by a log. `phase` says where the main thread
is: in a turn (`run`), polling (`poll`), in `backgroundRewriteDoneHandler` between
the rename and the rest (`switch`), or gone (`down`, `shutdown`). Time is what the
code asks of it: whether a second has passed since the last fsync, and how many
since a flush was postponed. The parts of `serverCron` are actions of their own, so
that the model has every order of them and more. `synced` is what a file system
must keep when the machine stops; more may be kept, and the last command may be
torn.

### Replication

A dataset is the sequence of the writes that made it, each a number with its
database. `conn` are connections: the master's end (`mopen`, `st` is `replstate`,
`seldb` is `slaveseldb`, `buf` is the output, `bulk` the file being sent) and the
slave's (`sopen`). `rs` is `repl_state`, `host` the configured master, `child` the
dataset a running BGSAVE writes. A server may be slave and master at once. Either
end may lose a link while the other still has it. A fork may fail in SYNC and when a
BGSAVE ends and slaves wait for the next one (`"next"`). In the second case the code moves
the waiters to `WAIT_BGSAVE_END` first and then frees those in `WAIT_BGSAVE_START`, that
is nobody; `late` is a history variable of the connection that says so, also for a slave
that copied the output of a late one. A late slave waits until some other BGSAVE of its
master ends, for good if there is none, and has then some writes twice: the three
properties except it, and nobody else. `Scenario` says which servers
follow which at the start and bounds writes, saves, faults and changes of role.

### Sentinel

`view[s]` is what sentinel `s` holds about the master: its instances with their
flags, the state of the failover and the commands on their way to the servers.
`role` and `config` are the servers themselves. Every comparison of a time with a
period is a choice, except where the code makes one imply the other: the quarter of
`failover-timeout` after which an observer takes over and the whole of it are measured
from the same moment (`late`); how long the promoted slave has been down is another
(`dead`). Sentinels see each other's opinion through `SENTINEL is-master-down-by-addr` and
the servers through INFO. Links fail, servers reboot, the clock jumps (TILT), an operator
resets the master: `MaxFaults` counts them. Commands written to a link that is dropped
(by a fault, a reset, a switch to the promoted slave) are lost, or read by the server all
the same (`kept`); `MaxDelays` counts these, with the timeouts. They are read before what
is sent over the next link.
`SentinelScripts` is the queue of scripts, `children` the processes.

### Types and the encodings

A string is an integer that says its length, whether it is a number, and its place
in the order of bytes (`Strings`). A ziplist is the sequence of its entries with the
previous length as it is stored, in one byte or five, and the three header fields:
an insertion that forgets a cascade leaves a wrong stored length behind. An intset
is widened byte by byte in place. A skiplist has nodes with levels, forward
pointers and spans; the levels of a new node are chosen. `db[k]` is the object of a
key in its encoding, `val[k]` the value that the commands are meant to have made
(lists as sequences, sets, functions for hashes and sorted sets), `cmd` what the
last command counted in `server.dirty`, whether it signalled the key, and whether an
assertion failed. `MCTypes` shrinks the thresholds (`BigLen` is the length from
which a previous length takes five bytes, `Int16Max`, `Int32Max` the widths) so that
conversions and cascades happen with a few elements. Left out of the instance: the
values for which the code itself goes wrong, listed under *What was found*.

### Keyspace, Clients, Protocol

`Keyspace` executes a command by `Exec` on the master, on a slave that lags by
any number of commands, and when the append only file is loaded, at a later time.
`out` is what a command propagates: itself, rewritten, or DEL for what it expired.
`plan` says which commands there are, and `Scenarios` which plans make sense: the
commands pass the checks of `setGenericCommand` and `restoreCommand`, and what the code
does not make absolute or does not replicate faithfully (see *What was found*) is kept
apart. `MCServer` assumes it of its own plans. There is one clock: what differing clocks
of master, slave and loading server do to keys with a time is not covered.

In `Clients`, `srv` is the server with its clients (buffer, list of replies,
subscriptions, flags) and its lists; `due` is what each client has still to be told.
Output is a sequence of tokens that short writes cut anywhere. An empty object in the list
of replies (`networking.c:760`) is left out: an empty string is followed by its line end,
which is glued to it, before the socket is written to. In `Protocol`, a
request is a sequence of symbols that arrives in pieces of any length; the parser
keeps `querybuf`, `multibulklen` and `bulklen` between the pieces. `InlineMax` is
`REDIS_INLINE_MAX_SIZE`, small enough for lines without an end to exceed it in each of the
three places that look at it.

## The runs

| Run | Instance | Shows |
|---|---|---|
| `dict` | 3 keys, two of which always collide, 2 entries; tables of 1, 2, 4 | both tables well formed after every operation; `dictRehash` never leaves the table; a safe iteration returns every key that stayed; the saved next entry is never freed; each operation is one step of `DictMap` with the same reply (`ImplementsMap`); a rehash ends (`RehashEnds`) |
| `page_pool_overlap` | 4 nodes, 5 pages of 3 units, entries of 1 and 2 | **violated**: `EntriesDisjoint` |
| `bio` | 2 job types, 3 jobs each | zero means done, order, every job runs |
| `multi` | 2 databases of one key; 2 clients that queue 1 command and change it once, or 1 client that queues 2 and changes it twice | watch indexes agree; EXEC on what was watched, but for what is not signalled; marks end with their watches; blocks are whole and the stream gives the dataset |
| `multi_move` | 2 clients, SET and MOVE | **violated**: `EveryChangeSignalled` |
| `multi_save` | 1 client, SET and SAVE, a queue of 2 | **violated**: `ExecFollowsMulti` |
| `aof` | 2 databases, 2 writes, 2 child processes, 2 fsync jobs | the file is a prefix, nothing is missing, `aof_state` means what it says (`StateMeansFile`), no acknowledged write lost, the buffer gets written |
| `replication` | 3 servers in a chain and in a star, 2 connections, up to 3 writes, one BGSAVE, one fault, two changes of role | every slave gets every write once, in order, in the right database (`StreamComplete`); who waits for a BGSAVE has one; all converge; late slaves excepted |
| `replication_select` | a star of two slaves, 2 databases | **violated**: `StreamComplete` |
| `sentinel` | 2 sentinels, quorum 2, a master and 2 slaves, 1 fault, 1 timeout or command that outlives its link; 4 scripts, 2 of which run | the pointers of the failover are good, only former masters are followed, every child process has its job |
| `types` | 2 keys, up to 5 elements of a list and 3 of the others; for the blocking lists 3 clients, 2 keys, 2 values | a key holds what the commands made of it in every encoding; encodings are sound and no assertion fails; reads agree; changes are counted and signalled; waiting clients and keys agree, nobody waits in vain, no element lost or doubled, a replica agrees, serving ends |
| `server` | 2 databases of 2 keys, 3 commands, 3 ticks; 3 clients, 3 commands, buffers of 3; 2 requests in any pieces, lines of at most 16; the pages of `page_pool_overlap` | a slave follows, a load restores; output whole and in order, lists agree; requests as sent; entries cut from a page with room are disjoint, no dangling pointer while mmap succeeds |

Why the bounds are enough: a rehash of tables up to 4 slots has every case (expansion by
the ratio, shrinking, empty buckets, a bucket with a chain); three clients are needed for
one that pushes, one that blocks and one that is served before it; two values for a list
that outlives its first waiter; two writes for a difference that selects another database,
or none; two children for a rewrite and a snapshot at once; two queued commands for a
block that begins, goes on and ends, two clients for one that watches while another
writes; three servers for a slave that is a master, or that copies what another one waits
for; a list of five for a cascade over three entries; two requests so that one is parsed
with the next behind it. The instances of `sentinel`, `types` and `server` put parts side
by side that never read each other's variables; a behaviour moves only one of them. In
`server`, malloc returns the least address when it takes one that was never used
(`Leastly`): the addresses are alike, and the parts cannot be declared symmetric there.
`MaxJobs`, `MaxPush`, `MaxCmd`, `MaxQueue` (of the scripts), `MaxPages`, `MaxEntries`,
`MaxFaults`, `MaxDelays`, `MaxPending`, `MaxElements`, `MaxValue`, `MaxTime`, `MaxSeconds`
and the fields of `Scenario`, `Plans`, `plan` and `left` are the named bounds; each is in
a guard. The page pool and `Blocking` really stop (no memory left, or undefined
behaviour), the others stop when their commands and faults are used up: deadlock is
checked for `dict`, `bio`, `multi` and `aof`.

Fairness. `RehashEnds`: `serverCron` keeps running and rehashes while
`activerehashing` is on (the default), a child process exits in the end, an iterator
is released by the function that opened it. `EveryJobRuns`: the scheduler runs both
threads, and strong fairness of the worker because a mutex that is free again and
again is got in the end. `BufferWritten`: the event loop goes round and seconds pass;
nothing is assumed of the disk or of the bio thread. `Converges`: a child that saves
ends, sockets that are ready are served, the cron connects again (strongly fair, as a
link may fail in between), and faults stop, as `Scenario` bounds them. `HandleEnds` is
an action property, a measure that falls with every turn of the loop, and needs no
fairness.

Every property of a passing run has a mutant: an operator named in `PROJECT.json`
that changes one definition as a plausible bug would, with which TLC finds the
property violated.

## What is proved

The theorems hold for every value of the constants that satisfies the named
assumptions (`DictConstants`, `PoolConstants`, `MultiConstants`, ...), which TLC
evaluates on the instances. Most are of the form `Spec => []P`; `HandleEndsHolds` and
`IterationOnceHolds` are about steps (no key is returned twice, unless deleted in between;
TLC agrees on the instance of `dict`), `Refinement` is about behaviours, and
`EveryChildHasItsJobHolds` is about `ScriptsSpec`. `SlaveFollowsHolds` and
`LoadRestoresHolds` are about `KsInit(S) /\ [][KsNext]_ksVars`, the part of `MCServer`
that is the keyspace, for every `S` with `Scenarios(S)`. All go through an inductive
invariant, with one lemma per action; TLC checked each of these invariants on the
instance of the run before it was proved, but for the parts that speak of all datasets
(`Behind`, below), of which it checked what they imply.

* **Dict** (`DictProofs`). `IInv` is the type invariant, `Structure`, that free
  entries are blank, that the iterator's saved entry is linked, and `Iterating`. The
  counters `used` are adjusted and never recounted, so that `RehashScanSafe` (the scan
  of `dictRehash` stops inside the table) needs them to be the cardinalities of the
  tables, which needs each entry to be in one chain of one table only. `Iterating`
  says of an open iterator which entries are still before it: what it has returned and
  is still there is behind, what it owes is before or returned. It is kept because a
  safe iterator stops `_dictRehashStep` (no entry changes its bucket) although the dict
  may still start to rehash into a second table that the iterator then visits. From
  it: `TypeCorrect`, `StructureHolds`, `RehashScanSafe`, `SavedNextSafe`,
  `IterationCompleteHolds`, `IterationOnceHolds`, and `Refinement`: with the map
  `k -> Value(d, k)` each step of the dict is a step of `DictMap` or a stutter.
* **PagePool** (`PagePoolProofs`). Every node that is alive owns a page that no
  other has, the head is alive or NULL, and the entries on a page end before its
  offset, unless they spill. From it: `TypeCorrect`, `CutEntriesSafe`. `Links` adds that every
  link and the head lead to a node in use or to NULL and that no freed chunk waits
  between two calls: `remove_page` frees one and `alloc_page` takes it at once. From it
  `NoDanglingHolds`, as long as mmap has not failed.
* **Bio** (`ServerProofs`). `Locks` (who is where holds the mutex), `Queued` (the list
  holds the last jobs created, in order), `Counted` (the counter and the list differ
  by what the lock holder has done by halves), `Executed`, `ReadZero`. From it:
  `TypeCorrect`, `ZeroMeansDoneHolds`, `InOrder`, `PendingExact`.
* **Keyspace** (`ServerProofs`). A slave that lags has no simple relation to its master:
  the master may have deleted what the slave still has, and given a time that the slave
  will give later. `Behind` relates them through a third dataset: the commands that are
  still to come make, of some dataset that the slave *follows* (same keys and values, the
  same keys with a time, none earlier), the dataset of the master, each command executed
  at some time not later than now. It is kept because `ExecOutcome` describes each command
  once for master, slave and loader: first what it looks up expires (on the master, with a
  DEL to propagate), then it is `Applied`, or refused; and `Applied` at a later time, to a
  dataset that follows, gives one that follows. `Kept` says that the load of the file has the
  dataset of the master: the loader expires nothing, and `feedAppendOnlyFile` wrote instants.
  What expires or is evicted together is a fold; its stages are functions on `0..n`
  (`ExpireStages`, `EvictStages`, `RunStages`), over which plain induction on `n` goes. From
  it: `SlaveFollowsHolds`, `LoadRestoresHolds`. The hypothesis `Scenarios(S)` is needed:
  INCRBYFLOAT where there are times, or a SET with EX and a file, break the properties in
  the code too.
* **Multi** (`MultiProofs`). `WInv` joins the three watch properties: that an
  unmarked client finds what it watched needs the two indexes to agree, for the
  writes go through one and the flushes through the other; a key that MOVE or a snapshot
  changed is in `silent`, and stays there until its watch ends. `StreamOK` says in each
  step of an EXEC whether the block is open and what the receiver will have when it
  is closed, until `saved`. From them: `TypeCorrect`, `WatchIndexHolds`,
  `WatchedUnchangedHolds`, `MarkedWatchesHolds`, `StreamAgreesHolds`, all without a
  hypothesis on the commands.
* **Blocking** (`BlockingProofs`). `Service` says what the loop over the ready keys
  has in hand (the key at the head of the batch and a count of clients that is still
  true), `ReadyOnce` that the keys marked as ready are those on the lists, each once,
  and `Noticed` that a list somebody waits for is on one of these lists: a client may
  wait for a list with elements while EXEC or a service runs, and only then. The
  served client of a BRPOPLPUSH may make a second list ready, or be refused and have
  its pop undone. From it: `TypeCorrect`, `BlockIndexHolds`, `ReadyOnceHolds`,
  `NoIdleWaiterHolds`, `EachValueOnceHolds`, `ReplicaAgreesHolds`, and `HandleEndsHolds`.
* **Aof** (`AofProofs`). `FileIsPrefix` and `NothingMissing` speak of the dataset that the
  loader makes of a log, in which the last SELECT before a write names its database;
  `Matches` compares log and dataset position by position, and a lemma shows that this is
  the same, so that appending, cutting and joining logs need no induction. `OnMatches`
  (file and buffer), `ChildMatches` (snapshot and differences, from whatever database the
  snapshot ends in) and `SwitchMatches` (between rename and switch) carry the dataset
  through a rewrite, `Modes` ties the buffers to `aof_state`, `Durable` the acknowledged
  writes to what is on the disk. From it: `TypeCorrect`, `FileIsPrefixHolds`,
  `NothingMissingHolds`, `StateMeansFileHolds`, `NoAckedLostHolds`.
* **Replication** (`ReplicationProofs`). `Roles`, `Owned` (a busy slave holds its
  connection, which nobody else holds, and every connection open at that end is held),
  `FileHere` (who is told that the file is complete has one), `MastersKnown`, and
  `Waiting`. From it: `TypeCorrect`, `LinksHeld`, and `WaitersHaveChildHolds`, whatever
  forks fail: only a slave whose fork has failed (`late`) waits for nothing. `SInv` adds
  `Streams`: what a slave has (its dataset and database when the link is up, else the
  snapshot it is to read, or the one its BGSAVE is writing, read from database 0),
  followed by what its output does, is the dataset of the master, and `slaveseldb` is the
  database this reading ends in; `Welcome`: who is fed is fed by a master that accepts
  slaves. What an output does (`Effect`) is a fold; `FoldStages` gives its intermediate
  values and `PlayedAppend`, `AppendConcat`, `PlayedFirst` what a command at either end
  changes, so that the steps themselves need no induction. From it `StreamCompleteHolds`,
  for chains, stars and any sequence of lost links, saves and changes of role, for every
  slave that is not late, under the hypothesis `Selects`: if database 0 and another one
  are written to, slaves that wait for the same BGSAVE have the same `slaveseldb` (no one
  copied an output that ends in another database than 0). Both exclusions are behaviours
  of the code in which the property fails (*What was found*).
* **Sentinel** (`SentinelProofs`). `Stable` joins the type of a view, `Pointer`
  (`promoted_slave`, the state of the failover and the flags of the slaves agree) and
  `Masters` (all it would tell anyone to follow has been a master). A timer call is a
  chain of functions, each with its lemma; between them only the weaker `Sound` holds.
  What is left on a dropped link is part of what was on it (`CutSound`), so that it may be
  read at any later time.
  From it: `TypeCorrect`, `PromotedIsSlaveHolds`, `FollowedWasMasterHolds`. For the
  scripts, `ScriptsIInv` says that names are not used twice and that running jobs and
  processes are the same names; `EveryChildHasItsJobHolds` follows by a bijection.

Only model-checked:

* liveness (`RehashEnds`, `EveryJobRuns`, `BufferWritten`, `Converges`): beyond the prover;
* `Delivered`, `ClientIndexes`: `publish` and `freeClient` fold over lists of clients and
  subscriptions, each step with an output that may be cut or closed. The way the folds of
  `Keyspace` are handled would do, but has not been carried through;
* all of `Types` and `Protocol`: what folds and recursive operators compute for every
  input.

## What was found

Runs that are expected to end in a violation, each against a sentence of the code:

* `page_pool_overlap`: `memory_aggregator.c` says that an entry once handed out is
  never reclaimed. When the page that was chosen is full, it is removed, a new page
  becomes the head, and the function returns the *old* page's address with the *new*
  page's offset: memory of a live entry.
* `replication_select`: `replication.c` calls it perfect when a slave may attach to the
  BGSAVE another one waits for, and copies that one's output. It does not copy
  `slaveseldb`: the next write in database 0 is sent without SELECT after an output
  that may end in another database, and the slave applies it there.
* `multi_move`: `db.c` says that `signalModifiedKey` is called every time a key is
  modified. `moveCommand` calls it for neither of its two keys: EXEC runs although a
  watched value has changed.
* `multi_save`: `multi.c` makes sure that EXEC is propagated if MULTI was, by incrementing
  `server.dirty`; a queued SAVE sets it to 0 first (`rdb.c:705`), so that the difference
  is 0 when it was 1 before EXEC, and MULTI is propagated without EXEC.

The models also have the following behaviours, on which no run insists:

* a key that is watched and expires or is evicted does not make EXEC fail, nor does one
  that was absent and comes with the snapshot of a master;
* a write that a read only slave refuses does not flag the open transaction, and a
  transaction queued before SLAVEOF writes on the slave;
* the page pool loses pages with room when its head is removed;
* `startAppendOnly` leaves a closed descriptor in `aof_fd` when it fails, and the end
  of a rewrite then takes the file for enabled and closes that number once more;
* `stopAppendOnly` waits for any child and may reap the one that saves a snapshot;
  `rdb_child_pid` is then never reset;
* with `everysec` the last write may never be synced, because only a write causes an
  fsync;
* a machine that stops between the rename and the fsync of a rewritten file loses
  writes that the old file had on disk, even with `always`;
* RENAME, RESTORE and SORT STORE create a list without waking the clients that wait
  for it (these commands are not in `Blocking`);
* a client that was served, blocks again in the same turn and is then freed was
  appended twice to `unblocked_clients`; `freeClient` removes it once
  (`networking.c:661`), and `beforeSleep` then uses freed memory (`phase = "lost"` in
  `Blocking`);
* at SHUTDOWN the append only file is synced but `aof_buf` is not written
  (`redis.c:1921`), although the comment says that it contains the full dataset: writes
  of the same turn of the event loop are missing;
* when the fork of `updateSlavesWaitingBgsave` fails, the slaves it wanted to free are
  already in another state (`replication.c:320`), although the code means to free them:
  they wait for a BGSAVE nobody started, and are fed meanwhile. When a later BGSAVE ends,
  for another slave or a user, they are sent its snapshot, which holds the writes that
  their output repeats: each is applied twice. The runs have this (`late`) and except
  these slaves; without the exception a star of two slaves violates `WaitersHaveChild`,
  and with one write `StreamComplete`;
* a script that is retried stays counted in `running_scripts` (`sentinel.c:692`): after
  16 retries no script starts any more. With `parallel-syncs 1` the retry of a slave in
  RECONF_SENT is never reached. A vote has no term, so that two sentinels may lead
  at the same time;
* when a failover takes too long the leader sends "a best effort SLAVEOF" to the slaves
  that are left (`sentinel.c:2816`) and switches to the promoted slave in the same call,
  which drops the links with what is still in their buffers: these commands never leave;
* an insertion in front of a ziplist entry whose previous length takes five bytes may
  shrink the block below its old end before it is moved (`ziplist.c:620`); the instance
  of `types` keeps away from the one size at which that loses bytes;
* `compareStringObjects` (`object.c:359`) uses `strcmp` when one of the two is held as a
  number and `memcmp` otherwise: with NUL bytes in elements that is no order, and the
  assertion of `t_zset.c:1025` may fail. The instance of `types` has no NUL bytes;
  LINSERT, LSET and HSETNX may convert an encoding without changing the value;
* SET with EX and RESTORE with a time are written to the append only file as they are,
  although `aof.c:353` says that "the time is always absolute and not relative"; loaded
  later they give a key more time. INCRBYFLOAT is propagated as SET, which drops the
  time of the key on slaves and in the file. MOVE loses the time of a key. PERSIST
  revives a key that has expired. The scenarios of `server` keep these apart;
* RANDOMKEY on a slave all of whose keys have expired does not end; a slave with
  `maxmemory` evicts on its own;
* the time since which a soft output limit is exceeded is not reset while the output
  drains unless more is added (`networking.c:1406`); a client that is to be closed
  still executes the commands it has sent.

## Not modelled, and why

* `zfree` of a dict entry that was cut out of a mapped page: what an allocator does
  with a foreign pointer is outside TLA+; `Dict` gives it the usual meaning.
* The bytes of the append only file and of snapshots (`rio.c`, LZF, checksums); the hash
  functions; logging, statistics, INFO, CONFIG, DEBUG, MIGRATE.
* `bitops.c` and `sort.c`: computations over one value without state of their own;
  `zipmap.c`, read only when an old snapshot is loaded; reference counts and idle times
  of `object.c`.
* The save points of `serverCron` and the arrays of `ae.c`; `slowlog.c`.
* Lua, the command line tools except `redis-check-aof --fix` (in `Aof`), vendored
  libraries, hardware counters.

## Plan

1. Done: all modules of the table above, with proofs for `Dict`, `PagePool`, `Bio`,
   `Keyspace`, `Multi`, `Blocking`, `Aof`, `Replication`, `Sentinel` and `SentinelScripts`.
2. Done: `StreamComplete`, with the folds of `Effect`; `SlaveFollows` and `LoadRestores`,
   with the folds of `Keyspace`.
3. Left: theorems about `Clients`. Not planned: about `Types` and `Protocol`, for the
   reason given under *What is proved*.

## Running it

    tlc -workers 2 -config Dict.cfg MCDict      # and so on, see PROJECT.json
    tlapm DictProofs.tla
