---------------------------- MODULE MultiProofs ----------------------------
(***************************************************************************)
(* Proofs about Multi for any clients, databases, keys and commands.       *)
(***************************************************************************)
EXTENDS Multi, FiniteSetTheorems, TLAPS

StreamType == [data : Dataset, block : Dataset, open : BOOLEAN]

\* The client of an EXEC under way is a client.
ExecClient == Serving \/ exec.client \in Client

WInv == TypeOK /\ ExecClient /\ WatchIndex /\ WatchedUnchanged /\ MarkedWatches
-----------------------------------------------------------------------------
(* What a command does *)

\* There are finitely many keys.
LEMMA KeyFinite == IsFiniteSet(Key)
BY FS_Product, MultiConstants DEF Key

\* The keys a flush removes can be counted.
LEMMA PresentFinite ==
    ASSUME NEW ds, NEW K \in SUBSET Key
    PROVE  /\ IsFiniteSet(Present(ds, K))
           /\ Cardinality(Present(ds, K)) \in Nat
           /\ Cardinality(Present(ds, K)) = 0 <=> Present(ds, K) = {}
<1>1. Present(ds, K) \in SUBSET Key BY DEF Present
<1>2. IsFiniteSet(Present(ds, K)) BY <1>1, KeyFinite, FS_Subset
<1> QED BY <1>2, FS_CardinalityType, FS_EmptySet

\* The fields of a command.
LEMMA CommandType ==
    ASSUME NEW q \in Commands
    PROVE  q.op \in Op /\ q.name \in Name /\ q.val \in Val /\ q.db \in Db
BY MultiConstants DEF Commands

\* A command takes a dataset to a dataset.
LEMMA DataAfterType ==
    ASSUME NEW ds \in Dataset, NEW q \in Commands, NEW id \in Db
    PROVE  DataAfter(ds, q, id) \in Dataset
<1>1. q.op \in Op /\ q.name \in Name /\ q.val \in Val BY CommandType
<1>2. <<id, q.name>> \in Key BY <1>1 DEF Key
<1> QED BY <1>1, <1>2 DEF DataAfter, Dataset

\* A command only names keys.
LEMMA ScopeKeys == \A q, id : Scope(q, id) \in SUBSET Key
BY DEF Scope

\* dirty only grows, and grows with every change, except in SAVE.
LEMMA DirtyGrows ==
    ASSUME TypeOK, NEW q \in Commands, NEW id \in Db
    PROVE  /\ DirtyAfter(q, id) \in Nat
           /\ q.op # "save" => dirty <= DirtyAfter(q, id)
           /\ DirtyAfter(q, id) = dirty => DataAfter(data, q, id) = data
<1> DEFINE S == Scope(q, id)
           n == Cardinality(Present(data, S))
           m == Cardinality(Present(data, Key))
<1>1. S \in SUBSET Key BY ScopeKeys
<1>2. n \in Nat /\ (n = 0 <=> Present(data, S) = {}) BY <1>1, PresentFinite
<1>3. m \in Nat BY PresentFinite
<1>4. dirty \in Nat /\ data \in Dataset BY DEF TypeOK
<1>5. q.op \in Op BY CommandType
<1> HIDE DEF n, m, S
<1>6. CASE q.op = "set"
  <2>1. DirtyAfter(q, id) = dirty + 1 BY <1>6 DEF DirtyAfter
  <2> QED BY <1>4, <1>6, <2>1
<1>11. CASE q.op = "move"
  <2>1. DirtyAfter(q, id) = IF Moves(data, q, id) THEN dirty + 1 ELSE dirty
    BY <1>11 DEF DirtyAfter
  <2>2. ~Moves(data, q, id) => DataAfter(data, q, id) = data BY <1>11 DEF DataAfter
  <2> QED BY <1>4, <1>11, <2>1, <2>2
<1>7. CASE q.op \in {"del", "flushdb"}
  <2>1. DirtyAfter(q, id) = dirty + n BY <1>7 DEF DirtyAfter, n, S
  <2>2. dirty + n \in Nat /\ dirty <= dirty + n /\ (dirty + n = dirty => n = 0)
    BY <1>2, <1>4
  <2>3. ASSUME n = 0 PROVE DataAfter(data, q, id) = data
    <3>1. \A k \in S : k \in Key => data[k] = Null BY <1>2, <2>3 DEF Present
    <3> QED BY <1>4, <1>7, <3>1 DEF DataAfter, Dataset, S
  <2> QED BY <2>1, <2>2, <2>3
<1>8. CASE q.op = "flushall"
  <2>1. DirtyAfter(q, id) = dirty + m + 1 BY <1>8 DEF DirtyAfter, m
  <2> QED BY <1>3, <1>4, <2>1
<1>9. CASE q.op = "save"
  <2>1. DirtyAfter(q, id) = 0 BY <1>9 DEF DirtyAfter
  <2>2. S = {} BY <1>9 DEF Scope, S
  <2>3. DataAfter(data, q, id) = data
    BY <1>4, <1>9, <2>2 DEF DataAfter, Dataset, S
  <2> QED BY <1>9, <2>1, <2>3
<1>10. CASE q.op \in {"get", "select", "unwatch", "slaveof"}
  <2>1. DirtyAfter(q, id) = dirty BY <1>10 DEF DirtyAfter
  <2>2. S = {} BY <1>10 DEF Scope, S
  <2>3. DataAfter(data, q, id) = data BY <1>4, <2>2 DEF DataAfter, Dataset, S
  <2> QED BY <1>4, <2>1, <2>3
<1> QED BY <1>5, <1>6, <1>7, <1>8, <1>9, <1>10, <1>11 DEF Op

\* Whoever watches a key that a command changes is marked, but by MOVE.
LEMMA ChangeTouches ==
    ASSUME TypeOK, WatchIndex, NEW q \in Commands, NEW id \in Db,
           NEW c \in Client, NEW k \in Key, watching[c][k] > 0,
           DataAfter(data, q, id)[k] # data[k]
    PROVE  c \in Touched(q, id) \/ k \in Moved(q, id)
<1>1. data \in Dataset BY DEF TypeOK
<1>2. k \in Scope(q, id) BY <1>1 DEF DataAfter
<1>3. watchers[k][c] > 0 BY DEF WatchIndex
<1>4. CASE q.op = "move" BY <1>2, <1>4 DEF DataAfter, Moved
<1>5. CASE q.op # "move"
  <2>1. q.op \in {"set", "del", "flushdb", "flushall"} BY <1>2, <1>5 DEF Scope
  <2>2. q.op # "set" => data[k] # Null BY <1>2, <1>5 DEF DataAfter
  <2> QED BY <1>2, <1>3, <2>1, <2>2 DEF Touched, FlushTouches, KeyTouches, Present
<1> QED BY <1>4, <1>5

\* Only a client that watches something is marked.
LEMMA TouchedWatches ==
    ASSUME TypeOK, WatchIndex, NEW q \in Commands, NEW id \in Db,
           NEW c \in Touched(q, id)
    PROVE  c \in Client /\ \E k \in Key : watching[c][k] > 0
BY ScopeKeys DEF Touched, FlushTouches, KeyTouches, Present, WatchIndex
-----------------------------------------------------------------------------
(* The watch tables *)

WatchTypes ==
    /\ watching \in [Client -> [Key -> 0..1]]
    /\ watchers \in [Key -> [Client -> 0..1]]
    /\ snap \in [Client -> [Key -> Val \cup {Null, Lapsed}]]
    /\ silent \in [Client -> SUBSET Key]

\* Keys that change silently are keys.
LEMMA SilentType ==
    ASSUME TypeOK, NEW K \in SUBSET Key
    PROVE  /\ SilentAfter(K) \in [Client -> SUBSET Key]
           /\ \A c \in Client : \A k \in K :
                 watching[c][k] > 0 => k \in SilentAfter(K)[c]
           /\ \A c \in Client : silent[c] \subseteq SilentAfter(K)[c]
BY DEF TypeOK, SilentAfter

\* unwatchAllKeys empties the lists of one client and keeps the others.
LEMMA UnwatchEffect ==
    ASSUME WInv, NEW c \in Client, UnwatchAllKeys(c)
    PROVE  /\ WatchTypes' /\ WatchIndex'
           /\ \A k \in Key : watching'[c][k] = 0
           /\ \A x \in Client : x # c =>
                 /\ watching'[x] = watching[x] /\ snap'[x] = snap[x]
            /\ silent'[x] = silent[x]
<1>1. /\ watching \in [Client -> [Key -> 0..1]]
      /\ watchers \in [Key -> [Client -> 0..1]]
      /\ snap \in [Client -> [Key -> Val \cup {Null, Lapsed}]]
      /\ silent \in [Client -> SUBSET Key]
  BY DEF WInv, TypeOK
<1>2. \A k \in Key : watchers[k][c] - watching[c][k] = 0
  BY <1>1 DEF WInv, WatchIndex
<1>3. /\ watching' = [watching EXCEPT ![c] = Unwatched]
      /\ snap' = [snap EXCEPT ![c] = NoSnap]
      /\ silent' = [silent EXCEPT ![c] = {}]
  BY DEF UnwatchAllKeys
<1>4. watchers' = [k \in Key |-> [watchers[k] EXCEPT ![c] = 0]]
  BY <1>1, <1>2 DEF UnwatchAllKeys
<1>5. Unwatched \in [Key -> 0..1] /\ \A k \in Key : Unwatched[k] = 0
  BY DEF Unwatched
<1>6. NoSnap \in [Key -> Val \cup {Null, Lapsed}] BY DEF NoSnap
<1>7. watching' \in [Client -> [Key -> 0..1]] BY <1>1, <1>3, <1>5
<1>8. watchers' \in [Key -> [Client -> 0..1]] BY <1>1, <1>4
<1>9. /\ snap' \in [Client -> [Key -> Val \cup {Null, Lapsed}]]
      /\ silent' \in [Client -> SUBSET Key]
  BY <1>1, <1>3, <1>6
<1>10. \A k \in Key : watching'[c][k] = 0 /\ watchers'[k][c] = 0
  BY <1>1, <1>3, <1>4, <1>5
<1>11. \A x \in Client : x # c =>
          /\ watching'[x] = watching[x] /\ snap'[x] = snap[x]
          /\ silent'[x] = silent[x]
          /\ \A k \in Key : watchers'[k][x] = watchers[k][x]
  BY <1>1, <1>3, <1>4
<1>12. WatchIndex'
  BY <1>10, <1>11 DEF WInv, WatchIndex
<1> QED BY <1>7, <1>8, <1>9, <1>10, <1>11, <1>12 DEF WatchTypes

\* What call does keeps the types and the properties of the watch tables.
LEMMA CallInv ==
    ASSUME WInv, NEW c \in Client, NEW q \in Commands, NEW a \in StreamType,
           Call(c, q, a)
    PROVE  /\ data' \in Dataset /\ dirty' \in Nat /\ slave' \in BOOLEAN
           /\ flags' \in [Client -> SUBSET {"MULTI", "DIRTY_CAS", "DIRTY_EXEC"}]
           /\ cdb' \in [Client -> Db] /\ stream' \in StreamType
           /\ WatchTypes' /\ WatchIndex' /\ WatchedUnchanged' /\ MarkedWatches'
<1> DEFINE id == cdb[c]
<1>1. TypeOK /\ WatchIndex /\ WatchedUnchanged /\ MarkedWatches BY DEF WInv
<1>2. id \in Db /\ cdb \in [Client -> Db] BY <1>1 DEF TypeOK
<1>3. q.op \in Op /\ q.db \in Db BY CommandType
<1>4. /\ data' = DataAfter(data, q, id) /\ dirty' = DirtyAfter(q, id)
      /\ flags' = FlagsAfter(c, q)
      /\ cdb' = IF q.op = "select" THEN [cdb EXCEPT ![c] = q.db] ELSE cdb
      /\ slave' = IF q.op = "slaveof" THEN ~slave ELSE slave
      /\ stream' = Feed(a, q, id) \/ stream' = a
  BY DEF Call
<1>5. data \in Dataset /\ data' \in Dataset
  BY <1>1, <1>2, <1>4, DataAfterType DEF TypeOK
<1>6. dirty' \in Nat BY <1>1, <1>2, <1>4, DirtyGrows
<1>7. slave' \in BOOLEAN BY <1>1, <1>4 DEF TypeOK
<1>8. cdb' \in [Client -> Db] BY <1>2, <1>3, <1>4
<1>9. stream' \in StreamType
  <2>1. a.data \in Dataset /\ a.block \in Dataset /\ a.open \in BOOLEAN
    BY DEF StreamType
  <2>2. /\ DataAfter(a.data, q, id) \in Dataset
        /\ DataAfter(a.block, q, id) \in Dataset
    BY <1>2, <2>1, DataAfterType
  <2>3. Feed(a, q, id) \in StreamType BY <2>1, <2>2 DEF Feed, StreamType
  <2> QED BY <1>4, <2>3
<1>10. /\ flags \in [Client -> SUBSET {"MULTI", "DIRTY_CAS", "DIRTY_EXEC"}]
       /\ flags' \in [Client -> SUBSET {"MULTI", "DIRTY_CAS", "DIRTY_EXEC"}]
  BY <1>1, <1>4 DEF TypeOK, FlagsAfter
<1> HIDE DEF id
<1>11. CASE q.op = "unwatch"
  <2>1. UnwatchAllKeys(c) BY <1>11 DEF Call
  <2>2. /\ WatchTypes' /\ WatchIndex'
        /\ \A k \in Key : watching'[c][k] = 0
        /\ \A x \in Client : x # c =>
              /\ watching'[x] = watching[x] /\ snap'[x] = snap[x]
            /\ silent'[x] = silent[x]
    BY <2>1, UnwatchEffect
  <2>3. data' = data
    <3>1. Scope(q, id) = {} BY <1>11 DEF Scope
    <3> QED BY <1>4, <1>5, <3>1 DEF DataAfter, Dataset
  <2>4. /\ "DIRTY_CAS" \notin flags'[c]
        /\ \A x \in Client : x # c => flags'[x] = flags[x]
    <3>1. Touched(q, id) = {} BY <1>11 DEF Touched
    <3> QED BY <1>4, <1>11, <3>1 DEF FlagsAfter, id
  <2>5. WatchedUnchanged'
    BY <1>1, <2>2, <2>3, <2>4 DEF WatchedUnchanged, AsWatched
  <2>6. MarkedWatches'
    BY <1>1, <2>2, <2>4 DEF MarkedWatches
  <2> QED BY <1>5, <1>6, <1>7, <1>8, <1>9, <1>10, <2>2, <2>5, <2>6
<1>12. CASE q.op # "unwatch"
  <2>1. /\ watching' = watching /\ watchers' = watchers /\ snap' = snap
        /\ silent' = SilentAfter(Moved(q, id))
    BY <1>12 DEF Call, id
  <2> DEFINE M == Moved(q, id)
  <2>6. M \in SUBSET Key BY ScopeKeys DEF Moved
  <2> HIDE DEF M
  <2>7. silent' = SilentAfter(M) BY <2>1 DEF M
  <2>8. /\ silent' \in [Client -> SUBSET Key]
        /\ \A x \in Client : silent[x] \subseteq silent'[x]
        /\ \A x \in Client : \A k \in M : watching[x][k] > 0 => k \in silent'[x]
    BY <1>1, <2>6, <2>7, SilentType
  <2>2. WatchTypes' /\ WatchIndex'
    BY <1>1, <2>1, <2>8 DEF TypeOK, WatchTypes, WatchIndex
  <2>3. \A x \in Client :
          /\ x \in Touched(q, id) => "DIRTY_CAS" \in flags'[x]
          /\ x \notin Touched(q, id) => flags'[x] = flags[x]
          /\ flags[x] \subseteq flags'[x]
    BY <1>4, <1>12 DEF FlagsAfter, id
  <2>4. WatchedUnchanged'
    <3> SUFFICES ASSUME NEW x \in Client, NEW k \in Key, watching[x][k] > 0,
                        "DIRTY_CAS" \notin flags'[x], k \notin silent'[x]
                 PROVE  data'[k] = IF snap[x][k] = Lapsed THEN Null
                                   ELSE snap[x][k]
      BY <2>1 DEF WatchedUnchanged, AsWatched
    <3>1. x \notin Touched(q, id) /\ k \notin M BY <2>3, <2>8
    <3>2. data'[k] = data[k] BY <1>1, <1>2, <1>4, <3>1, ChangeTouches DEF M
    <3>3. "DIRTY_CAS" \notin flags[x] /\ k \notin silent[x] BY <2>3, <2>8
    <3> QED BY <1>1, <3>2, <3>3 DEF WatchedUnchanged, AsWatched
  <2>5. MarkedWatches'
    <3> SUFFICES ASSUME NEW x \in Client, "DIRTY_CAS" \in flags'[x]
                 PROVE  \E k \in Key : watching[x][k] > 0
      BY <2>1 DEF MarkedWatches
    <3>1. CASE x \in Touched(q, id) BY <1>1, <1>2, <3>1, TouchedWatches
    <3>2. CASE x \notin Touched(q, id)
      BY <1>1, <2>3, <3>2 DEF MarkedWatches
    <3> QED BY <3>1, <3>2
  <2> QED BY <1>5, <1>6, <1>7, <1>8, <1>9, <1>10, <2>2, <2>4, <2>5
<1> QED BY <1>11, <1>12
-----------------------------------------------------------------------------
(* Every step keeps WInv *)

Flag == {"MULTI", "DIRTY_CAS", "DIRTY_EXEC"}

\* A step that leaves the dataset, the watch tables and the marks alone keeps
\* their properties.
LEMMA SameWatches ==
    ASSUME WInv, data' = data, watching' = watching, watchers' = watchers,
           snap' = snap, silent' = silent,
           \A x \in Client : "DIRTY_CAS" \in flags'[x] <=> "DIRTY_CAS" \in flags[x]
    PROVE  WatchIndex' /\ WatchedUnchanged' /\ MarkedWatches'
<1>1. WatchIndex' BY DEF WInv, WatchIndex
<1>2. WatchedUnchanged' BY DEF WInv, WatchedUnchanged, AsWatched
<1>3. MarkedWatches' BY DEF WInv, MarkedWatches
<1> QED BY <1>1, <1>2, <1>3

\* unwatchAllKeys keeps the properties of the other clients, whatever happens
\* to the mark of its own as long as a mark without a watch does not stay.
LEMMA UnwatchKeeps ==
    ASSUME WInv, NEW c \in Client, UnwatchAllKeys(c), data' = data,
           "DIRTY_CAS" \notin flags'[c],
           \A x \in Client : x # c => flags'[x] = flags[x]
    PROVE  WatchTypes' /\ WatchIndex' /\ WatchedUnchanged' /\ MarkedWatches'
<1>1. /\ WatchTypes' /\ WatchIndex'
      /\ \A k \in Key : watching'[c][k] = 0
      /\ \A x \in Client : x # c =>
            /\ watching'[x] = watching[x] /\ snap'[x] = snap[x]
            /\ silent'[x] = silent[x]
  BY UnwatchEffect
<1>2. WatchedUnchanged' BY <1>1 DEF WInv, WatchedUnchanged, AsWatched
<1>3. MarkedWatches' BY <1>1 DEF WInv, MarkedWatches
<1> QED BY <1>1, <1>2, <1>3

\* discardTransaction empties what belongs to its client and keeps the rest.
LEMMA DiscardKeeps ==
    ASSUME WInv, NEW c \in Client, DiscardTransaction(c), data' = data
    PROVE  /\ WatchTypes' /\ WatchIndex' /\ WatchedUnchanged' /\ MarkedWatches'
           /\ mstate' \in [Client -> Seq(Commands)]
           /\ flags' \in [Client -> SUBSET Flag]
<1>1. /\ mstate \in [Client -> Seq(Commands)]
      /\ flags \in [Client -> SUBSET Flag]
  BY DEF WInv, TypeOK, Flag
<1>2. /\ mstate' = [mstate EXCEPT ![c] = <<>>]
      /\ flags' = [flags EXCEPT ![c] = {}]
      /\ UnwatchAllKeys(c)
  BY DEF DiscardTransaction
<1>3. mstate' \in [Client -> Seq(Commands)] BY <1>1, <1>2
<1>4. flags' \in [Client -> SUBSET Flag] BY <1>1, <1>2
<1>5. "DIRTY_CAS" \notin flags'[c] /\ \A x \in Client : x # c => flags'[x] = flags[x]
  BY <1>1, <1>2
<1>6. WatchTypes' /\ WatchIndex' /\ WatchedUnchanged' /\ MarkedWatches'
  BY <1>2, <1>5, UnwatchKeeps
<1> QED BY <1>1, <1>2, <1>3, <1>4, <1>6

\* The commands that only change flags and queues: a refusal, a queued
\* command and MULTI.
LEMMA RefuseAndFlagInv ==
    ASSUME WInv, NEW c \in Client, RefuseAndFlag(c)
    PROVE  WInv'
<1>1. TypeOK' BY DEF WInv, TypeOK, RefuseAndFlag
<1>2. ExecClient' BY DEF WInv, ExecClient, Serving, RefuseAndFlag
<1>3. flags \in [Client -> SUBSET Flag] BY DEF WInv, TypeOK, Flag
<1>4. \A x \in Client : "DIRTY_CAS" \in flags'[x] <=> "DIRTY_CAS" \in flags[x]
  BY <1>3 DEF RefuseAndFlag
<1>5. WatchIndex' /\ WatchedUnchanged' /\ MarkedWatches'
  BY <1>4, SameWatches DEF RefuseAndFlag
<1> QED BY <1>1, <1>2, <1>5 DEF WInv

LEMMA QueueMultiCommandInv ==
    ASSUME WInv, NEW c \in Client, NEW q \in Commands, QueueMultiCommand(c, q)
    PROVE  WInv'
<1>1. mstate' \in [Client -> Seq(Commands)]
  BY DEF WInv, TypeOK, QueueMultiCommand
<1>2. TypeOK' BY <1>1 DEF WInv, TypeOK, QueueMultiCommand
<1>3. ExecClient' BY DEF WInv, ExecClient, Serving, QueueMultiCommand
<1>4. WatchIndex' /\ WatchedUnchanged' /\ MarkedWatches'
  BY SameWatches DEF QueueMultiCommand
<1> QED BY <1>2, <1>3, <1>4 DEF WInv

LEMMA MultiCommandInv ==
    ASSUME WInv, NEW c \in Client, MultiCommand(c)
    PROVE  WInv'
<1>1. TypeOK' BY DEF WInv, TypeOK, MultiCommand
<1>2. ExecClient' BY DEF WInv, ExecClient, Serving, MultiCommand
<1>3. flags \in [Client -> SUBSET Flag] BY DEF WInv, TypeOK, Flag
<1>4. \A x \in Client : "DIRTY_CAS" \in flags'[x] <=> "DIRTY_CAS" \in flags[x]
  BY <1>3 DEF MultiCommand
<1>5. WatchIndex' /\ WatchedUnchanged' /\ MarkedWatches'
  BY <1>4, SameWatches DEF MultiCommand
<1> QED BY <1>1, <1>2, <1>5 DEF WInv
\* A command outside a transaction.
LEMMA RunCommandInv ==
    ASSUME WInv, NEW c \in Client, NEW q \in Commands, RunCommand(c, q)
    PROVE  WInv'
<1>1. stream \in StreamType BY DEF WInv, TypeOK, StreamType
<1>2. /\ Call(c, q, stream) /\ mstate' = mstate /\ exec' = exec
      /\ plan' = plan /\ saved' = saved
  BY DEF RunCommand
<1>3. /\ data' \in Dataset /\ dirty' \in Nat /\ slave' \in BOOLEAN
      /\ flags' \in [Client -> SUBSET {"MULTI", "DIRTY_CAS", "DIRTY_EXEC"}]
      /\ cdb' \in [Client -> Db] /\ stream' \in StreamType
      /\ WatchTypes' /\ WatchIndex' /\ WatchedUnchanged' /\ MarkedWatches'
  BY <1>1, <1>2, CallInv
<1>4. TypeOK' BY <1>2, <1>3 DEF WInv, TypeOK, WatchTypes, StreamType
<1>5. ExecClient' BY <1>2 DEF WInv, ExecClient, Serving
<1> QED BY <1>3, <1>4, <1>5 DEF WInv

\* The ends of a transaction: DISCARD, an EXEC that aborts, a freed client.
LEMMA DiscardCommandInv ==
    ASSUME WInv, NEW c \in Client, DiscardCommand(c) \/ ExecAbort(c)
    PROVE  WInv'
<1>1. DiscardTransaction(c) /\ UNCHANGED <<plan, data, dirty, slave, cdb, exec, stream, saved>>
  BY DEF DiscardCommand, ExecAbort
<1>2. /\ WatchTypes' /\ WatchIndex' /\ WatchedUnchanged' /\ MarkedWatches'
      /\ mstate' \in [Client -> Seq(Commands)]
      /\ flags' \in [Client -> SUBSET Flag]
  BY <1>1, DiscardKeeps
<1>3. TypeOK' BY <1>1, <1>2 DEF WInv, TypeOK, WatchTypes, Flag
<1>4. ExecClient' BY <1>1 DEF WInv, ExecClient, Serving
<1> QED BY <1>2, <1>3, <1>4 DEF WInv

LEMMA FreeClientInv ==
    ASSUME WInv, NEW c \in Client, FreeClient(c)
    PROVE  WInv'
<1>1. /\ DiscardTransaction(c) /\ UNCHANGED <<plan, data, dirty, slave, exec, stream, saved>>
      /\ cdb' = [cdb EXCEPT ![c] = CHOOSE id \in Db : TRUE]
  BY DEF FreeClient
<1>2. /\ WatchTypes' /\ WatchIndex' /\ WatchedUnchanged' /\ MarkedWatches'
      /\ mstate' \in [Client -> Seq(Commands)]
      /\ flags' \in [Client -> SUBSET Flag]
  BY <1>1, DiscardKeeps
<1>3. (CHOOSE id \in Db : TRUE) \in Db BY MultiConstants
<1>4. cdb' \in [Client -> Db] BY <1>1, <1>3 DEF WInv, TypeOK
<1>5. TypeOK' BY <1>1, <1>2, <1>4 DEF WInv, TypeOK, WatchTypes, Flag
<1>6. ExecClient' BY <1>1 DEF WInv, ExecClient, Serving
<1> QED BY <1>2, <1>5, <1>6 DEF WInv

\* WATCH: the value of a key that was not watched yet is remembered.
LEMMA WatchCommandInv ==
    ASSUME WInv, NEW c \in Client, NEW n \in Name, WatchCommand(c, n)
    PROVE  WInv'
<1> DEFINE key == <<cdb[c], n>>
<1>1. /\ TypeOK /\ ExecClient
      /\ WatchIndex /\ WatchedUnchanged /\ MarkedWatches
  BY DEF WInv
<1>2. UNCHANGED <<plan, data, dirty, slave, flags, cdb, mstate, exec, stream, silent,
                   saved>>
  BY DEF WatchCommand
<1>3. key \in Key BY <1>1 DEF TypeOK, Key
<1>4. /\ watching \in [Client -> [Key -> 0..1]]
      /\ watchers \in [Key -> [Client -> 0..1]]
      /\ snap \in [Client -> [Key -> Val \cup {Null, Lapsed}]]
      /\ silent \in [Client -> SUBSET Key]
      /\ data \in [Key -> Val \cup {Null}]
  BY <1>1 DEF TypeOK, Dataset
<1>5. WatchForKey(c, key) BY DEF WatchCommand
<1> HIDE DEF key
<1>6. ExecClient' BY <1>1, <1>2 DEF ExecClient, Serving
<1>7. CASE watching[c][key] > 0
  <2>1. watching' = watching /\ watchers' = watchers /\ snap' = snap
    BY <1>5, <1>7 DEF WatchForKey
  <2>2. TypeOK' BY <1>1, <1>2, <2>1 DEF TypeOK
  <2>3. WatchIndex' /\ WatchedUnchanged' /\ MarkedWatches'
    BY <1>2, <2>1, SameWatches
  <2> QED BY <1>6, <2>2, <2>3 DEF WInv
<1>8. CASE ~(watching[c][key] > 0)
  <2>1. watching[c][key] = 0 /\ watchers[key][c] = 0
    BY <1>1, <1>3, <1>4, <1>8 DEF WatchIndex
  <2>2. /\ watching' = [watching EXCEPT ![c][key] = 1]
        /\ watchers' = [watchers EXCEPT ![key][c] = 1]
        /\ snap' = [snap EXCEPT ![c][key] = data[key]]
    BY <1>3, <1>4, <1>5, <1>8, <2>1 DEF WatchForKey
  <2>3. WatchTypes' BY <1>2, <1>3, <1>4, <2>2 DEF WatchTypes
  <2>4. TypeOK' BY <1>1, <1>2, <2>3 DEF TypeOK, WatchTypes
  <2>5. /\ watching'[c][key] = 1 /\ watchers'[key][c] = 1
        /\ snap'[c][key] = data[key]
    BY <1>3, <1>4, <2>2
  <2>6. \A x \in Client, k \in Key : ~(x = c /\ k = key) =>
           /\ watching'[x][k] = watching[x][k]
           /\ watchers'[k][x] = watchers[k][x]
           /\ snap'[x][k] = snap[x][k]
    BY <1>3, <1>4, <2>2
  <2>7. WatchIndex' BY <1>1, <2>5, <2>6 DEF WatchIndex
  <2>8. data[key] # Lapsed BY <1>3, <1>4, MultiConstants
  <2>9. WatchedUnchanged'
    <3> SUFFICES ASSUME NEW x \in Client, NEW k \in Key, watching'[x][k] > 0,
                        "DIRTY_CAS" \notin flags[x], k \notin silent[x]
                 PROVE  data[k] = IF snap'[x][k] = Lapsed THEN Null
                                  ELSE snap'[x][k]
      BY <1>2 DEF WatchedUnchanged, AsWatched
    <3>1. CASE x = c /\ k = key BY <2>5, <2>8, <3>1
    <3>2. CASE ~(x = c /\ k = key) BY <1>1, <2>6, <3>2 DEF WatchedUnchanged, AsWatched
    <3> QED BY <3>1, <3>2
  <2>10. MarkedWatches'
    <3> SUFFICES ASSUME NEW x \in Client, "DIRTY_CAS" \in flags[x]
                 PROVE  \E k \in Key : watching'[x][k] > 0
      BY <1>2 DEF MarkedWatches
    <3>1. PICK k \in Key : watching[x][k] > 0 BY <1>1 DEF MarkedWatches
    <3>2. watching'[x][k] > 0 BY <2>5, <2>6, <3>1
    <3> QED BY <3>2
  <2> QED BY <1>6, <2>4, <2>7, <2>9, <2>10 DEF WInv
<1> QED BY <1>7, <1>8

\* EXEC of a transaction nobody touched.
LEMMA ExecBeginInv ==
    ASSUME WInv, NEW c \in Client, ExecBegin(c)
    PROVE  WInv'
<1>1. /\ UnwatchAllKeys(c) /\ "DIRTY_CAS" \notin flags[c]
      /\ exec' = [client |-> c, next |-> 1, propagated |-> FALSE, dirty |-> dirty]
      /\ UNCHANGED <<plan, data, dirty, slave, flags, cdb, mstate, stream, saved>>
  BY DEF ExecBegin
<1>2. WatchTypes' /\ WatchIndex' /\ WatchedUnchanged' /\ MarkedWatches'
  BY <1>1, UnwatchKeeps
<1>3. exec' \in [client : Client \cup {Null}, next : Nat \ {0},
                 propagated : BOOLEAN, dirty : Nat]
  BY <1>1 DEF WInv, TypeOK
<1>4. TypeOK' BY <1>1, <1>2, <1>3 DEF WInv, TypeOK, WatchTypes
<1>5. ExecClient' BY <1>1 DEF ExecClient
<1> QED BY <1>2, <1>4, <1>5 DEF WInv

\* What ExecStep runs, with its definitions opened.
LEMMA ExecStepParts ==
    ASSUME WInv, ExecStep
    PROVE  \E q \in Commands :
             /\ q = mstate[exec.client][exec.next]
             /\ exec.client \in Client
             /\ Call(exec.client, q,
                     IF ~exec.propagated /\ ~IsReadOnly(q) THEN FeedMulti(stream)
                                                           ELSE stream)
             /\ exec' = [client |-> exec.client, next |-> exec.next + 1,
                         propagated |-> exec.propagated
                                        \/ (~exec.propagated /\ ~IsReadOnly(q)),
                         dirty |-> exec.dirty]
             /\ mstate' = mstate /\ plan' = plan
             /\ saved' = (saved \/ q.op = "save")
<1>1. exec.client \in Client BY DEF WInv, ExecClient, ExecStep
<1>2. exec.next \in Nat \ {0} BY DEF WInv, TypeOK
<1>3. mstate[exec.client] \in Seq(Commands) BY <1>1 DEF WInv, TypeOK
<1>4. exec.next \in 1..Len(mstate[exec.client]) BY <1>2, <1>3 DEF ExecStep
<1>5. mstate[exec.client][exec.next] \in Commands BY <1>3, <1>4
<1> QED BY <1>1, <1>5 DEF ExecStep

LEMMA ExecStepInv ==
    ASSUME WInv, ExecStep
    PROVE  WInv'
<1>1. PICK q \in Commands :
             /\ q = mstate[exec.client][exec.next]
             /\ exec.client \in Client
             /\ Call(exec.client, q,
                     IF ~exec.propagated /\ ~IsReadOnly(q) THEN FeedMulti(stream)
                                                           ELSE stream)
             /\ exec' = [client |-> exec.client, next |-> exec.next + 1,
                         propagated |-> exec.propagated
                                        \/ (~exec.propagated /\ ~IsReadOnly(q)),
                         dirty |-> exec.dirty]
             /\ mstate' = mstate /\ plan' = plan
             /\ saved' = (saved \/ q.op = "save")
  BY ExecStepParts
<1> DEFINE a == IF ~exec.propagated /\ ~IsReadOnly(q) THEN FeedMulti(stream) ELSE stream
<1>2. a \in StreamType
  <2>1. stream \in StreamType BY DEF WInv, TypeOK, StreamType
  <2>2. FeedMulti(stream) \in StreamType BY <2>1 DEF FeedMulti, StreamType
  <2> QED BY <2>1, <2>2
<1>3. Call(exec.client, q, a) BY <1>1
<1> HIDE DEF a
<1>4. /\ data' \in Dataset /\ dirty' \in Nat /\ slave' \in BOOLEAN
      /\ flags' \in [Client -> SUBSET {"MULTI", "DIRTY_CAS", "DIRTY_EXEC"}]
      /\ cdb' \in [Client -> Db] /\ stream' \in StreamType
      /\ WatchTypes' /\ WatchIndex' /\ WatchedUnchanged' /\ MarkedWatches'
  BY <1>1, <1>2, <1>3, CallInv
<1>5. /\ exec.next \in Nat \ {0} /\ exec.propagated \in BOOLEAN
      /\ exec.dirty \in Nat
  BY DEF WInv, TypeOK
<1>6. exec.next + 1 \in Nat \ {0} BY <1>5
<1>7. exec' \in [client : Client \cup {Null}, next : Nat \ {0},
                 propagated : BOOLEAN, dirty : Nat]
  BY <1>1, <1>5, <1>6
<1>8. TypeOK' BY <1>1, <1>4, <1>7 DEF WInv, TypeOK, WatchTypes, StreamType
<1>9. ExecClient' BY <1>1 DEF ExecClient
<1> QED BY <1>4, <1>8, <1>9 DEF WInv

LEMMA ExecEndInv ==
    ASSUME WInv, ExecEnd
    PROVE  WInv'
<1>1. exec.client \in Client BY DEF WInv, ExecClient, ExecEnd
<1>2. /\ DiscardTransaction(exec.client) /\ dirty' = DirtyAtEnd
      /\ (stream' = FeedExec(stream) \/ stream' = stream) /\ exec' = NoExec
      /\ UNCHANGED <<plan, data, slave, cdb, saved>>
  BY DEF ExecEnd
<1>3. /\ WatchTypes' /\ WatchIndex' /\ WatchedUnchanged' /\ MarkedWatches'
      /\ mstate' \in [Client -> Seq(Commands)]
      /\ flags' \in [Client -> SUBSET Flag]
  BY <1>1, <1>2, DiscardKeeps
<1>4. dirty' \in Nat BY <1>2 DEF WInv, TypeOK, DirtyAtEnd
<1>5. stream' \in StreamType
  <2>1. stream \in StreamType BY DEF WInv, TypeOK, StreamType
  <2>2. FeedExec(stream) \in StreamType BY <2>1 DEF FeedExec, StreamType
  <2> QED BY <1>2, <2>1, <2>2
<1>6. exec' \in [client : Client \cup {Null}, next : Nat \ {0},
                 propagated : BOOLEAN, dirty : Nat]
  BY <1>2 DEF NoExec
<1>7. TypeOK' BY <1>2, <1>3, <1>4, <1>5, <1>6
  DEF WInv, TypeOK, WatchTypes, StreamType, Flag
<1>8. ExecClient' BY <1>2 DEF ExecClient, Serving
<1> QED BY <1>3, <1>7, <1>8 DEF WInv
\* A key that expires or is evicted: its watchers are not marked, and what
\* they remember becomes Lapsed.
LEMMA VanishInv ==
    ASSUME WInv, NEW key \in Key, Vanish(key)
    PROVE  WInv'
<1>1. /\ TypeOK /\ ExecClient
      /\ WatchIndex /\ WatchedUnchanged /\ MarkedWatches
  BY DEF WInv
<1>2. UNCHANGED <<plan, dirty, slave, flags, cdb, mstate, watching, watchers, exec,
                   silent, saved>>
  BY DEF Vanish
<1>3. /\ data \in [Key -> Val \cup {Null}]
      /\ watching \in [Client -> [Key -> 0..1]]
      /\ snap \in [Client -> [Key -> Val \cup {Null, Lapsed}]]
      /\ stream.data \in Dataset /\ stream.block \in Dataset /\ stream.open \in BOOLEAN
  BY <1>1 DEF TypeOK, Dataset
<1>4. data' = [data EXCEPT ![key] = Null] /\ data' \in Dataset
  BY <1>3 DEF Vanish, Dataset
<1>5. snap' = [x \in Client |-> IF watching[x][key] = 0 THEN snap[x]
                               ELSE [snap[x] EXCEPT ![key] = Lapsed]]
  BY DEF Vanish
<1>6. snap' \in [Client -> [Key -> Val \cup {Null, Lapsed}]] BY <1>3, <1>5
<1>7. stream' \in StreamType
  <2>1. [stream.data EXCEPT ![key] = Null] \in Dataset BY <1>3 DEF Dataset
  <2>2. [stream.block EXCEPT ![key] = Null] \in Dataset BY <1>3 DEF Dataset
  <2> QED BY <1>3, <2>1, <2>2 DEF Vanish, StreamType
<1>8. TypeOK' BY <1>1, <1>2, <1>4, <1>6, <1>7 DEF TypeOK, StreamType
<1>9. ExecClient' BY <1>1, <1>2 DEF ExecClient, Serving
<1>10. WatchIndex' BY <1>1, <1>2 DEF WatchIndex
<1>11. MarkedWatches' BY <1>1, <1>2 DEF MarkedWatches
<1>12. WatchedUnchanged'
  <2> SUFFICES ASSUME NEW x \in Client, NEW k \in Key, watching[x][k] > 0,
                      "DIRTY_CAS" \notin flags[x], k \notin silent[x]
               PROVE  data'[k] = IF snap'[x][k] = Lapsed THEN Null
                                 ELSE snap'[x][k]
    BY <1>2 DEF WatchedUnchanged, AsWatched
  <2>1. CASE k = key
    <3>1. data'[k] = Null BY <1>3, <1>4, <2>1
    <3>2. watching[x][key] # 0 BY <1>3, <2>1
    <3>3. snap'[x][k] = Lapsed BY <1>3, <1>5, <2>1, <3>2
    <3> QED BY <3>1, <3>3
  <2>2. CASE k # key
    <3>1. data'[k] = data[k] BY <1>3, <1>4, <2>2
    <3>2. snap'[x][k] = snap[x][k] BY <1>3, <1>5, <2>2
    <3> QED BY <1>1, <3>1, <3>2 DEF WatchedUnchanged, AsWatched
  <2> QED BY <2>1, <2>2
<1> QED BY <1>8, <1>9, <1>10, <1>11, <1>12 DEF WInv

\* A slave loads the snapshot of its master: who watched a key that was there is
\* marked, for who watched one that was not the change is silent.
LEMMA LoadSnapshotInv ==
    ASSUME WInv, NEW ds \in Dataset, LoadSnapshot(ds)
    PROVE  WInv'
<1> DEFINE Came == {k \in Key : data[k] = Null /\ ds[k] # Null}
<1>1. /\ TypeOK /\ ExecClient
      /\ WatchIndex /\ WatchedUnchanged /\ MarkedWatches
  BY DEF WInv
<1>2. /\ UNCHANGED <<plan, dirty, slave, cdb, mstate, watching, watchers, exec, snap>>
      /\ data' = ds /\ silent' = SilentAfter(Came) /\ saved' = FALSE
      /\ stream' = [data |-> ds, block |-> ds, open |-> FALSE]
      /\ flags' = [c \in Client |-> IF FlushTouches(c, Key)
                                    THEN flags[c] \cup {"DIRTY_CAS"} ELSE flags[c]]
  BY DEF LoadSnapshot
<1>3. Came \in SUBSET Key OBVIOUS
<1>4. /\ silent' \in [Client -> SUBSET Key]
      /\ \A x \in Client : silent[x] \subseteq silent'[x]
      /\ \A x \in Client : \A k \in Came : watching[x][k] > 0 => k \in silent'[x]
  BY <1>1, <1>2, <1>3, SilentType
<1>5. /\ flags \in [Client -> SUBSET {"MULTI", "DIRTY_CAS", "DIRTY_EXEC"}]
      /\ flags' \in [Client -> SUBSET {"MULTI", "DIRTY_CAS", "DIRTY_EXEC"}]
  BY <1>1, <1>2 DEF TypeOK
<1>6. stream' \in StreamType BY <1>2 DEF StreamType
<1>7. TypeOK' BY <1>1, <1>2, <1>4, <1>5, <1>6 DEF TypeOK, StreamType
<1>8. ExecClient' BY <1>1, <1>2 DEF ExecClient, Serving
<1>9. WatchIndex' BY <1>1, <1>2 DEF WatchIndex
<1>10. MarkedWatches'
  <2> SUFFICES ASSUME NEW x \in Client, "DIRTY_CAS" \in flags'[x]
               PROVE  \E k \in Key : watching[x][k] > 0
    BY <1>2 DEF MarkedWatches
  <2>1. CASE FlushTouches(x, Key) BY <2>1 DEF FlushTouches
  <2>2. CASE ~FlushTouches(x, Key) BY <1>1, <1>2, <2>2 DEF MarkedWatches
  <2> QED BY <2>1, <2>2
<1>11. WatchedUnchanged'
  <2> SUFFICES ASSUME NEW x \in Client, NEW k \in Key, watching[x][k] > 0,
                      "DIRTY_CAS" \notin flags'[x], k \notin silent'[x]
               PROVE  ds[k] = IF snap[x][k] = Lapsed THEN Null ELSE snap[x][k]
    BY <1>2 DEF WatchedUnchanged, AsWatched
  <2>1. ~FlushTouches(x, Key) /\ "DIRTY_CAS" \notin flags[x] BY <1>2, <1>5
  <2>2. data[k] = Null BY <2>1 DEF FlushTouches
  <2>3. k \notin Came /\ k \notin silent[x] BY <1>4
  <2>4. ds[k] = data[k] BY <2>2, <2>3
  <2> QED BY <1>1, <2>1, <2>3, <2>4 DEF WatchedUnchanged, AsWatched
<1> QED BY <1>7, <1>8, <1>9, <1>10, <1>11 DEF WInv

LEMMA BackgroundSaveDoneInv ==
    ASSUME WInv, NEW n \in 0..(dirty - 1), BackgroundSaveDone(n)
    PROVE  WInv'
<1>1. n \in Nat BY DEF WInv, TypeOK
<1>2. TypeOK' BY <1>1 DEF WInv, TypeOK, BackgroundSaveDone
<1>3. ExecClient' BY DEF WInv, ExecClient, Serving, BackgroundSaveDone
<1>4. WatchIndex' /\ WatchedUnchanged' /\ MarkedWatches'
  BY SameWatches DEF BackgroundSaveDone
<1> QED BY <1>2, <1>3, <1>4 DEF WInv

\* The initial state.
LEMMA InitInv == Init => WInv
<1> SUFFICES ASSUME Init PROVE WInv OBVIOUS
<1>1. data \in Dataset /\ data = [k \in Key |-> Null] BY DEF Init, Dataset
<1>2. stream \in StreamType BY <1>1 DEF Init, StreamType
<1>3. cdb \in [Client -> Db]
  <2>1. (CHOOSE id \in Db : TRUE) \in Db BY MultiConstants
  <2> QED BY <2>1 DEF Init
<1>4. watching \in [Client -> [Key -> 0..1]] BY DEF Init, Unwatched
<1>5. watchers \in [Key -> [Client -> 0..1]] BY DEF Init
<1>6. /\ snap \in [Client -> [Key -> Val \cup {Null, Lapsed}]]
      /\ silent \in [Client -> SUBSET Key]
  BY DEF Init, NoSnap
<1>7. exec \in [client : Client \cup {Null}, next : Nat \ {0},
                propagated : BOOLEAN, dirty : Nat]
  BY DEF Init, NoExec
<1>8. /\ flags \in [Client -> SUBSET {"MULTI", "DIRTY_CAS", "DIRTY_EXEC"}]
      /\ \A c \in Client : "DIRTY_CAS" \notin flags[c]
  BY DEF Init
<1>9. mstate \in [Client -> Seq(Commands)] BY DEF Init
<1>10. TypeOK
  BY <1>1, <1>2, <1>3, <1>4, <1>5, <1>6, <1>7, <1>8, <1>9
  DEF Init, TypeOK, StreamType
<1>11. \A c \in Client, k \in Key : watching[c][k] = 0 /\ watchers[k][c] = 0
  BY DEF Init, Unwatched
<1>12. ExecClient BY DEF Init, ExecClient, Serving
<1>13. WatchIndex /\ WatchedUnchanged /\ MarkedWatches
  BY <1>8, <1>11 DEF WatchIndex, WatchedUnchanged, MarkedWatches
<1> QED BY <1>10, <1>12, <1>13 DEF WInv

\* Every step of the server, or none.
LEMMA StepInv == WInv /\ [Next]_vars => WInv'
<1> SUFFICES ASSUME WInv, [Next]_vars PROVE WInv' OBVIOUS
<1>1. CASE UNCHANGED vars
  BY <1>1 DEF vars, WInv, TypeOK, ExecClient, Serving, WatchIndex,
              WatchedUnchanged, AsWatched, MarkedWatches
<1>3. ASSUME NEW c \in Client, RefuseAndFlag(c) PROVE WInv'
  BY <1>3, RefuseAndFlagInv
<1>4. ASSUME NEW c \in Client, NEW q \in Commands, QueueMultiCommand(c, q)
      PROVE  WInv'
  BY <1>4, QueueMultiCommandInv
<1>5. ASSUME NEW c \in Client, NEW q \in Commands, RunCommand(c, q) PROVE WInv'
  BY <1>5, RunCommandInv
<1>6. ASSUME NEW c \in Client, MultiCommand(c) PROVE WInv' BY <1>6, MultiCommandInv
<1>7. ASSUME NEW c \in Client, DiscardCommand(c) \/ ExecAbort(c) PROVE WInv'
  BY <1>7, DiscardCommandInv
<1>8. ASSUME NEW c \in Client, NEW n \in Name, WatchCommand(c, n) PROVE WInv'
  BY <1>8, WatchCommandInv
<1>9. ASSUME NEW c \in Client, ExecBegin(c) PROVE WInv' BY <1>9, ExecBeginInv
<1>10. ASSUME NEW c \in Client, FreeClient(c) PROVE WInv' BY <1>10, FreeClientInv
<1>11. CASE ExecStep BY <1>11, ExecStepInv
<1>12. CASE ExecEnd BY <1>12, ExecEndInv
<1>13. ASSUME NEW k \in Key, Vanish(k) PROVE WInv' BY <1>13, VanishInv
<1>14. ASSUME NEW n \in 0..(dirty - 1), BackgroundSaveDone(n) PROVE WInv'
  BY <1>14, BackgroundSaveDoneInv
<1>15. ASSUME NEW ds \in Dataset, LoadSnapshot(ds) PROVE WInv'
  BY <1>15, LoadSnapshotInv
<1> QED BY <1>1, <1>3, <1>4, <1>5, <1>6, <1>7, <1>8, <1>9, <1>10, <1>11,
           <1>12, <1>13, <1>14, <1>15 DEF Next

\* The invariant of the watch tables holds in every behaviour.
LEMMA Inductive == Spec => []WInv
BY InitInv, StepInv, PTL DEF Spec

\* Types, for any number of clients, databases and commands: in particular a
\* client never has two nodes for one key (watchForKey).
THEOREM TypeCorrect == Spec => []TypeOK
<1>1. WInv => TypeOK BY DEF WInv
<1> QED BY <1>1, Inductive, PTL

\* The list of a client and those of its keys always agree (watchForKey,
\* unwatchAllKeys), so that the assertion in unwatchAllKeys never fails.
THEOREM WatchIndexHolds == Spec => []WatchIndex
<1>1. WInv => WatchIndex BY DEF WInv
<1> QED BY <1>1, Inductive, PTL

\* A client that is not marked still finds the values it watched, or lost them
\* to expiration or eviction (touchWatchedKey, touchWatchedKeysOnFlush), but for
\* the keys of a MOVE and those a master's snapshot brought, which are changed
\* without a signal (moveCommand, readSyncBulkPayload).
THEOREM WatchedUnchangedHolds == Spec => []WatchedUnchanged
<1>1. WInv => WatchedUnchanged BY DEF WInv
<1> QED BY <1>1, Inductive, PTL

\* A client is marked only while it watches (unwatchCommand, execCommand).
THEOREM MarkedWatchesHolds == Spec => []MarkedWatches
<1>1. WInv => MarkedWatches BY DEF WInv
<1> QED BY <1>1, Inductive, PTL
-----------------------------------------------------------------------------
(* What is propagated, until an EXEC runs SAVE, which resets dirty *)

\* What the stream of commands holds: the block read so far is the dataset; a
\* block is open exactly between the MULTI and the EXEC of a transaction, whose
\* changes dirty has counted since.
StreamOK ==
    ~saved =>
        /\ stream.block = data
        /\ ~stream.open => stream.data = data
        /\ Serving => ~stream.open
        /\ ~Serving => (stream.open <=> exec.propagated) /\ exec.dirty <= dirty

\* A command that goes into the stream after a keeps the stream in step with
\* the dataset, since every command that changes the dataset changes dirty.
LEMMA CallStream ==
    ASSUME WInv, NEW c \in Client, NEW q \in Commands, NEW a \in StreamType,
           Call(c, q, a), a.block = data, ~a.open => a.data = data
    PROVE  /\ stream'.block = data' /\ (~stream'.open => stream'.data = data')
           /\ stream'.open = a.open /\ (q.op # "save" => dirty <= dirty')
<1> DEFINE id == cdb[c]
<1>1. id \in Db /\ TypeOK BY DEF WInv, TypeOK
<1>2. data' = DataAfter(data, q, id) /\ dirty' = DirtyAfter(q, id) BY DEF Call
<1> HIDE DEF id
<1>4. (q.op # "save" => dirty <= dirty') /\ (dirty' = dirty => data' = data)
  BY <1>1, <1>2, DirtyGrows
<1>5. CASE dirty' = dirty
  <2>1. stream' = a BY <1>5 DEF Call
  <2> QED BY <1>4, <1>5, <2>1
<1>6. CASE dirty' # dirty
  <2>1. stream' = Feed(a, q, id) BY <1>6 DEF Call, id
  <2>2. /\ stream'.block = DataAfter(a.block, q, id) /\ stream'.open = a.open
        /\ ~a.open => stream'.data = DataAfter(a.data, q, id)
    BY <2>1 DEF Feed
  <2> QED BY <1>2, <1>4, <2>2
<1> QED BY <1>5, <1>6

\* One command of an EXEC; MULTI precedes the first that is no read.
LEMMA ExecStepStream ==
    ASSUME WInv, StreamOK, ExecStep, ~saved'
    PROVE  StreamOK'
<1>1. PICK q \in Commands :
             /\ q = mstate[exec.client][exec.next]
             /\ exec.client \in Client
             /\ Call(exec.client, q,
                     IF ~exec.propagated /\ ~IsReadOnly(q) THEN FeedMulti(stream)
                                                           ELSE stream)
             /\ exec' = [client |-> exec.client, next |-> exec.next + 1,
                         propagated |-> exec.propagated
                                        \/ (~exec.propagated /\ ~IsReadOnly(q)),
                         dirty |-> exec.dirty]
             /\ mstate' = mstate /\ plan' = plan
             /\ saved' = (saved \/ q.op = "save")
  BY ExecStepParts
<1> DEFINE starts == ~exec.propagated /\ ~IsReadOnly(q)
           a == IF starts THEN FeedMulti(stream) ELSE stream
<1>2. stream \in StreamType /\ exec.dirty \in Nat /\ dirty \in Nat /\ ~Serving
  BY DEF WInv, TypeOK, StreamType, ExecStep
<1>11. ~saved /\ q.op # "save" BY <1>1
<1>3. a \in StreamType
  <2>1. FeedMulti(stream) \in StreamType BY <1>2 DEF FeedMulti, StreamType
  <2> QED BY <1>2, <2>1
<1>4. /\ a.block = data /\ (~a.open => a.data = data)
      /\ a.open <=> exec.propagated \/ starts
  BY <1>2, <1>11 DEF StreamOK, FeedMulti, StreamType
<1>5. Call(exec.client, q, a) BY <1>1
<1>6. /\ exec'.client = exec.client /\ exec'.dirty = exec.dirty
      /\ exec'.propagated = (exec.propagated \/ starts)
  BY <1>1
<1>7. exec.client # Null BY <1>1, MultiConstants
<1> HIDE DEF a, starts
<1>8. /\ stream'.block = data' /\ (~stream'.open => stream'.data = data')
      /\ stream'.open = a.open /\ dirty <= dirty'
  BY <1>1, <1>3, <1>4, <1>5, <1>11, CallStream
<1>9. exec'.dirty <= dirty'
  <2>1. dirty' \in Nat BY ExecStepInv DEF WInv, TypeOK
  <2>2. exec.dirty <= dirty BY <1>2, <1>11 DEF StreamOK
  <2> QED BY <1>2, <1>6, <1>8, <2>1, <2>2
<1>10. ~Serving' BY <1>6, <1>7 DEF Serving, NoExec
<1> QED BY <1>4, <1>6, <1>8, <1>9, <1>10 DEF StreamOK

\* EXEC follows whenever MULTI went into the stream, because dirty then differs
\* from what it was when the transaction began.
LEMMA ExecEndStream ==
    ASSUME WInv, StreamOK, ExecEnd, ~saved'
    PROVE  StreamOK'
<1>1. /\ data' = data /\ exec' = NoExec /\ dirty' = DirtyAtEnd /\ ~Serving /\ ~saved
      /\ dirty' # exec.dirty => stream' = FeedExec(stream)
      /\ dirty' = exec.dirty => stream' = stream
  BY DEF ExecEnd
<1>2. dirty \in Nat /\ exec.dirty \in Nat /\ exec.dirty <= dirty
  BY <1>1 DEF WInv, TypeOK, StreamOK
<1>3. exec.propagated => dirty' # exec.dirty BY <1>1, <1>2 DEF DirtyAtEnd
<1>4. CASE dirty' # exec.dirty BY <1>1, <1>4 DEF FeedExec, StreamOK, Serving
<1>5. CASE dirty' = exec.dirty BY <1>1, <1>3, <1>5 DEF StreamOK, Serving
<1> QED BY <1>4, <1>5

\* A DEL goes into the stream for a key that expired or was evicted.
LEMMA VanishStream ==
    ASSUME WInv, StreamOK, NEW k \in Key, Vanish(k)
    PROVE  StreamOK'
<1>1. /\ data' = [data EXCEPT ![k] = Null] /\ exec' = exec /\ dirty' = dirty
      /\ saved' = saved
      /\ stream'.block = [stream.block EXCEPT ![k] = Null] /\ stream'.open = stream.open
      /\ ~stream.open => stream'.data = [stream.data EXCEPT ![k] = Null]
  BY DEF Vanish
<1> QED BY <1>1 DEF StreamOK, Serving

\* Every other step leaves the stream alone or adds one command to it.
LEMMA StepStream ==
    ASSUME WInv, StreamOK, [Next]_vars
    PROVE  StreamOK'
<1> SUFFICES ASSUME ~saved' PROVE StreamOK' BY DEF StreamOK
<1>1. CASE UNCHANGED vars BY <1>1 DEF vars, StreamOK, Serving
<1>2. ASSUME UNCHANGED <<data, dirty, exec, stream, saved>> PROVE StreamOK'
  BY <1>2 DEF StreamOK, Serving
<1>3. ASSUME NEW c \in Client,
             \/ RefuseAndFlag(c) \/ MultiCommand(c)
             \/ DiscardCommand(c) \/ ExecAbort(c) \/ FreeClient(c)
             \/ \E n \in Name : WatchCommand(c, n)
             \/ \E q \in Commands : QueueMultiCommand(c, q)
      PROVE  StreamOK'
  <2>1. UNCHANGED <<data, dirty, exec, stream, saved>>
    BY <1>3 DEF RefuseAndFlag, MultiCommand, DiscardCommand,
                ExecAbort, FreeClient, WatchCommand, QueueMultiCommand
  <2> QED BY <1>2, <2>1
<1>4. ASSUME NEW c \in Client, NEW q \in Commands, RunCommand(c, q)
      PROVE  StreamOK'
  <2>1. Call(c, q, stream) /\ exec' = exec /\ Serving /\ ~saved
    BY <1>4 DEF RunCommand, Serves
  <2>2. stream \in StreamType BY DEF WInv, TypeOK, StreamType
  <2>3. stream.block = data /\ stream.data = data /\ ~stream.open
    BY <2>1 DEF StreamOK
  <2>4. /\ stream'.block = data' /\ (~stream'.open => stream'.data = data')
        /\ stream'.open = stream.open
    BY <2>1, <2>2, <2>3, CallStream
  <2> QED BY <2>1, <2>3, <2>4 DEF StreamOK, Serving
<1>5. ASSUME NEW c \in Client, ExecBegin(c) PROVE StreamOK'
  <2>1. /\ exec' = [client |-> c, next |-> 1, propagated |-> FALSE, dirty |-> dirty]
        /\ UNCHANGED <<data, dirty, stream, saved>> /\ Serving
    BY <1>5 DEF ExecBegin, Serves
  <2>2. dirty \in Nat BY DEF WInv, TypeOK
  <2>3. ~exec'.propagated /\ exec'.dirty = dirty BY <2>1
  <2>4. dirty <= dirty BY <2>2
  <2> QED BY <2>1, <2>3, <2>4 DEF StreamOK
<1>6. CASE ExecStep BY <1>6, ExecStepStream
<1>7. CASE ExecEnd BY <1>7, ExecEndStream
<1>8. ASSUME NEW k \in Key, Vanish(k) PROVE StreamOK' BY <1>8, VanishStream
<1>9. ASSUME NEW n \in 0..(dirty - 1), BackgroundSaveDone(n) PROVE StreamOK'
  BY <1>9 DEF BackgroundSaveDone, StreamOK, Serving
<1>10. ASSUME NEW ds \in Dataset, LoadSnapshot(ds) PROVE StreamOK'
  BY <1>10 DEF LoadSnapshot, StreamOK, Serving
<1> QED BY <1>1, <1>3, <1>4, <1>5, <1>6, <1>7, <1>8, <1>9, <1>10 DEF Next

\* As long as no EXEC has run SAVE, no block is left open in what is propagated
\* and running it gives the dataset (execCommandPropagateMulti, execCommand,
\* propagate).
THEOREM StreamAgreesHolds == Spec => []StreamAgrees
<1>1. Init => StreamOK BY DEF Init, StreamOK, Serving
<1>2. WInv /\ StreamOK /\ [Next]_vars => StreamOK' BY StepStream
<1>3. StreamOK => StreamAgrees BY DEF StreamOK, StreamAgrees
<1> QED BY <1>1, <1>2, <1>3, Inductive, PTL DEF Spec
=============================================================================
