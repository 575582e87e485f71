------------------------------ MODULE Blocking ------------------------------
(***************************************************************************)
(* The blocking list operations of t_list.c: BLPOP, BRPOP, BRPOPLPUSH, the  *)
(* ready keys, the service of blocked clients after a command or an EXEC,   *)
(* timeouts, disconnection, and the unblocked clients beforeSleep resumes.  *)
(*                                                                         *)
(* The event loop runs one thing at a time; the model has its turns, in each *)
(* of which a client's socket is read at most once.  Every pushed value is   *)
(* distinct, so that the properties can follow it.                           *)
(***************************************************************************)
EXTENDS Integers, Sequences, FiniteSets

CONSTANTS Client, ListKey, Null,
          KeyLists,    \* the keys a BLPOP or BRPOP names, in their order
          MaxPush      \* bound on the values pushed

ASSUME BlockingConstants ==
    /\ Null \notin Client /\ Null \notin ListKey
    /\ \A ks \in KeyLists : ks \in Seq(ListKey) /\ ks # <<>>
    /\ MaxPush \in Nat

PushedValue == 1..MaxPush

Where == {"head", "tail"}

VARIABLES dataset,    \* db->dict: the lists, and the keys that hold a string
          replica,    \* the same where the propagated commands are run
          pushed,     \* how many values were pushed
          gone,       \* the values that were popped, delivered or deleted
          alive,      \* server.clients
          flags,      \* c->flags: BLOCKED and UNBLOCKED
          bpop,       \* c->bpop, and the side c->lastcmd pops from
          blocking,   \* db->blocking_keys
          ready,      \* server.ready_keys
          readyset,   \* db->ready_keys
          batch,      \* what handleClientsBlockedOnLists goes through
          serve,      \* the key it serves, and for how many clients still
          unblocked,  \* server.unblocked_clients
          current,    \* the client whose input is processed
          exec,       \* the current client runs an EXEC
          phase,      \* beforeSleep, aeProcessEvents, or lost
          turn        \* the clients whose sockets may be read in this turn

blVars == <<dataset, replica, pushed, gone, alive, flags, bpop, blocking, ready,
          readyset, batch, serve, unblocked, current, exec, phase, turn>>

NoBpop == [keys |-> {}, target |-> Null, where |-> "tail"]

NoServe == [key |-> Null, left |-> 0]

Empty == [list |-> [k \in ListKey |-> <<>>], str |-> {}]

BlInit ==
    /\ dataset = Empty /\ replica = Empty
    /\ pushed = 0 /\ gone = {}
    /\ alive = Client
    /\ flags = [c \in Client |-> {}]
    /\ bpop = [c \in Client |-> NoBpop]
    /\ blocking = [k \in ListKey |-> <<>>]
    /\ ready = <<>> /\ readyset = {}
    /\ batch = <<>> /\ serve = NoServe
    /\ unblocked = <<>>
    /\ current = Null /\ exec = FALSE
    /\ phase = "sleep" /\ turn = {}

-----------------------------------------------------------------------------
(* Lists *)

Listed(s) == {s[i] : i \in DOMAIN s}

Distinct(s) == \A i, j \in DOMAIN s : s[i] = s[j] => i = j

\* listSearchKey
FirstAt(s, x) == CHOOSE i \in DOMAIN s : s[i] = x /\ \A j \in 1..(i - 1) : s[j] # x

\* listDelNode
DelNode(s, n) == [i \in 1..(Len(s) - 1) |-> IF i < n THEN s[i] ELSE s[i + 1]]

IsList(ds, k) == ds.list[k] # <<>>

Absent(ds, k) == ds.list[k] = <<>> /\ k \notin ds.str

\* listTypePush, with dbAdd if the key is absent.
ListPush(ds, k, v, w) ==
    [ds EXCEPT !.list[k] = IF w = "head" THEN <<v>> \o @ ELSE Append(@, v)]

\* What listTypePop returns, and leaves: the callers delete an empty list.
Popped(ds, k, w) == IF w = "head" THEN Head(ds.list[k])
                                  ELSE ds.list[k][Len(ds.list[k])]

ListPop(ds, k, w) ==
    [ds EXCEPT !.list[k] = IF w = "head" THEN Tail(@) ELSE SubSeq(@, 1, Len(@) - 1)]

\* rpoplpushHandlePush after the pop
Move(ds, k, d) == ListPush(ListPop(ds, k, "tail"), d, Popped(ds, k, "tail"), "head")

Delete(ds, k) == [list |-> [ds.list EXCEPT ![k] = <<>>], str |-> ds.str \ {k}]

SetString(ds, k) == [list |-> [ds.list EXCEPT ![k] = <<>>], str |-> ds.str \cup {k}]

-----------------------------------------------------------------------------
(* Blocking and unblocking *)

\* blockForKeys
BlockForKeys(c, ks, target, w) ==
    /\ bpop' = [bpop EXCEPT ![c] = [keys |-> Listed(ks), target |-> target,
                                    where |-> w]]
    /\ blocking' = [k \in ListKey |-> IF k \in Listed(ks) THEN Append(blocking[k], c)
                                                          ELSE blocking[k]]
    /\ flags' = [flags EXCEPT ![c] = @ \cup {"BLOCKED"}]

\* What unblockClientWaitingData leaves in db->blocking_keys.
BlockingWithout(c) ==
    [k \in ListKey |-> IF k \in bpop[c].keys
                       THEN DelNode(blocking[k], FirstAt(blocking[k], c))
                       ELSE blocking[k]]

\* Mutant: only the key that was served forgets the client.
UnblockOneKey(c) ==
    /\ blocking' = [k \in ListKey |-> IF k = serve.key
                                     THEN DelNode(blocking[k], FirstAt(blocking[k], c))
                                     ELSE blocking[k]]
    /\ bpop' = [bpop EXCEPT ![c] = NoBpop]
    /\ flags' = [flags EXCEPT ![c] = (@ \ {"BLOCKED"}) \cup {"UNBLOCKED"}]
    /\ unblocked' = Append(unblocked, c)

UnblockClientWaitingData(c) ==
    /\ blocking' = BlockingWithout(c)
    /\ bpop' = [bpop EXCEPT ![c] = NoBpop]
    /\ flags' = [flags EXCEPT ![c] = (@ \ {"BLOCKED"}) \cup {"UNBLOCKED"}]
    /\ unblocked' = Append(unblocked, c)

\* Mutant: a key that was signaled is queued again.
SignalAgain(k, waiting) ==
    /\ ready' = IF waiting = <<>> THEN ready ELSE Append(ready, k)
    /\ readyset' = IF waiting = <<>> THEN readyset ELSE readyset \cup {k}

\* signalListAsReady, where waiting is the list of clients for k.
SignalListAsReady(k, waiting) ==
    IF waiting = <<>> \/ k \in readyset THEN UNCHANGED <<ready, readyset>>
    ELSE ready' = Append(ready, k) /\ readyset' = readyset \cup {k}

\* freeClient of a client that is not being served.
FreeClient(c) ==
    LET blocked == "BLOCKED" \in flags[c]
        listed  == IF blocked THEN Append(unblocked, c) ELSE unblocked
    IN /\ alive' = alive \ {c}
       /\ blocking' = BlockingWithout(c)
       /\ bpop' = [bpop EXCEPT ![c] = NoBpop]
       /\ flags' = [flags EXCEPT ![c] = {}]
       /\ unblocked' = IF blocked \/ "UNBLOCKED" \in flags[c]
                       THEN DelNode(listed, FirstAt(listed, c)) ELSE listed

-----------------------------------------------------------------------------
(* Commands.  One that replies with an error or nil changes nothing. *)

\* handleClientsBlockedOnLists has nothing to do.
Quiet == ready = <<>> /\ batch = <<>> /\ serve = NoServe

\* processCommand for the client whose input is processed.
Runs(c) ==
    /\ current = c
    /\ "BLOCKED" \notin flags[c]
    /\ exec \/ Quiet

PushGenericCommand(c, k, w) ==
    /\ Runs(c)
    /\ pushed < MaxPush /\ k \notin dataset.str
    /\ IF Absent(dataset, k) THEN SignalListAsReady(k, blocking[k])
                        ELSE UNCHANGED <<ready, readyset>>
    /\ pushed' = pushed + 1
    /\ dataset' = ListPush(dataset, k, pushed + 1, w)
    /\ replica' = ListPush(replica, k, pushed + 1, w)
    /\ UNCHANGED <<gone, alive, flags, bpop, blocking, batch, serve, unblocked,
                   current, exec, phase, turn>>

\* A pop and its effect on what the properties follow.
TakeOut(k, w) ==
    /\ dataset' = ListPop(dataset, k, w)
    /\ replica' = ListPop(replica, k, w)
    /\ gone' = gone \cup {Popped(dataset, k, w)}

PopGenericCommand(c, k, w) ==
    /\ Runs(c)
    /\ IsList(dataset, k)
    /\ TakeOut(k, w)
    /\ UNCHANGED <<pushed, alive, flags, bpop, blocking, ready, readyset, batch,
                   serve, unblocked, current, exec, phase, turn>>

RpoplpushCommand(c, k, d) ==
    /\ Runs(c)
    /\ IsList(dataset, k) /\ d \notin dataset.str
    /\ IF Absent(dataset, d) THEN SignalListAsReady(d, blocking[d])
                        ELSE UNCHANGED <<ready, readyset>>
    /\ dataset' = Move(dataset, k, d)
    /\ replica' = Move(replica, k, d)
    /\ UNCHANGED <<pushed, gone, alive, flags, bpop, blocking, batch, serve,
                   unblocked, current, exec, phase, turn>>

DelCommand(c, k) ==
    /\ Runs(c)
    /\ ~Absent(dataset, k)
    /\ dataset' = Delete(dataset, k)
    /\ replica' = Delete(replica, k)
    /\ gone' = gone \cup Listed(dataset.list[k])
    /\ UNCHANGED <<pushed, alive, flags, bpop, blocking, ready, readyset, batch,
                   serve, unblocked, current, exec, phase, turn>>

SetCommand(c, k) ==
    /\ Runs(c)
    /\ dataset' = SetString(dataset, k)
    /\ replica' = SetString(replica, k)
    /\ gone' = gone \cup Listed(dataset.list[k])
    /\ UNCHANGED <<pushed, alive, flags, bpop, blocking, ready, readyset, batch,
                   serve, unblocked, current, exec, phase, turn>>

\* The keys of ks are tried in their order; the first that exists decides.
Decides(ks, i) == ~Absent(dataset, ks[i]) /\ \A j \in 1..(i - 1) : Absent(dataset, ks[j])

BlockingPopGenericCommand(c, ks, w) ==
    /\ Runs(c)
    /\ \/ \E i \in DOMAIN ks :
            /\ Decides(ks, i) /\ IsList(dataset, ks[i])
            /\ TakeOut(ks[i], w)
            /\ UNCHANGED <<flags, bpop, blocking>>
       \/ /\ \A i \in DOMAIN ks : Absent(dataset, ks[i])
          /\ ~exec
          /\ BlockForKeys(c, ks, Null, w)
          /\ UNCHANGED <<dataset, replica, gone>>
    /\ UNCHANGED <<pushed, alive, ready, readyset, batch, serve, unblocked,
                   current, exec, phase, turn>>

\* If the source exists this is RPOPLPUSH.
BrpoplpushCommand(c, k, d) ==
    /\ Runs(c)
    /\ Absent(dataset, k) /\ ~exec
    /\ BlockForKeys(c, <<k>>, d, "tail")
    /\ UNCHANGED <<dataset, replica, pushed, gone, alive, ready, readyset, batch,
                   serve, unblocked, current, exec, phase, turn>>

\* Mutant of KillCommand: the client that runs it may be the one.
KillCommandSelf(c, x) ==
    /\ Runs(c)
    /\ x \in alive
    /\ FreeClient(x)
    /\ UNCHANGED <<dataset, replica, pushed, gone, ready, readyset, batch, serve,
                   current, exec, phase, turn>>

\* CLIENT KILL of another client
KillCommand(c, x) ==
    /\ Runs(c)
    /\ x \in alive \ {c}
    /\ FreeClient(x)
    /\ UNCHANGED <<dataset, replica, pushed, gone, ready, readyset, batch, serve,
                   current, exec, phase, turn>>

ExecBegin(c) ==
    /\ Runs(c)
    /\ ~exec
    /\ exec' = TRUE
    /\ UNCHANGED <<dataset, replica, pushed, gone, alive, flags, bpop, blocking, ready,
                   readyset, batch, serve, unblocked, current, phase, turn>>

ExecEnd ==
    /\ exec
    /\ exec' = FALSE
    /\ UNCHANGED <<dataset, replica, pushed, gone, alive, flags, bpop, blocking, ready,
                   readyset, batch, serve, unblocked, current, phase, turn>>

-----------------------------------------------------------------------------
(* handleClientsBlockedOnLists, after a command or an EXEC *)

HandleBegin ==
    /\ ~exec
    /\ ready # <<>> /\ batch = <<>> /\ serve = NoServe
    /\ batch' = ready
    /\ ready' = <<>>
    /\ UNCHANGED <<dataset, replica, pushed, gone, alive, flags, bpop, blocking,
                   readyset, serve, unblocked, current, exec, phase, turn>>

\* Mutant of Waiting: one client is served, however many elements there are.
WaitingFirst(k) == 1

Waiting(k) == Len(blocking[k])

\* The key is taken out of db->ready_keys; it is served if it is a list that
\* clients wait for.
HandleKey ==
    /\ batch # <<>> /\ serve = NoServe
    /\ LET k == Head(batch)
       IN /\ readyset' = readyset \ {k}
          /\ IF IsList(dataset, k) /\ blocking[k] # <<>>
             THEN serve' = [key |-> k, left |-> Waiting(k)] /\ UNCHANGED batch
             ELSE batch' = Tail(batch) /\ UNCHANGED serve
    /\ UNCHANGED <<dataset, replica, pushed, gone, alive, flags, bpop, blocking, ready,
                   unblocked, current, exec, phase, turn>>

\* Mutant of Served: the failed BRPOPLPUSH has lost its element.
ServedNotUndone(ds, k, d, w) ==
    IF d = Null \/ d \in ds.str THEN ListPop(ds, k, w) ELSE Move(ds, k, d)

\* The dataset after the first client in line was served: a BRPOPLPUSH whose
\* target is no list fails, and the pop is undone.
Served(ds, k, d, w) ==
    IF d = Null THEN ListPop(ds, k, w)
    ELSE IF d \in ds.str THEN ds ELSE Move(ds, k, d)

\* Mutant of Propagated: the push of BRPOPLPUSH is not propagated.
PropagatedPop(ds, k, d, w) == ListPop(ds, k, w)

\* serveClientBlockedOnList propagates a pop, and a push for BRPOPLPUSH.
Propagated(ds, k, d, w) ==
    IF d = Null THEN ListPop(ds, k, w)
    ELSE ListPush(ListPop(ds, k, "tail"), d, Popped(ds, k, "tail"), "head")

\* The list that is served exists even while it is empty.
ServeClientBlockedOnList ==
    /\ serve # NoServe /\ serve.left > 0
    /\ IsList(dataset, serve.key)
    /\ LET k == serve.key
           c == Head(blocking[k])
           d == bpop[c].target
           w == bpop[c].where
       IN /\ UnblockClientWaitingData(c)
          /\ dataset' = Served(dataset, k, d, w)
          /\ replica' = IF d \in dataset.str THEN replica ELSE Propagated(replica, k, d, w)
          /\ gone' = IF d = Null THEN gone \cup {Popped(dataset, k, w)} ELSE gone
          /\ IF d # Null /\ d # k /\ Absent(dataset, d)
             THEN SignalListAsReady(d, blocking'[d])
             ELSE UNCHANGED <<ready, readyset>>
          /\ serve' = [key |-> k, left |-> serve.left - 1]
    /\ UNCHANGED <<pushed, alive, batch, current, exec, phase, turn>>

\* Mutant of HandleKeyDone: a key that has elements left stays in the list.
HandleKeyKept ==
    /\ serve # NoServe
    /\ serve.left = 0 \/ ~IsList(dataset, serve.key)
    /\ serve' = NoServe
    /\ batch' = IF IsList(dataset, serve.key) THEN batch ELSE Tail(batch)
    /\ UNCHANGED <<dataset, replica, pushed, gone, alive, flags, bpop, blocking, ready,
                   readyset, unblocked, current, exec, phase, turn>>

\* An empty list is deleted.
HandleKeyDone ==
    /\ serve # NoServe
    /\ serve.left = 0 \/ ~IsList(dataset, serve.key)
    /\ serve' = NoServe
    /\ batch' = Tail(batch)
    /\ UNCHANGED <<dataset, replica, pushed, gone, alive, flags, bpop, blocking, ready,
                   readyset, unblocked, current, exec, phase, turn>>

-----------------------------------------------------------------------------
(* The event loop *)

Between == current = Null /\ Quiet

\* Mutant of Resumed: the client stays marked.
ResumedMarked(c) == flags[c]

Resumed(c) == flags[c] \ {"UNBLOCKED"}

\* beforeSleep: the next unblocked client; its input buffer may hold commands.
BeforeSleepResume ==
    /\ phase = "sleep" /\ Between
    /\ unblocked # <<>>
    /\ LET c == Head(unblocked)
       IN \/ /\ c \in alive
             /\ flags' = [flags EXCEPT ![c] = Resumed(c)]
             /\ current' \in {Null} \cup (IF "BLOCKED" \in flags[c] THEN {} ELSE {c})
             /\ UNCHANGED phase
          \/ \* the memory of a freed client is used: no more is known
             /\ c \notin alive
             /\ phase' = "lost"
             /\ UNCHANGED <<flags, current>>
    /\ unblocked' = Tail(unblocked)
    /\ UNCHANGED <<dataset, replica, pushed, gone, alive, bpop, blocking, ready,
                   readyset, batch, serve, exec, turn>>

\* aeApiPoll
Poll ==
    /\ phase = "sleep" /\ Between
    /\ unblocked = <<>>
    /\ phase' = "events"
    /\ turn' = alive
    /\ UNCHANGED <<dataset, replica, pushed, gone, alive, flags, bpop, blocking, ready,
                   readyset, batch, serve, unblocked, current, exec>>

\* readQueryFromClient; a blocked client's input stays in the buffer.
ReadQueryFromClient(c) ==
    /\ phase = "events" /\ Between
    /\ c \in turn \cap alive /\ "BLOCKED" \notin flags[c]
    /\ turn' = turn \ {c}
    /\ current' = c
    /\ UNCHANGED <<dataset, replica, pushed, gone, alive, flags, bpop, blocking, ready,
                   readyset, batch, serve, unblocked, exec, phase>>

\* readQueryFromClient when the connection was closed
ReadClosed(c) ==
    /\ phase = "events" /\ Between
    /\ c \in turn \cap alive
    /\ turn' = turn \ {c}
    /\ FreeClient(c)
    /\ UNCHANGED <<dataset, replica, pushed, gone, ready, readyset, batch, serve,
                   current, exec, phase>>

\* processInputBuffer returns: no more input, or the client is blocked.
InputDone ==
    /\ current # Null /\ ~exec /\ Quiet
    /\ current' = Null
    /\ UNCHANGED <<dataset, replica, pushed, gone, alive, flags, bpop, blocking, ready,
                   readyset, batch, serve, unblocked, exec, phase, turn>>

\* serverCron runs after the sockets: clientsCronHandleTimeout,
CronTimeout(c) ==
    /\ phase = "events" /\ Between
    /\ "BLOCKED" \in flags[c]
    /\ UnblockClientWaitingData(c)
    /\ turn' = {}
    /\ UNCHANGED <<dataset, replica, pushed, gone, alive, ready, readyset, batch, serve,
                   current, exec, phase>>

\* and freeClientsInAsyncFreeQueue or the end of an idle client.
CronFree(c) ==
    /\ phase = "events" /\ Between
    /\ c \in alive
    /\ FreeClient(c)
    /\ turn' = {}
    /\ UNCHANGED <<dataset, replica, pushed, gone, ready, readyset, batch, serve,
                   current, exec, phase>>

EndTurn ==
    /\ phase = "events" /\ Between
    /\ phase' = "sleep" /\ turn' = {}
    /\ UNCHANGED <<dataset, replica, pushed, gone, alive, flags, bpop, blocking, ready,
                   readyset, batch, serve, unblocked, current, exec>>

Command(c) ==
    \/ \E k \in ListKey, w \in Where : PushGenericCommand(c, k, w) \/ PopGenericCommand(c, k, w)
    \/ \E k, d \in ListKey : RpoplpushCommand(c, k, d) \/ BrpoplpushCommand(c, k, d)
    \/ \E k \in ListKey : DelCommand(c, k) \/ SetCommand(c, k)
    \/ \E ks \in KeyLists, w \in Where : BlockingPopGenericCommand(c, ks, w)
    \/ \E x \in Client : KillCommand(c, x)
    \/ ExecBegin(c)

Handle == HandleBegin \/ HandleKey \/ ServeClientBlockedOnList \/ HandleKeyDone

BlNext ==
    \/ \E c \in Client : Command(c)
    \/ ExecEnd
    \/ Handle
    \/ BeforeSleepResume \/ Poll \/ InputDone \/ EndTurn
    \/ \E c \in Client : ReadQueryFromClient(c) \/ ReadClosed(c)
                         \/ CronTimeout(c) \/ CronFree(c)

BlSpec == BlInit /\ [][BlNext]_blVars

-----------------------------------------------------------------------------
(* Properties *)

\* Types; the client whose input is processed is never freed meanwhile.
TypeOK ==
    /\ dataset \in [list : [ListKey -> Seq(PushedValue)], str : SUBSET ListKey]
    /\ replica \in [list : [ListKey -> Seq(PushedValue)], str : SUBSET ListKey]
    /\ pushed \in 0..MaxPush /\ gone \subseteq 1..pushed
    /\ alive \subseteq Client
    /\ flags \in [Client -> SUBSET {"BLOCKED", "UNBLOCKED"}]
    /\ bpop \in [Client -> [keys : SUBSET ListKey, target : ListKey \cup {Null}, where : Where]]
    /\ blocking \in [ListKey -> Seq(Client)]
    /\ ready \in Seq(ListKey) /\ readyset \subseteq ListKey
    /\ batch \in Seq(ListKey)
    /\ serve \in [key : ListKey \cup {Null}, left : Nat]
    /\ unblocked \in Seq(Client)
    /\ current \in alive \cup {Null}
    /\ exec \in BOOLEAN
    /\ phase \in {"sleep", "events", "lost"}
    /\ turn \subseteq Client

\* The two sides of the blocking index agree: a client is once in the list of
\* each key it waits for and in no other, and waits exactly while it is
\* BLOCKED.  unblockClientWaitingData asserts and relies on it.
BlockIndex ==
    /\ \A c \in Client :
          /\ bpop[c].keys # {} <=> "BLOCKED" \in flags[c]
          /\ bpop[c].keys = {k \in ListKey : c \in Listed(blocking[k])}
    /\ \A k \in ListKey : Distinct(blocking[k])

\* redis.h: "server.ready_keys will not have duplicates": the keys still to be
\* handled are those of db->ready_keys, each once.
ReadyOnce ==
    LET pending == (IF serve = NoServe THEN batch ELSE Tail(batch)) \o ready
    IN /\ Listed(pending) = readyset
       /\ Distinct(pending)

\* Nobody waits for a list that has elements: whenever a command, an EXEC and
\* the service after it are over, the clients still blocked have nothing to pop.
NoIdleWaiter ==
    ~exec /\ Quiet => \A k \in ListKey : blocking[k] # <<>> => ~IsList(dataset, k)

\* A value is neither lost nor delivered twice: each pushed value is in one
\* place of one list, or gone.
EachValueOnce ==
    LET listed == UNION {Listed(dataset.list[k]) : k \in ListKey}
    IN /\ listed \cup gone = 1..pushed /\ listed \cap gone = {}
       /\ \A k \in ListKey : Distinct(dataset.list[k])
       /\ \A k, d \in ListKey :
             k # d => Listed(dataset.list[k]) \cap Listed(dataset.list[d]) = {}

\* What is propagated instead of the blocking commands gives the same dataset.
ReplicaAgrees == replica = dataset

\* The assertion of freeClient: an UNBLOCKED client is in unblocked_clients.
UnblockedListed ==
    \A c \in Client : "UNBLOCKED" \in flags[c] => c \in Listed(unblocked)

\* However many BRPOPLPUSH feed each other, serving the blocked clients ends:
\* every step of it unblocks a client, or no client gets blocked and less is
\* left to go through.
Blocked == {c \in Client : bpop[c].keys # {}}

Left == 3 * Len(ready) + 2 * Len(batch) - (IF serve = NoServe THEN 0 ELSE 1)

HandleEnds ==
    [][Handle => \/ Blocked' \subseteq Blocked /\ Blocked' # Blocked
                 \/ Blocked' = Blocked /\ Left' < Left]_blVars
=============================================================================
