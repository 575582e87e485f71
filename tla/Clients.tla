------------------------------ MODULE Clients ------------------------------
(* networking.c, the output, and pubsub.c: what is said to a client waits *)
(* in a buffer of fixed size and, once that is full, in a list, and is    *)
(* written as the socket takes it.  A client too slow to read is closed   *)
(* later, from the cron, as it may be in use when that is found out.      *)
(* Output is a sequence of tokens, of which a write takes any number.     *)
EXTENDS Integers, Sequences, SequencesExt, FiniteSetsExt, TLC

CONSTANTS
    Client, Channel, Pattern,
    Matches,       \* the pairs of a pattern and a channel it matches
    BufMax,        \* REDIS_REPLY_CHUNK_BYTES: the size of the buffer, and
    ChunkMax,      \* of a node of the list, as far as nodes are glued
    Limits,        \* client_obuf_limits: by class, hard and soft; 0 is no limit
    SoftSeconds,   \* client_obuf_limits: soft_limit_seconds
    MaxSeconds,    \* bound: the last second of the clock
    WriteMax       \* bound: the tokens one event writes

ASSUME ClientsConstants ==
    /\ Matches \subseteq Pattern \X Channel
    /\ BufMax \in Nat /\ ChunkMax \in Nat
    /\ Limits \in [{"normal", "slave", "pubsub"} -> [hard : Nat, soft : Nat]]
    /\ SoftSeconds \in Nat /\ MaxSeconds \in Nat /\ WriteMax \in Nat \ {0}

VARIABLES srv,        \* the clients and the lists of the server they are in
          unixtime,
          due,        \* what each client should read and has not read
          left        \* the scenario: maxclients, which commands each client
                      \* may send, how many are still to come, and how
                      \* many clients may yet fail

clVars == <<srv, unixtime, due, left>>

Unconnected ==
    [st |-> "new", cas |-> FALSE,     \* REDIS_CLOSE_AFTER_REPLY
     asap |-> FALSE,                  \* REDIS_CLOSE_ASAP
     buf |-> <<>>, list |-> <<>>, sent |-> 0, bytes |-> 0, soft |-> 0,
     writable |-> FALSE,              \* the write handler is installed
     ch |-> {}, pt |-> <<>>, mon |-> FALSE]

(* S: the scenarios, [max, ops, can, fail, start], that start from clients *)
(* with subscriptions or from none.                                       *)
NoClients ==
    [cl |-> [c \in Client |-> Unconnected], channels |-> [h \in Channel |-> <<>>],
     patterns |-> <<>>, monitors |-> <<>>, toClose |-> <<>>]
ClInit(S) ==
    /\ \E p \in S :
         /\ left = [max |-> p.max, ops |-> p.ops, can |-> p.can, fail |-> p.fail]
         /\ srv = p.start
    /\ unixtime = 1
    /\ due = [c \in Client |-> <<>>]

Connected == {c \in Client : srv.cl[c].st = "open"}
(* Nothing is owed to a client that is gone.                              *)
Still(f) == [c \in Client |-> IF srv'.cl[c].st = "open" THEN f[c] ELSE <<>>]

Flat(pieces) == FoldLeft(LAMBDA a, b : a \o b, <<>>, pieces)
Pending(r) == LET all == r.buf \o Flat(r.list) IN SubSeq(all, r.sent + 1, Len(all))

----------------------------------------------------------------------------
(* Replies.                                                               *)
NodeSize(o) == 1 + Len(o)       \* zmalloc_size_sds, never nothing
NullNode == <<"NULL">>          \* a length that is not known yet
getClientOutputBufferMemoryUsage(r) == r.bytes + Len(r.list)
getClientLimitClass(r) == IF r.mon THEN "slave"
                          ELSE IF r.ch # {} \/ r.pt # <<>> THEN "pubsub" ELSE "normal"
Reaches(used, limit) == limit # 0 /\ used >= limit

freeClientAsync(s, c) ==
    IF s.cl[c].asap THEN s
    ELSE [s EXCEPT !.cl[c].asap = TRUE, !.toClose = Append(@, c)]

(* checkClientOutputBufferLimits and what follows from it.                *)
asyncCloseClientOnOutputBufferLimitReached(s, c) ==
    LET r == s.cl[c]
        used == getClientOutputBufferMemoryUsage(r)
        limit == Limits[getClientLimitClass(r)]
        over == Reaches(used, limit.soft)
        late == over /\ r.soft # 0 /\ unixtime - r.soft > SoftSeconds
        since == IF ~over THEN 0 ELSE IF r.soft = 0 THEN unixtime ELSE r.soft
        t == [s EXCEPT !.cl[c].soft = since]
    IN  IF r.bytes = 0 \/ r.asap THEN s
        ELSE IF late \/ Reaches(used, limit.hard) THEN freeClientAsync(t, c) ELSE t

(* _addReplyObjectToList and the like: glued to the last node if there is *)
(* room in it.                                                            *)
addReplyToList(s, c, o) ==
    LET r == s.cl[c]
        glue == r.list # <<>> /\ Last(r.list) # NullNode
                /\ Len(Last(r.list)) + Len(o) <= ChunkMax
        u == IF glue
             THEN [r EXCEPT !.list = Append(Front(@), Last(@) \o o), !.bytes = @ + Len(o)]
             ELSE [r EXCEPT !.list = Append(@, o), !.bytes = @ + NodeSize(o)]
    IN  asyncCloseClientOnOutputBufferLimitReached([s EXCEPT !.cl[c] = u], c)

prepareClientToWrite(s, c) ==
    IF s.cl[c].buf = <<>> /\ s.cl[c].list = <<>>
    THEN [s EXCEPT !.cl[c].writable = TRUE] ELSE s

(* Mutant of addReply: the buffer is used whenever there is room in it.   *)
ReplyWhereItFits(s, c, o) ==
    LET t == prepareClientToWrite(s, c)
        r == t.cl[c]
    IN  IF r.cas THEN t
        ELSE IF Len(r.buf) + Len(o) <= BufMax
             THEN [t EXCEPT !.cl[c].buf = @ \o o]
             ELSE addReplyToList(t, c, o)

addReply(s, c, o) ==
    LET t == prepareClientToWrite(s, c)
        r == t.cl[c]
    IN  IF r.cas THEN t
        ELSE IF r.list = <<>> /\ Len(r.buf) + Len(o) <= BufMax
             THEN [t EXCEPT !.cl[c].buf = @ \o o]
             ELSE addReplyToList(t, c, o)

Say(s, c, pieces) == FoldLeft(LAMBDA t, o : addReply(t, c, o), s, pieces)

(* addDeferredMultiBulkLength, the elements, setDeferredMultiBulkLength.  *)
SayDeferred(s, c, length, pieces) ==
    LET t == prepareClientToWrite(s, c)
        n == Len(t.cl[c].list) + 1
        u == Say([t EXCEPT !.cl[c].list = Append(@, NullNode)], c, pieces)
        nodes == u.cl[c].list
        glue == Len(nodes) > n
        whole == IF glue THEN length \o nodes[n + 1] ELSE length
        list == SubSeq(nodes, 1, n - 1) \o <<whole>>
                \o SubSeq(nodes, IF glue THEN n + 2 ELSE n + 1, Len(nodes))
        more == IF glue THEN Len(length) ELSE NodeSize(length)
    IN  asyncCloseClientOnOutputBufferLimitReached(
            [u EXCEPT !.cl[c].list = list, !.cl[c].bytes = @ + more], c)

----------------------------------------------------------------------------
(* Publish and subscribe.                                                 *)
Subscriptions(r) == ToString(Cardinality(r.ch) + Len(r.pt))
Notice(kind, name, r) == <<<<kind>>, <<name, Subscriptions(r)>>>>
Message(h) == <<<<"message">>, <<h, "text">>>>
PMessage(p, h) == <<<<"pmessage">>, <<p, h>>>>

pubsubSubscribeChannel(s, c, h) ==
    LET t == IF h \in s.cl[c].ch THEN s
             ELSE [s EXCEPT !.cl[c].ch = @ \cup {h}, !.channels[h] = Append(@, c)]
    IN  Say(t, c, Notice("subscribe", h, t.cl[c]))

Unsubscribed(s, c, h) ==
    IF h \notin s.cl[c].ch THEN s
    ELSE [s EXCEPT !.cl[c].ch = @ \ {h}, !.channels[h] = RemoveFirst(@, c)]
pubsubUnsubscribeChannel(s, c, h) ==
    LET t == Unsubscribed(s, c, h) IN Say(t, c, Notice("unsubscribe", h, t.cl[c]))

pubsubSubscribePattern(s, c, p) ==
    LET t == IF p \in ToSet(s.cl[c].pt) THEN s
             ELSE [s EXCEPT !.cl[c].pt = Append(@, p),
                            !.patterns = Append(@, <<c, p>>)]
    IN  Say(t, c, Notice("psubscribe", p, t.cl[c]))

PUnsubscribed(s, c, p) ==
    IF p \notin ToSet(s.cl[c].pt) THEN s
    ELSE [s EXCEPT !.cl[c].pt = RemoveFirst(@, p),
                   !.patterns = RemoveFirst(@, <<c, p>>)]
pubsubUnsubscribePattern(s, c, p) ==
    LET t == PUnsubscribed(s, c, p) IN Say(t, c, Notice("punsubscribe", p, t.cl[c]))

(* From all: a notice each, or one when there was nothing.                *)
pubsubUnsubscribeAllChannels(s, c) ==
    IF s.cl[c].ch = {} THEN Say(s, c, Notice("unsubscribe", "nil", s.cl[c]))
    ELSE FoldLeft(LAMBDA t, h : pubsubUnsubscribeChannel(t, c, h), s, SetToSeq(s.cl[c].ch))
pubsubUnsubscribeAllPatterns(s, c) ==
    IF s.cl[c].pt = <<>> THEN Say(s, c, Notice("punsubscribe", "nil", s.cl[c]))
    ELSE FoldLeft(LAMBDA t, p : pubsubUnsubscribePattern(t, c, p), s, s.cl[c].pt)

Matching(s, h) == SelectSeq(s.patterns, LAMBDA e : <<e[2], h>> \in Matches)
pubsubPublishMessage(s, h) ==
    LET t == FoldLeft(LAMBDA u, c : Say(u, c, Message(h)), s, s.channels[h])
    IN  FoldLeft(LAMBDA u, e : Say(u, e[1], PMessage(e[2], h)), t, Matching(s, h))
publishCommand(s, c, h) ==
    addReply(pubsubPublishMessage(s, h), c,
             <<ToString(Len(s.channels[h]) + Len(Matching(s, h)))>>)

monitorCommand(s, c) ==
    IF s.cl[c].mon THEN s
    ELSE addReply([s EXCEPT !.cl[c].mon = TRUE, !.monitors = Append(@, c)], c, <<"OK">>)
replicationFeedMonitors(s, op) ==
    FoldLeft(LAMBDA t, m : addReply(t, m, <<op>>), s, s.monitors)

----------------------------------------------------------------------------
(* The end of a client.                                                   *)
(* Mutant of freeClient: it stays in the lists of its patterns.           *)
FreeButPatterns(s, c) ==
    LET t == FoldLeft(LAMBDA u, h : Unsubscribed(u, c, h), s, SetToSeq(s.cl[c].ch))
    IN  [t EXCEPT !.cl[c] = [Unconnected EXCEPT !.st = "closed"],
                  !.monitors = SelectSeq(@, LAMBDA m : m # c),
                  !.toClose = IF t.cl[c].asap THEN RemoveFirst(@, c) ELSE @]

freeClient(s, c) ==
    LET t == FoldLeft(LAMBDA u, h : Unsubscribed(u, c, h), s, SetToSeq(s.cl[c].ch))
        v == FoldLeft(LAMBDA u, p : PUnsubscribed(u, c, p), t, s.cl[c].pt)
    IN  [v EXCEPT !.cl[c] = [Unconnected EXCEPT !.st = "closed"],
                  !.monitors = IF v.cl[c].mon THEN RemoveFirst(@, c) ELSE @,
                  !.toClose = IF v.cl[c].asap THEN RemoveFirst(@, c) ELSE @]

AcceptCommonHandler(c) ==
    /\ srv.cl[c].st = "new"
    /\ LET s == [srv EXCEPT !.cl[c].st = "open"]
       IN  srv' = IF Cardinality(Connected) + 1 > left.max THEN freeClient(s, c) ELSE s
    /\ due' = Still(due)
    /\ UNCHANGED <<unixtime, left>>

Fault == left.fail > 0 /\ left' = [left EXCEPT !.fail = @ - 1]

(* The socket takes n tokens, and then no more or fails; that nothing was *)
(* written and nothing failed is no step.  An empty object never waits in *)
(* the list: an empty string is sent with the line end that follows it,   *)
(* and _addReplyObjectToList glues this one to it.                        *)
SendOne(r) ==
    LET node == IF r.buf # <<>> THEN r.buf ELSE Head(r.list)
    IN  IF r.sent + 1 < Len(node) THEN [r EXCEPT !.sent = @ + 1]
        ELSE IF r.buf # <<>> THEN [r EXCEPT !.buf = <<>>, !.sent = 0]
        ELSE [r EXCEPT !.list = Tail(@), !.sent = 0, !.bytes = @ - NodeSize(node)]
SendReplyToClient(c, n, fails) ==
    /\ c \in Connected /\ srv.cl[c].writable
    /\ n <= Len(Pending(srv.cl[c]))
    /\ n > 0 \/ fails \/ Pending(srv.cl[c]) = <<>>
    /\ LET r == FoldLeft(LAMBDA u, i : SendOne(u), srv.cl[c], [i \in 1 .. n |-> i])
           empty == r.buf = <<>> /\ r.list = <<>>
           t == [srv EXCEPT !.cl[c] = [r EXCEPT !.writable = ~empty]]
       IN  srv' = IF (fails /\ ~empty) \/ (empty /\ r.cas) THEN freeClient(t, c) ELSE t
    /\ due' = Still([due EXCEPT ![c] = SubSeq(@, n + 1, Len(@))])
    /\ IF fails THEN Fault ELSE UNCHANGED left
    /\ UNCHANGED unixtime

(* The client hangs up, or has said nothing for long: not one that waits  *)
(* for messages.                                                          *)
Disconnect(c) ==
    /\ c \in Connected
    /\ srv' = freeClient(srv, c)
    /\ due' = Still(due)
    /\ Fault /\ UNCHANGED unixtime
ClientsCronHandleTimeout(c) ==
    /\ c \in Connected
    /\ getClientLimitClass(srv.cl[c]) = "normal"
    /\ srv' = freeClient(srv, c)
    /\ due' = Still(due)
    /\ Fault /\ UNCHANGED unixtime

FreeClientsInAsyncFreeQueue ==
    /\ srv.toClose # <<>>
    /\ srv' = FoldLeft(LAMBDA s, c : [freeClient([s EXCEPT !.cl[c].asap = FALSE], c)
                                         EXCEPT !.toClose = Tail(@)],
                       srv, srv.toClose)
    /\ due' = Still(due)
    /\ UNCHANGED <<unixtime, left>>

Second == unixtime < MaxSeconds /\ unixtime' = unixtime + 1
          /\ UNCHANGED <<srv, due, left>>

----------------------------------------------------------------------------
(* Commands.  What the others should read of one is told from what they   *)
(* asked for, not from the lists the server keeps.                        *)
Wanted(d, h) ==
    LET r == srv.cl[d]
    IN  (IF h \in r.ch THEN Message(h) ELSE <<>>)
        \o Flat([i \in DOMAIN r.pt |->
                   IF <<r.pt[i], h>> \in Matches THEN PMessage(r.pt[i], h) ELSE <<>>])

(* A command of c.  reply: what c should read; others: what the others     *)
(* should, before that.                                                   *)
Answer(c, op, s, reply, others(_)) ==
    /\ c \in Connected /\ ~srv.cl[c].cas
    /\ op \in left.can[c] /\ left.ops > 0
    /\ srv' = s
    /\ due' = Still([d \in Client |->
                 IF d \notin Connected \/ srv.cl[d].cas THEN due[d]
                 ELSE due[d] \o Flat(others(d) \o IF d = c THEN reply ELSE <<>>)])
    /\ left' = [left EXCEPT !.ops = @ - 1]
    /\ UNCHANGED unixtime

(* Those that call() does not run are not shown to the monitors.          *)
Turned(c, op, s, reply) == Answer(c, op, s, reply, LAMBDA d : <<>>)
Called(c, op, proc(_), reply, news(_)) ==
    Answer(c, op, proc(replicationFeedMonitors(srv, op)), reply,
           LAMBDA d : (IF srv.cl[d].mon THEN <<<<op>>>> ELSE <<>>) \o news(d))
Called0(c, op, proc(_), reply) == Called(c, op, proc, reply, LAMBDA d : <<>>)

Listens(c) == srv.cl[c].ch # {} \/ srv.cl[c].pt # <<>>
Names(r) == r.ch \cup ToSet(r.pt)
Told(kind, name, n) == <<<<kind>>, <<name, ToString(n)>>>>

SubscribeCommand(c, h) ==
    Called0(c, "subscribe", LAMBDA s : pubsubSubscribeChannel(s, c, h),
            Told("subscribe", h, Cardinality(Names(srv.cl[c]) \cup {h})))
PsubscribeCommand(c, p) ==
    Called0(c, "psubscribe", LAMBDA s : pubsubSubscribePattern(s, c, p),
            Told("psubscribe", p, Cardinality(Names(srv.cl[c]) \cup {p})))
UnsubscribeCommand(c, h) ==
    Called0(c, "unsubscribe", LAMBDA s : pubsubUnsubscribeChannel(s, c, h),
            Told("unsubscribe", h, Cardinality(Names(srv.cl[c]) \ {h})))
PunsubscribeCommand(c, p) ==
    Called0(c, "punsubscribe", LAMBDA s : pubsubUnsubscribePattern(s, c, p),
            Told("punsubscribe", p, Cardinality(Names(srv.cl[c]) \ {p})))

(* The notices of a client that leaves all, with the subscriptions that   *)
(* remain after each.                                                     *)
Farewells(kind, names, n) ==
    IF names = <<>> THEN Told(kind, "nil", n)
    ELSE Flat([i \in DOMAIN names |-> Told(kind, names[i], n - i)])
UnsubscribeAllCommand(c) ==
    LET r == srv.cl[c]
    IN  Called0(c, "unsubscribe", LAMBDA s : pubsubUnsubscribeAllChannels(s, c),
                Farewells("unsubscribe", SetToSeq(r.ch), Cardinality(Names(r))))
PunsubscribeAllCommand(c) ==
    LET r == srv.cl[c]
    IN  Called0(c, "punsubscribe", LAMBDA s : pubsubUnsubscribeAllPatterns(s, c),
                Farewells("punsubscribe", r.pt, Cardinality(Names(r))))

(* A client that listens is refused every other command.                  *)
Refuse(c) == Listens(c) /\ Turned(c, "refused", addReply(srv, c, <<"ERR">>), <<<<"ERR">>>>)

PublishCommand(c, h) ==
    /\ ~Listens(c)
    /\ LET n == MapThenSumSet(LAMBDA d : Len(Wanted(d, h)) \div 2, Client)
       IN  Called(c, "publish", LAMBDA s : publishCommand(s, c, h), <<<<ToString(n)>>>>,
                  LAMBDA d : Wanted(d, h))

(* KEYS: a reply whose length comes first and is known last.              *)
KeysCommand(c) ==
    LET keys == <<<<"$1">>, <<"k", "l">>>>
    IN  ~Listens(c) /\ Called0(c, "keys", LAMBDA s : SayDeferred(s, c, <<"*2">>, keys),
                               <<<<"*2">>>> \o keys)

MonitorCommand(c) ==
    ~Listens(c) /\ Called0(c, "monitor", LAMBDA s : monitorCommand(s, c),
                           IF srv.cl[c].mon THEN <<>> ELSE <<<<"OK">>>>)

LastReply(s, c, o) == [addReply(s, c, o) EXCEPT !.cl[c].cas = TRUE]
Quit(c) == Turned(c, "quit", LastReply(srv, c, <<"OK">>), <<<<"OK">>>>)
SetProtocolError(c) == Turned(c, "error", LastReply(srv, c, <<"ERR">>), <<<<"ERR">>>>)

(* CLIENT KILL: the reply first, then the end, after the reply when the   *)
(* client is the one that asks.                                           *)
ClientKill(c, d) ==
    /\ ~Listens(c) /\ d \in Connected
    /\ Called0(c, "client", LAMBDA s : IF c = d THEN LastReply(s, c, <<"OK">>)
                                       ELSE freeClient(addReply(s, c, <<"OK">>), d),
               <<<<"OK">>>>)

Commands(c) ==
    \/ \E h \in Channel : \/ SubscribeCommand(c, h) \/ UnsubscribeCommand(c, h)
                           \/ PublishCommand(c, h)
    \/ \E p \in Pattern : PsubscribeCommand(c, p) \/ PunsubscribeCommand(c, p)
    \/ UnsubscribeAllCommand(c) \/ PunsubscribeAllCommand(c) \/ Refuse(c)
    \/ KeysCommand(c) \/ MonitorCommand(c) \/ Quit(c) \/ SetProtocolError(c)
    \/ \E d \in Client : ClientKill(c, d)

ClNext ==
    \/ \E c \in Client :
         \/ Commands(c) \/ AcceptCommonHandler(c)
         \/ Disconnect(c) \/ ClientsCronHandleTimeout(c)
         \/ \E n \in 0 .. WriteMax, fails \in BOOLEAN :
              SendReplyToClient(c, n, fails)
    \/ FreeClientsInAsyncFreeQueue \/ Second

----------------------------------------------------------------------------
(* What waits for a client, in the buffer and then in the list, is what   *)
(* it has still to read: every message of its channels and patterns and   *)
(* the reply to each of its commands once and in order, however the       *)
(* socket cuts the output (addReply, sendReplyToClient); and there is a   *)
(* handler installed that will write it.                                  *)
Delivered ==
    \A c \in Connected :
        /\ Pending(srv.cl[c]) = due[c]
        /\ due[c] # <<>> => srv.cl[c].writable

(* The lists of the server and the clients agree both ways, so that no    *)
(* list holds a client that was freed: the assertions of freeClient and   *)
(* of pubsubUnsubscribeChannel.  reply_bytes is the size of the list.     *)
ClientIndexes ==
    /\ \A c \in Client :
         LET r == srv.cl[c]
             times(q) == Cardinality({i \in DOMAIN q : q[i] = c})
             once(b) == IF b THEN 1 ELSE 0
         IN  /\ \A h \in Channel : times(srv.channels[h]) = once(h \in r.ch)
             /\ LET mine == SelectSeq(srv.patterns, LAMBDA e : e[1] = c)
                IN  [i \in DOMAIN mine |-> mine[i][2]] = r.pt
             /\ times(srv.monitors) = once(r.mon)
             /\ times(srv.toClose) = once(r.asap)
             /\ r.bytes = FoldLeft(LAMBDA n, o : n + NodeSize(o), 0, r.list)
    /\ Cardinality(Connected) <= left.max
=============================================================================
