------------------------------ MODULE MCServer ------------------------------
(* The keyspace, the output of the clients, the parser of requests and    *)
(* the pages of the dict entries do not read each other's state: a        *)
(* behaviour is one of one of them.                                       *)
EXTENDS Keyspace, Clients, Protocol, PagePool

CONSTANTS c1, c2, c3

VARIABLE part
vars == <<part, ksVars, clVars, prVars, poolVars>>

----------------------------------------------------------------------------
(* Datasets and commands.  A SET with a time and a RESTORE with one are   *)
(* not made absolute in the append only file, and INCRBYFLOAT is          *)
(* propagated without the time of its key: they have scenarios of their   *)
(* own, without a file and without times.                                 *)
A == <<0, "a">>
B == <<0, "b">>
D == <<1, "a">>
Bare == [val |-> [x \in Cell |-> None], exp |-> [x \in Cell |-> Never]]
Held(t) == [val |-> [x \in Cell |-> IF x \in {A, D} THEN 1 ELSE None],
            exp |-> [x \in Cell |-> IF x = A THEN t ELSE Never]]

On(op, x, v, opt, ttl) == Cmd(op, x, x, v, opt, ttl)
Untimed ==
    {On("set", A, 1, o, 0) : o \in {"none", "nx", "xx"}}
    \cup {On("getset", A, 2, "none", 0), On("incr", A, 1, "none", 0), On("append", B, 1, "none", 0),
          On("setrange", A, 0, "none", 0), On("setrange", A, 2, "none", 0),
          On("flushdb", A, 0, "none", 0), On("flushall", A, 0, "none", 0),
          On("keys", A, 0, "none", 0), On("get", A, 0, "none", 0),
          Cmd("mset", A, B, 1, "none", 0), Cmd("mset", A, B, 1, "nx", 0),
          Cmd("del", A, B, 0, "none", 0), Cmd("move", A, D, 0, "none", 0),
          Cmd("rename", A, B, 0, "none", 0), Cmd("rename", B, A, 0, "nx", 0)}
Timed ==
    {On("expire", A, 0, "none", 0), On("expire", A, 0, "none", 1), On("expire", B, 0, "at", 1),
     On("setex", A, 2, "none", 1), On("persist", A, 0, "none", 0), On("restore", A, 1, "none", 0)}
Unlogged == {On("set", A, 1, "none", 1), On("restore", A, 1, "none", 1)}

Datasets ==
    {[commands |-> Untimed \cup Timed, ops |-> 3, aof |-> TRUE,
      start |-> {Bare, Held(0), Held(1)}],
     [commands |-> Untimed \cup Timed \cup Unlogged, ops |-> 2, aof |-> FALSE,
      start |-> {Bare, Held(1)}],
     [commands |-> Untimed \cup {On("incrbyfloat", A, 1, "none", 0)}, ops |-> 2, aof |-> TRUE,
      start |-> {Bare}]}

ASSUME DatasetsAreScenarios == Scenarios(Datasets)

----------------------------------------------------------------------------
(* Clients.                                                               *)
MCMatches == {<<"p", "h">>, <<"q", "h">>}
MCLimits == [normal |-> [hard |-> 0, soft |-> 0], slave |-> [hard |-> 6, soft |-> 0],
             pubsub |-> [hard |-> 8, soft |-> 4]]
All == [NoClients EXCEPT !.cl = [x \in Client |-> [Unconnected EXCEPT !.st = "open"]]]
Two == [All EXCEPT !.cl[c3].st = "closed"]
Readers ==
    [All EXCEPT !.cl[c1] = [@ EXCEPT !.ch = {"h"}, !.pt = <<"p">>],
                !.cl[c2] = [@ EXCEPT !.pt = <<"p">>],
                !.channels["h"] = <<c1>>, !.patterns = <<<<c1, "p">>, <<c2, "p">>>>]
Everything == {"subscribe", "psubscribe", "unsubscribe", "punsubscribe", "refused",
               "publish", "keys", "monitor", "quit", "error", "client"}
Connections ==
    {[max |-> 3, ops |-> 3, fail |-> 1, start |-> Readers,
      can |-> [x \in Client |-> IF x = c1 THEN {"unsubscribe", "quit"}
                                ELSE IF x = c2 THEN {"punsubscribe"}
                                ELSE {"publish", "client"}]],
     [max |-> 3, ops |-> 3, fail |-> 1, start |-> Two,
      can |-> [x \in Client |-> IF x = c1 THEN {"publish", "monitor", "error", "client"}
                                ELSE {"subscribe", "psubscribe", "keys", "monitor"}]],
     [max |-> 1, ops |-> 2, fail |-> 1, start |-> NoClients,
      can |-> [x \in Client |-> Everything]]}

----------------------------------------------------------------------------
(* Requests: whole ones, data that looks like protocol, an empty one, and *)
(* broken ones, some of which are lines without an end: however they are  *)
(* read, more than InlineMax symbols come before what follows.            *)
Bulk(n, data) == <<n, CR, LF>> \o data \o <<CR, LF>>
Sent(w, argv) == [wire |-> w, argv |-> argv, broken |-> FALSE]
Broken(w) == [wire |-> w, argv |-> <<>>, broken |-> TRUE]
MultiBulk(n, argv, data) == Sent(<<n, CR, LF>> \o data, argv)
OneRequest ==
    {MultiBulk("*1", <<<<"p">>>>, Bulk("$1", <<"p">>)),
     MultiBulk("*2", <<<<"s">>, <<CR, LF>>>>, Bulk("$1", <<"s">>) \o Bulk("$2", <<CR, LF>>)),
     MultiBulk("*2", <<<<>>, <<"*1", CR, LF>>>>, Bulk("$0", <<>>) \o Bulk("$3", <<"*1", CR, LF>>)),
     MultiBulk("*1", <<<<"b">>>>, Bulk("$1", <<"b">>)),
     MultiBulk("*0", <<>>, <<>>),
     Sent(<<"p", " ", " ", "x", CR, LF>>, <<<<"p">>, <<"x">>>>), Sent(<<CR, LF>>, <<>>),
     Broken(<<"*x", CR, LF>>), Broken(<<"*1", CR, LF>> \o Bulk("$x", <<>>)),
     Broken(<<"*1", CR, LF, "p", CR, LF>>)}
Line == [i \in 1 .. InlineMax + IoLen |-> "p"]
Endless == {Broken(Line), Broken(<<"*1">> \o Line), Broken(<<"*1", CR, LF>> \o Line)}
Requests ==
    {<<r, s>> : r \in OneRequest, s \in OneRequest \union Endless}
    \union {<<s, Sent(<<"p", CR, LF>>, <<<<"p">>>>)>> : s \in Endless}

----------------------------------------------------------------------------
(* Pages.  Which of the addresses that were never used malloc returns     *)
(* makes no difference: here it is the least.                             *)
Leastly ==
    \A n \in live' \ live : freed = <<>> => \A m \in Node \ live : n <= m

----------------------------------------------------------------------------
KsIdle == KsInit({[commands |-> {}, ops |-> 0, aof |-> FALSE, start |-> {Bare}]})
ClIdle == ClInit({[max |-> 0, ops |-> 0, fail |-> 0, start |-> NoClients,
                   can |-> [x \in Client |-> {}]]})
PrIdle == PrInit({<<>>})

Init ==
    /\ \/ part = "keyspace" /\ KsInit(Datasets) /\ ClIdle /\ PrIdle
       \/ part = "clients" /\ KsIdle /\ ClInit(Connections) /\ PrIdle
       \/ part = "requests" /\ KsIdle /\ ClIdle /\ PrInit(Requests)
       \/ part = "pages" /\ KsIdle /\ ClIdle /\ PrIdle
    /\ PoolInit

Next ==
    \/ part = "keyspace" /\ KsNext /\ UNCHANGED <<part, clVars, prVars, poolVars>>
    \/ part = "clients" /\ ClNext /\ UNCHANGED <<part, ksVars, prVars, poolVars>>
    \/ part = "requests" /\ PrNext /\ UNCHANGED <<part, ksVars, clVars, poolVars>>
    \/ part = "pages" /\ PoolNext /\ Leastly /\ UNCHANGED <<part, ksVars, clVars, prVars>>

Spec == Init /\ [][Next]_vars
=============================================================================
