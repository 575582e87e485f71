------------------------------ MODULE Sentinel ------------------------------
(***************************************************************************)
(* The failover protocol of src/redis-2.6.16/src/sentinel.c.  Sentinels    *)
(* watch one master and its slaves, agree that the master is down, elect a *)
(* leader among themselves, and the leader promotes a slave and points the *)
(* others at it; the sentinels that do not lead observe.                   *)
(*                                                                         *)
(* view[s] is all that sentinel s holds about the master: the instance     *)
(* structures, their flags and the state of the failover.  role[n] is what *)
(* the Redis server n really is: n itself for a master, otherwise the      *)
(* address of its master.  Every comparison of mstime() with a period is a *)
(* choice: a link may be slow or fast, so each of the two outcomes is      *)
(* possible where the code does not exclude it.                            *)
(***************************************************************************)
EXTENDS Integers, Sequences, FiniteSets, SequencesExt

CONSTANTS
    Sentinels,      \* their run ids: naturals, ordered as strcasecmp orders them
    Nodes,          \* addresses of the Redis servers
    None,           \* promoted_slave == NULL
    FirstMaster,    \* the master named in every configuration file
    Quorum,         \* SENTINEL MONITOR ... <quorum>
    ParallelSyncs,  \* parallel-syncs
    CanFailover,    \* the sentinels configured with can-failover yes
    NoPriority,     \* the slaves with slave-priority 0
    MaxFaults,      \* bound: lost links, reboots, tilts and operator commands
    MaxDelays,      \* bound: failover steps given up because they took too long,
                    \* and links dropped with commands that are read afterwards
    MaxPending      \* bound: SLAVEOF commands waiting on one link

ASSUME SentinelAssumption ==
    /\ Sentinels \subseteq Nat \ {0} /\ IsFiniteSet(Sentinels)
    /\ IsFiniteSet(Nodes) /\ FirstMaster \in Nodes /\ None \notin Nodes
    /\ Quorum \in Nat \ {0} /\ ParallelSyncs \in Nat \ {0}
    /\ CanFailover \subseteq Sentinels /\ NoPriority \subseteq Nodes
    /\ MaxFaults \in Nat /\ MaxDelays \in Nat /\ MaxPending \in Nat \ {0}

VARIABLES view, role, config, wasMaster, faults, delays

vars == <<view, role, config, wasMaster, faults, delays>>

Nobody == 0             \* no leader: NULL, or "?"

Phases == {"none", "wait_start", "select", "send_noone", "wait_promotion",
           "reconf", "detect_end", "update_config"}

(* The SRI_RECONF_ flags of a slave.                                       *)
Reconf == {"no", "sent", "inprog", "done"}

(* What another sentinel answered lately: SRI_MASTER_DOWN and leader.      *)
Answer == {"none", "up", "down"}

View == [addr: Nodes, slaves: SUBSET Nodes, sdown: SUBSET Nodes,
         odown: BOOLEAN, phase: Phases, leads: BOOLEAN, force: BOOLEAN,
         promoted: Nodes \union {None}, reconf: [Nodes -> Reconf],
         demote: SUBSET Nodes, seen: SUBSET Nodes, lost: SUBSET Nodes,
         peers: SUBSET Sentinels, vote: [Sentinels -> Answer],
         cmds: [Nodes -> Seq(Nodes)], tilt: BOOLEAN]

(* createSentinelRedisInstance and sentinelResetMaster leave a master with *)
(* this state: no slaves, no sentinels, no flags.                          *)
FreshView(a, down, tilted) ==
    [addr |-> a, slaves |-> {}, sdown |-> {}, odown |-> FALSE,
     phase |-> "none", leads |-> FALSE, force |-> FALSE, promoted |-> None,
     reconf |-> [n \in Nodes |-> "no"], demote |-> {}, seen |-> {},
     lost |-> down, peers |-> {}, vote |-> [t \in Sentinels |-> "none"],
     cmds |-> [n \in Nodes |-> <<>>], tilt |-> tilted]

Init ==
    /\ view = [s \in Sentinels |->
                  [FreshView(FirstMaster, {}, FALSE) EXCEPT
                      !.slaves = Nodes \ {FirstMaster}, !.seen = Nodes \ {FirstMaster},
                      !.peers = Sentinels \ {s}]]
    /\ role = [n \in Nodes |-> FirstMaster]
    /\ config = role
    /\ wasMaster = {FirstMaster}
    /\ faults = 0 /\ delays = 0

Instances(v) == {v.addr} \union v.slaves
InProgress(v) == v.phase # "none"

(* redisAsyncCommand("SLAVEOF ...") to each node of ns: the command waits  *)
(* on the link until the server reads it.  NO ONE is the node itself.      *)
SendTo(v, ns, target(_)) ==
    [v EXCEPT !.cmds = [n \in Nodes |->
        IF n \in ns THEN Append(v.cmds[n], target(n)) ELSE v.cmds[n]]]

(* sentinelSelectSlave: the slaves that may be promoted.  Whether PING and *)
(* INFO are recent enough is a choice of the caller.                       *)
SelectFrom(v) ==
    {n \in v.slaves : /\ n \notin v.sdown /\ n \notin v.lost
                      /\ n \notin v.demote /\ n \notin NoPriority
                      /\ n \in v.seen}

(* The one it returns: the smallest run id among those with recent enough  *)
(* PING and INFO answers, so any of them, or none.                         *)
Picks(v) == SelectFrom(v) \union {None}

(* The links to ns are dropped: what was written to them is lost, except   *)
(* to the servers in kept, which read it all the same.                     *)
Cut(cmds, ns, kept) ==
    [n \in Nodes |-> IF n \in ns \ kept THEN <<>> ELSE cmds[n]]
Kept(v) == {kept \in SUBSET {n \in Nodes : v.cmds[n] # <<>>} :
               kept # {} => delays < MaxDelays}
Outlive(kept) == delays' = IF kept = {} THEN delays ELSE delays + 1

(* sentinelResetMasterAndChangeAddress: the instances of the slaves are    *)
(* released with their links; old: what was written to these before.       *)
ResetTo(v, a, old, kept) ==
    [FreshView(a, v.lost, v.tilt) EXCEPT !.cmds = Cut(old, Nodes, kept)]

------------------------------------------------------------------------------
(* Leadership.                                                             *)

(* sentinelGetSubjectiveLeader: the smallest run id among this sentinel    *)
(* and the ones that answered a PING lately (ok), NULL if none may fail    *)
(* over.                                                                   *)
SubjectiveLeader(s, ok) ==
    LET able == ({s} \union ok) \intersect CanFailover
    IN  IF able = {} THEN Nobody ELSE CHOOSE t \in able : \A u \in able : t <= u

(* What a sentinel may have voted: sentinelCommand answers "?" (Nobody)    *)
(* for an address it does not watch.                                       *)
MayVote(s, t) ==
    {SubjectiveLeader(t, ok) : ok \in SUBSET (Sentinels \ {t})}
      \union (IF t = s THEN {} ELSE {Nobody})

(* sentinelGetObjectiveLeader: the sentinels whose vote counts; before the *)
(* failover only those that see the master down.                           *)
Voters(s, v) ==
    {s} \union {t \in v.peers : IF InProgress(v) THEN v.vote[t] # "none"
                                ELSE v.vote[t] = "down"}

(* It needs the majority of the votes, and as many as the quorum.          *)
Wins(s, ballot) ==
    LET for == Cardinality({t \in DOMAIN ballot : ballot[t] = s})
        all == Cardinality({t \in DOMAIN ballot : t # s \/ ballot[t] # Nobody})
    IN  for >= all \div 2 + 1 /\ for >= Quorum

(* Whether sentinel s may find itself the leader when these have voted.    *)
Results == [s \in Sentinels, voters \in SUBSET Sentinels |->
    {Wins(s, b) : b \in {b \in [voters -> Sentinels \union {Nobody}] :
                             \A t \in voters : b[t] \in MayVote(s, t)}}]

(* The leader drops what sentinelGetObjectiveLeader returns: it has begun   *)
(* already.                                                                *)
Outcomes(s, v) ==
    IF ~v.leads /\ (v.odown \/ InProgress(v)) THEN Results[s, Voters(s, v)]
    ELSE {FALSE}

(* sentinelStartFailover.                                                  *)
StartFailover(v, phase) == [v EXCEPT !.phase = phase, !.leads = TRUE]

(* sentinelStartFailoverIfNeeded; late: a quarter of failover-timeout has  *)
(* passed since the observer saw the last progress.                        *)
StartIfNeeded(s, v, lead, pick, late) ==
    IF s \notin CanFailover \/ ~(v.odown \/ InProgress(v)) \/ ~lead THEN v
    ELSE IF InProgress(v)
         THEN IF v.leads \/ ~late THEN v
              ELSE [StartFailover(v, "reconf") EXCEPT
                       !.reconf = [n \in Nodes |-> IF @[n] = "sent"
                                                   THEN "no" ELSE @[n]]]
         ELSE IF pick = None THEN v ELSE StartFailover(v, "wait_start")

------------------------------------------------------------------------------
(* The failover state machine.                                             *)

(* Mutant of Abort: the flags of the slaves stay set.                      *)
AbortKeepingFlags(v) ==
    [v EXCEPT !.phase = "none", !.leads = FALSE, !.force = FALSE,
              !.promoted = None]

(* sentinelAbortFailover: the leader sends the slaves it touched back to   *)
(* the original master.                                                    *)
Abort(v) ==
    LET touched == {n \in v.slaves : n = v.promoted \/ v.reconf[n] # "no"}
        undo == IF v.leads THEN touched \ v.lost ELSE {}
    IN  [SendTo(v, undo, LAMBDA n : v.addr) EXCEPT
            !.reconf = [n \in Nodes |-> "no"], !.phase = "none",
            !.leads = FALSE, !.force = FALSE, !.promoted = None]

(* sentinelFailoverWaitStart.                                              *)
WaitStart(v, late) ==
    IF v.addr \notin v.sdown /\ ~v.odown /\ ~v.force THEN Abort(v)
    ELSE IF late THEN [v EXCEPT !.phase = "select"] ELSE v

(* sentinelFailoverSelectSlave.                                            *)
SelectSlave(v, pick) ==
    IF pick = None THEN Abort(v)
    ELSE [v EXCEPT !.promoted = pick, !.phase = "send_noone"]

(* Mutant of SendSlaveOfNoOne: the promotion is taken for granted.         *)
SendSlaveOfNoOneUnconfirmed(v) ==
    IF v.promoted \in v.lost THEN v
    ELSE [SendTo(v, {v.promoted}, LAMBDA n : n) EXCEPT !.phase = "reconf"]

(* sentinelFailoverSendSlaveOfNoOne.                                       *)
SendSlaveOfNoOne(v) ==
    IF v.promoted \in v.lost THEN v
    ELSE [SendTo(v, {v.promoted}, LAMBDA n : n) EXCEPT !.phase = "wait_promotion"]

(* sentinelFailoverWaitPromotion: on timeout another slave is selected.    *)
WaitPromotion(v, late) ==
    IF late THEN [v EXCEPT !.phase = "select", !.promoted = None] ELSE v

(* sentinelFailoverDetectEnd.                                              *)
DetectEnd(v, late) ==
    LET waiting == {n \in v.slaves : /\ n # v.promoted /\ v.reconf[n] # "done"
                                     /\ n \notin v.sdown}
        rest == {n \in v.slaves \ v.lost :
                    v.reconf[n] \notin {"done", "sent"}}
        end == IF late \/ waiting = {} THEN [v EXCEPT !.phase = "update_config"]
               ELSE v
    IN  IF v.promoted = None \/ v.promoted \in v.sdown THEN v
        ELSE IF late /\ v.leads
             THEN [SendTo(end, rest, LAMBDA n : v.promoted) EXCEPT
                      !.reconf = [n \in Nodes |-> IF n \in rest THEN "sent"
                                                  ELSE @[n]]]
             ELSE end

(* sentinelFailoverReconfNextSlave: SLAVEOF to slaves in the order of the  *)
(* dict (any order), while fewer than parallel_syncs are synchronizing;    *)
(* lost: the slaves whose SLAVEOF was sent too long ago.                   *)
ReconfNext(v, next, lost, late) ==
    LET v1 == [v EXCEPT !.reconf = [n \in Nodes |->
                  IF n \in lost THEN "no" ELSE @[n]]]
        v2 == [SendTo(v1, next, LAMBDA n : v.promoted) EXCEPT
                  !.reconf = [n \in Nodes |-> IF n \in next THEN "sent" ELSE @[n]]]
    IN  DetectEnd(v2, late)

(* The slaves ReconfNext may choose: as many as the limit allows, and only *)
(* when it was not reached are old SLAVEOFs forgotten.                     *)
Busy(v) == {n \in v.slaves : v.reconf[n] \in {"sent", "inprog"}}
Idle(v, lost) == {n \in v.slaves \ v.lost :
                     n # v.promoted /\ (v.reconf[n] = "no" \/ n \in lost)}

(* sentinelFailoverStateMachine.                                           *)
StateMachine(v, pick, next, lost, late) ==
    CASE v.phase = "wait_start"     -> WaitStart(v, late)
      [] v.phase = "select"         -> SelectSlave(v, pick)
      [] v.phase = "send_noone"     -> SendSlaveOfNoOne(v)
      [] v.phase = "wait_promotion" -> WaitPromotion(v, late)
      [] v.phase = "reconf"         -> ReconfNext(v, next, lost, late)
      [] v.phase = "detect_end"     -> DetectEnd(v, late)
      [] OTHER -> v

(* sentinelAbortFailoverIfNeeded; dead: the promoted slave has been down   *)
(* for ten times down-after-milliseconds.                                  *)
AbortIfNeeded(v, dead) ==
    IF InProgress(v) /\ v.promoted # None /\ v.promoted \in v.sdown /\ dead
    THEN Abort(v) ELSE v

(* sentinelFailoverSwitchToPromotedSlave: the old master becomes a slave   *)
(* that must be demoted.  The SLAVEOFs of this very call are still in the  *)
(* buffers of the links and never leave.                                   *)
Switch(v, old, kept) ==
    IF v.phase # "update_config" THEN v
    ELSE [ResetTo(v, v.promoted, old, kept) EXCEPT !.slaves = {v.addr},
                                                   !.demote = {v.addr}]

------------------------------------------------------------------------------
(* The timer.                                                              *)

(* sentinelCheckSubjectivelyDown: which of the instances in dom are down   *)
(* now.  Without a link PING is not answered; with one the first answer    *)
(* may still be on its way.                                                *)
MaybeDown(v, dom) ==
    {D \in SUBSET dom : /\ v.sdown \intersect dom \intersect v.lost \subseteq D
                        /\ D \subseteq v.sdown \union v.lost}

(* sentinelCheckObjectivelyDown.                                           *)
CheckOdown(v) ==
    [v EXCEPT !.odown = /\ v.addr \in v.sdown
                        /\ Cardinality({t \in v.peers : v.vote[t] = "down"}) + 1 >= Quorum]

(* sentinelReconnectInstance, sentinelPingInstance (INFO, PING and PUBLISH *)
(* are answered in Info, CheckSubjectivelyDown and Hello) and              *)
(* sentinelAskMasterStateToOtherSentinels (answered in MasterDownReply):   *)
(* links come back, answers of other sentinels expire.                     *)
Monitor(v, old) ==
    [v EXCEPT !.vote = [t \in Sentinels |-> IF t \in old THEN "none" ELSE @[t]]]

(* sentinelFailoverReconfNextSlave looks at the slaves only while fewer    *)
(* than parallel_syncs are synchronizing: what it may have found too late, *)
(* and to which slaves it may send.                                        *)
Room(v) == IF Cardinality(Busy(v)) < ParallelSyncs
           THEN ParallelSyncs - Cardinality(Busy(v)) ELSE 0
LostSets(v) ==
    IF v.phase = "reconf" /\ Room(v) > 0
    THEN SUBSET {n \in v.slaves \ {v.promoted} : v.reconf[n] = "sent"} ELSE {{}}
NextSets(v, lost) ==
    LET idle == Idle(v, lost)
    IN  IF v.phase # "reconf" THEN {{}}
        ELSE {N \in SUBSET idle :
                 /\ lost \ v.lost \subseteq N
                 /\ Cardinality(N) = IF Cardinality(idle) < Room(v)
                                     THEN Cardinality(idle) ELSE Room(v)}

(* The other choices of time, only where the code looks at the clock: how  *)
(* long ago the failover reached its state (the observer's quarter of      *)
(* failover-timeout is over before the whole of it is), and how long the   *)
(* promoted slave has been down.                                           *)
LatePhases == {"wait_start", "wait_promotion", "reconf", "detect_end"}
Lates(v) == {late \in BOOLEAN :
                late => /\ v.phase \in LatePhases
                        /\ delays < MaxDelays \/ v.phase = "wait_start"}
Deads(v) == {dead \in BOOLEAN :
                dead => v.promoted \in v.sdown /\ delays < MaxDelays}
LookedAt(v) == IF v.phase = "select" \/ (v.phase = "none" /\ v.odown)
               THEN Picks(v) ELSE {None}

Put(s, v) == view' = [view EXCEPT ![s] = v]
CmdsBounded(v) == \A n \in Nodes : Len(v.cmds[n]) <= MaxPending

(* sentinelHandleDictOfRedisInstances: the monitoring half, then unless    *)
(* tilted the acting half of the master and of its slaves, and the switch  *)
(* to the promoted slave.  \E v \in {e} names e as LET would; TLC then     *)
(* computes it once.                                                       *)
Handle(s, v0, late, dead, kept) ==
    IF v0.tilt THEN Put(s, v0)
    ELSE \E v1 \in {CheckOdown([v0 EXCEPT !.sdown = (@ \ {v0.addr}) \union down]) :
                       down \in MaybeDown(v0, {v0.addr})} :
         \E lead \in Outcomes(s, v1), pick \in LookedAt(v1) :
         \E v2 \in {StartIfNeeded(s, v1, lead, pick, late)} :
         \E lost \in LostSets(v2) : \E next \in NextSets(v2, lost) :
         \E v3 \in {StateMachine(v2, pick, next, lost, late /\ v2 = v1)} :
         \E v4 \in {AbortIfNeeded(v3, dead)} :
         \E v5 \in {[v4 EXCEPT !.sdown = (@ \intersect {v4.addr}) \union others] :
                       others \in MaybeDown(v4, v4.slaves)} :
         \E v6 \in {Switch(v5, v0.cmds, kept)} : CmdsBounded(v6) /\ Put(s, v6)

(* sentinelTimer, ten times a second.                                      *)
Timer(s) ==
    /\ \E late \in Lates(view[s]), dead \in Deads(view[s]), kept \in Kept(view[s]),
          old \in SUBSET {t \in view[s].peers : view[s].vote[t] # "none"} :
         /\ Handle(s, Monitor(view[s], old), late, dead, kept)
         /\ kept # {} => view'[s].addr # view[s].addr
         /\ delays' = IF dead \/ (late /\ view[s].phase # "wait_start") \/ kept # {}
                      THEN delays + 1 ELSE delays
    /\ UNCHANGED <<role, config, wasMaster, faults>>

(* sentinelCheckTiltCondition: the clock jumped, or the process was        *)
(* stopped; and the end of the tilt period, found by the timer.            *)
EnterTilt(s) ==
    /\ faults < MaxFaults /\ ~view[s].tilt
    /\ faults' = faults + 1
    /\ Put(s, [view[s] EXCEPT !.tilt = TRUE])
    /\ UNCHANGED <<role, config, wasMaster, delays>>

LeaveTilt(s) ==
    /\ view[s].tilt
    /\ Put(s, [view[s] EXCEPT !.tilt = FALSE])
    /\ UNCHANGED <<role, config, wasMaster, faults, delays>>

------------------------------------------------------------------------------
(* Answers.                                                                *)

(* sentinelReceiveIsMasterDownReply with what sentinelCommand answered:    *)
(* whether t sees the address down.  Whom it votes for depends on which    *)
(* sentinels answered its PING lately: Outcomes takes every possibility.   *)
MasterDownReply(s, t) ==
    LET v == view[s]
        isdown == /\ view[t].addr = v.addr /\ ~view[t].tilt
                  /\ v.addr \in view[t].sdown
    IN  /\ t \in v.peers
        /\ v.addr \in v.sdown \/ InProgress(v)
        /\ Put(s, [v EXCEPT !.vote[t] = IF isdown THEN "down" ELSE "up"])
        /\ UNCHANGED <<role, config, wasMaster, faults, delays>>

(* sentinelReceiveHelloMessages: t announced itself through the master     *)
(* that both are connected to.                                             *)
Hello(s, t) ==
    LET a == view[s].addr
    IN  /\ t # s /\ t \notin view[s].peers
        /\ view[t].addr = a /\ a \notin view[s].lost \union view[t].lost
        /\ Put(s, [view[s] EXCEPT !.peers = @ \union {t}, !.vote[t] = "none"])
        /\ UNCHANGED <<role, config, wasMaster, faults, delays>>

(* sentinelRefreshInstanceInfo for the master: new slaves are added, and a *)
(* master that became a slave is followed to its own master.               *)
InfoOfMaster(s, n) ==
    LET v == view[s]
        found == {k \in Nodes \ {n} : role[k] = n} \ v.slaves
    IN  /\ n = v.addr
        /\ \/ /\ role[n] = n
              /\ Put(s, [v EXCEPT !.slaves = @ \union found]) /\ Outlive({})
           \/ /\ role[n] # n
              /\ \E kept \in Kept(v) :
                    Put(s, ResetTo(v, role[n], v.cmds, kept)) /\ Outlive(kept)

(* The role this sentinel waits for, in the state that waits for it.       *)
PromotionSeen(v, n) ==
    InProgress(v) /\ v.leads /\ v.phase = "wait_promotion" /\ n = v.promoted

(* Somebody else started a failover: this sentinel observes it.            *)
Observe(v, n) ==
    LET u == IF InProgress(v) THEN Abort(v) ELSE v
    IN  [u EXCEPT !.phase = "detect_end", !.promoted = n, !.demote = @ \ {n},
                  !.reconf = [k \in Nodes |-> IF k \in v.slaves THEN "sent" ELSE @[k]]]

(* sentinelRefreshInstanceInfo for a slave that says it is a master: an    *)
(* old master to demote (wait: the new master was down, or this sentinel   *)
(* tilted, not long ago; trust: the last INFO of the new master, which a   *)
(* reset does not forget, is recent), a reboot, the promotion this         *)
(* sentinel waits for, or the sign of a failover led by another sentinel.  *)
SlaveIsMaster(v, n, wait, trust, kept) ==
    LET first == n \notin v.seen
        u == [v EXCEPT !.seen = @ \union {n}]
    IN  IF ~v.tilt /\ n \in v.demote
        THEN IF wait THEN u
             ELSE IF trust /\ v.addr \notin v.sdown /\ ~v.odown
                  THEN SendTo(u, {n}, LAMBDA k : v.addr)
                  ELSE [u EXCEPT !.demote = @ \ {n}]
        ELSE IF ~InProgress(v) /\ first
        THEN [v EXCEPT !.slaves = @ \ {n}, !.sdown = @ \ {n}, !.demote = @ \ {n},
                       !.seen = @ \ {n}, !.cmds = Cut(@, {n}, kept)]
        ELSE IF ~v.tilt /\ n = v.promoted
        THEN IF PromotionSeen(v, n) THEN [u EXCEPT !.phase = "reconf"] ELSE u
        ELSE IF ~v.tilt /\ (~InProgress(v) \/ (v.leads /\ v.phase = "wait_start"))
        THEN Observe(u, n)
        ELSE u

(* sentinelRefreshInstanceInfo for a slave that says it is a slave; up:    *)
(* its link with its master works.                                         *)
SlaveIsSlave(v, n, up) ==
    LET u == [v EXCEPT !.seen = @ \union {n}]
        sent == v.reconf[n] = "sent" /\ role[n] = v.promoted
        next == IF up /\ (sent \/ v.reconf[n] = "inprog") THEN "done"
                ELSE IF sent THEN "inprog" ELSE v.reconf[n]
    IN  IF v.tilt THEN u
        ELSE [u EXCEPT !.demote = @ \ {n}, !.reconf[n] = next]

(* What the INFO of a slave makes of the view.                             *)
Reports(v, n, kept) ==
    IF role[n] = n
    THEN {SlaveIsMaster(v, n, wait, trust, kept) : wait, trust \in BOOLEAN}
    ELSE {SlaveIsSlave(v, n, up) : up \in BOOLEAN}

InfoOfSlave(s, n) ==
    LET v == view[s]
    IN  /\ n \in v.slaves
        /\ \E kept \in Kept(v) : \E u \in Reports(v, n, kept) :
             /\ kept # {} => kept = {n} /\ n \notin u.slaves
             /\ CmdsBounded(u) /\ Put(s, u) /\ Outlive(kept)

(* sentinelInfoReplyCallback: the answer to an INFO.                       *)
Info(s, n) ==
    /\ n \notin view[s].lost
    /\ InfoOfMaster(s, n) \/ InfoOfSlave(s, n)
    /\ UNCHANGED <<role, config, wasMaster, faults>>

------------------------------------------------------------------------------
(* The servers and the links.                                              *)

(* slaveofCommand of replication.c: the server reads the oldest command of *)
(* this sentinel, those of a dropped link first; the sentinel only drops   *)
(* the answer (DiscardReplyCallback).                                      *)
Deliver(s, n) ==
    LET q == view[s].cmds[n]
    IN  /\ q # <<>>
        /\ role' = [role EXCEPT ![n] = Head(q)]
        /\ wasMaster' = IF Head(q) = n THEN wasMaster \union {n} ELSE wasMaster
        /\ Put(s, [view[s] EXCEPT !.cmds[n] = Tail(q)])
        /\ UNCHANGED <<config, faults, delays>>

(* sentinelDisconnectCallback and sentinelKillLink.  Reconnecting is tried *)
(* at every timer, so the instance is DISCONNECTED as long as it is out of *)
(* reach.                                                                  *)
Unlinked(v, n, kept) ==
    [v EXCEPT !.lost = @ \union {n}, !.cmds = Cut(@, {n}, kept)]

Disconnect(s, n) ==
    /\ faults < MaxFaults /\ n \notin view[s].lost
    /\ faults' = faults + 1
    /\ \E kept \in Kept(view[s]) : /\ Put(s, Unlinked(view[s], n, kept))
                                  /\ kept \subseteq {n} /\ Outlive(kept)
    /\ UNCHANGED <<role, config, wasMaster>>

Reconnect(s, n) ==
    /\ n \in view[s].lost
    /\ Put(s, [view[s] EXCEPT !.lost = @ \ {n}])
    /\ UNCHANGED <<role, config, wasMaster, faults, delays>>

(* A server stops; when it starts again, found by Reconnect, it has the    *)
(* role of its configuration file and a new run id.                        *)
Stop(n) ==
    /\ faults < MaxFaults
    /\ faults' = faults + 1
    /\ role' = [role EXCEPT ![n] = config[n]]
    /\ view' = [s \in Sentinels |->
                   [Unlinked(view[s], n, {}) EXCEPT !.seen = @ \ {n}]]
    /\ UNCHANGED <<config, wasMaster, delays>>

(* SENTINEL GET-MASTER-ADDR-BY-NAME: the new master as soon as its         *)
(* promotion was seen.                                                     *)
Advertised(v) ==
    IF v.phase \in {"reconf", "detect_end"} /\ v.promoted # None
    THEN v.promoted ELSE v.addr

(* SENTINEL FAILOVER.                                                      *)
ForceFailover(s) ==
    /\ faults < MaxFaults
    /\ ~InProgress(view[s]) /\ SelectFrom(view[s]) # {}
    /\ faults' = faults + 1
    /\ Put(s, [StartFailover(view[s], "wait_start") EXCEPT !.force = TRUE])
    /\ UNCHANGED <<role, config, wasMaster, delays>>

(* SENTINEL RESET.                                                         *)
ResetCommand(s) ==
    /\ faults < MaxFaults
    /\ faults' = faults + 1
    /\ \E kept \in Kept(view[s]) :
         /\ Put(s, ResetTo(view[s], view[s].addr, view[s].cmds, kept))
         /\ Outlive(kept)
    /\ UNCHANGED <<role, config, wasMaster>>

Next ==
    \/ \E s \in Sentinels : \/ Timer(s) \/ EnterTilt(s) \/ LeaveTilt(s)
                            \/ ForceFailover(s) \/ ResetCommand(s)
    \/ \E s, t \in Sentinels : MasterDownReply(s, t) \/ Hello(s, t)
    \/ \E s \in Sentinels, n \in Nodes :
         Info(s, n) \/ Deliver(s, n) \/ Disconnect(s, n) \/ Reconnect(s, n)
    \/ \E n \in Nodes : Stop(n)

Spec == Init /\ [][Next]_vars

------------------------------------------------------------------------------
TypeOK ==
    /\ view \in [Sentinels -> View]
    /\ role \in [Nodes -> Nodes] /\ config \in [Nodes -> Nodes]
    /\ wasMaster \subseteq Nodes /\ faults \in 0..MaxFaults /\ delays \in 0..MaxDelays

(* The pointer promoted_slave: the states that follow it hold a slave that *)
(* is still in the table, and no slave is marked RECONF_SENT, which makes  *)
(* sentinelRefreshInstanceInfo follow it, while it is NULL.                *)
PromotedIsSlave ==
    \A s \in Sentinels :
      LET v == view[s]
      IN  /\ v.promoted # None => v.promoted \in v.slaves
          /\ (v.promoted # None) <=>
                (v.phase \in {"send_noone", "wait_promotion", "reconf", "detect_end"})
          /\ \A n \in v.slaves : v.reconf[n] # "no" => v.promoted # None
          /\ v.leads => InProgress(v)

(* A server is only ever told to replicate from, and a sentinel only ever  *)
(* watches as master, a server that has been a master: nobody is pointed   *)
(* at a slave whose promotion was not seen in its INFO output, clients     *)
(* that ask for the address of the master included.                        *)
FollowedWasMaster ==
    /\ \A n \in Nodes : role[n] \in wasMaster
    /\ \A s \in Sentinels : {view[s].addr, Advertised(view[s])} \subseteq wasMaster
    /\ \A s \in Sentinels, n \in Nodes :
         \A k \in Nodes : n # k /\ k \in ToSet(view[s].cmds[n]) => k \in wasMaster
=============================================================================
