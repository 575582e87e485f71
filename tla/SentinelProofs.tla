--------------------------- MODULE SentinelProofs ---------------------------
(***************************************************************************)
(* Proofs about Sentinel for any sentinels, servers, quorum and bounds,    *)
(* and about its queue of scripts for any limits.                          *)
(***************************************************************************)
EXTENDS Sentinel, SentinelScripts, SequenceTheorems, FiniteSetTheorems,
        NaturalsInduction, WellFoundedInduction, TLAPS

-----------------------------------------------------------------------------
(* The inductive invariant, of one view v and the servers W that have been *)
(* masters                                                                 *)

\* The phases that hold a promoted slave; update_config lasts only within a
\* call of the timer.
Holding == {"send_noone", "wait_promotion", "reconf", "detect_end", "update_config"}

\* promoted_slave and the flags of the slaves.  While the promotion is not
\* confirmed no slave was told to follow it, so the slave can be given up;
\* who does not lead only waits for the end.
Pointer(v) ==
    /\ v.promoted # None => v.promoted \in v.slaves
    /\ (v.promoted # None) <=> (v.phase \in Holding)
    /\ \A n \in Nodes : v.reconf[n] # "no" =>
          v.phase \in {"reconf", "detect_end", "update_config"}
    /\ v.leads => InProgress(v)
    /\ InProgress(v) /\ ~v.leads => v.phase \in {"detect_end", "update_config"}

\* Commands on their way.
ToMasters(cmds, W) ==
    \A n \in Nodes, k \in Nodes : n # k /\ k \in ToSet(cmds[n]) => k \in W

\* A promoted slave that is followed has been a master.
Masters(v, W) ==
    /\ v.addr \in W
    /\ v.phase \in {"reconf", "detect_end", "update_config"} => v.promoted \in W
    /\ ToMasters(v.cmds, W)

Sound(v, W) == v \in View /\ Pointer(v) /\ Masters(v, W)

\* Between two calls.
Stable(v, W) == Sound(v, W) /\ v.phase # "update_config"

IInv ==
    /\ TypeOK
    /\ \A s \in Sentinels : Stable(view[s], wasMaster)
    /\ \A n \in Nodes : role[n] \in wasMaster /\ config[n] \in wasMaster

-----------------------------------------------------------------------------
(* Commands on a link *)

\* What a link carries after one more command, and after the server read one.
LEMMA LinkElements ==
    ASSUME NEW q \in Seq(Nodes), NEW a \in Nodes
    PROVE  /\ Append(q, a) \in Seq(Nodes)
           /\ ToSet(Append(q, a)) = ToSet(q) \cup {a}
           /\ q # <<>> => /\ Head(q) \in ToSet(q) /\ Head(q) \in Nodes
                          /\ Tail(q) \in Seq(Nodes)
                          /\ ToSet(Tail(q)) \subseteq ToSet(q)
<1>1. Len(q) \in Nat /\ DOMAIN q = 1..Len(q) BY LenProperties
<1>2. /\ Append(q, a) \in Seq(Nodes) /\ Len(Append(q, a)) = Len(q) + 1
      /\ \A i \in 1..Len(q) : Append(q, a)[i] = q[i]
      /\ Append(q, a)[Len(q) + 1] = a
  BY AppendProperties
<1>3. DOMAIN Append(q, a) = 1..(Len(q) + 1) BY <1>2, LenProperties
<1>4. 1..(Len(q) + 1) = 1..Len(q) \cup {Len(q) + 1} BY <1>1
<1>5. ToSet(Append(q, a)) = ToSet(q) \cup {a}
  BY <1>1, <1>2, <1>3, <1>4 DEF ToSet
<1>6. ASSUME q # <<>>
      PROVE  /\ Head(q) \in ToSet(q) /\ Head(q) \in Nodes
             /\ Tail(q) \in Seq(Nodes) /\ ToSet(Tail(q)) \subseteq ToSet(q)
  <2>1. /\ Head(q) \in Nodes /\ Tail(q) \in Seq(Nodes) /\ Len(Tail(q)) = Len(q) - 1
        /\ \A i \in 1..Len(Tail(q)) : Tail(q)[i] = q[i + 1]
    BY <1>6, HeadTailProperties
  <2>2. Len(q) # 0 BY <1>6, EmptySeq
  <2>3. 1 \in DOMAIN q /\ Head(q) = q[1] BY <1>1, <2>2
  <2>4. DOMAIN Tail(q) = 1..(Len(q) - 1) BY <2>1, LenProperties
  <2>5. \A i \in 1..(Len(q) - 1) : i + 1 \in DOMAIN q /\ Tail(q)[i] = q[i + 1]
    BY <1>1, <2>1
  <2> QED BY <2>1, <2>3, <2>4, <2>5 DEF ToSet
<1> QED BY <1>2, <1>5, <1>6

\* The links c after SLAVEOF a to each of ns, and after SLAVEOF NO ONE.
Sending(c, ns, a) == [n \in Nodes |-> IF n \in ns THEN Append(c[n], a) ELSE c[n]]
SendingNoOne(c, ns) == [n \in Nodes |-> IF n \in ns THEN Append(c[n], n) ELSE c[n]]

\* A server is told to follow a former master.
LEMMA SendMaster ==
    ASSUME NEW W, NEW c \in [Nodes -> Seq(Nodes)], ToMasters(c, W),
           NEW ns, NEW a \in Nodes, a \in W
    PROVE  Sending(c, ns, a) \in [Nodes -> Seq(Nodes)] /\ ToMasters(Sending(c, ns, a), W)
<1> DEFINE e == Sending(c, ns, a)
<1>1. \A n \in Nodes : /\ e[n] \in Seq(Nodes)
                       /\ ToSet(e[n]) \subseteq ToSet(c[n]) \cup {a}
  BY LinkElements DEF Sending
<1>2. e \in [Nodes -> Seq(Nodes)] BY <1>1 DEF Sending
<1> HIDE DEF e
<1>3. ToMasters(e, W) BY <1>1 DEF ToMasters
<1> QED BY <1>2, <1>3 DEF e

\* SLAVEOF NO ONE.
LEMMA SendNoOne ==
    ASSUME NEW W, NEW c \in [Nodes -> Seq(Nodes)], ToMasters(c, W), NEW ns
    PROVE  SendingNoOne(c, ns) \in [Nodes -> Seq(Nodes)] /\ ToMasters(SendingNoOne(c, ns), W)
<1> DEFINE e == SendingNoOne(c, ns)
<1>1. \A n \in Nodes : /\ e[n] \in Seq(Nodes)
                       /\ ToSet(e[n]) \subseteq ToSet(c[n]) \cup {n}
  BY LinkElements DEF SendingNoOne
<1>2. e \in [Nodes -> Seq(Nodes)] BY <1>1 DEF SendingNoOne
<1> HIDE DEF e
<1>3. ToMasters(e, W) BY <1>1 DEF ToMasters
<1> QED BY <1>2, <1>3 DEF e

-----------------------------------------------------------------------------
(* The steps of the failover *)

LEMMA AbortSound ==
    ASSUME NEW W, NEW v, Sound(v, W)
    PROVE  Sound(Abort(v), W) /\ Abort(v).phase = "none"
           /\ Abort(v).slaves = v.slaves /\ Abort(v).addr = v.addr
<1> DEFINE u == Abort(v)
           touched == {n \in v.slaves : n = v.promoted \/ v.reconf[n] # "no"}
           undo == IF v.leads THEN touched \ v.lost ELSE {}
           c == Sending(v.cmds, undo, v.addr)
           r == [n \in Nodes |-> "no"]
<1>1. u = [v EXCEPT !.cmds = c, !.reconf = r, !.phase = "none",
                    !.leads = FALSE, !.force = FALSE, !.promoted = None]
  BY DEF Abort, SendTo, Sound, View, Sending
<1>2. c \in [Nodes -> Seq(Nodes)] /\ ToMasters(c, W)
  <2> HIDE DEF undo
  <2>1. /\ v.cmds \in [Nodes -> Seq(Nodes)] /\ ToMasters(v.cmds, W)
        /\ v.addr \in Nodes /\ v.addr \in W
    BY DEF Sound, View, Masters
  <2> QED BY <2>1, SendMaster
<1>3. r \in [Nodes -> Reconf] BY DEF Reconf
<1> HIDE DEF c, r
<1>4. u \in View BY <1>1, <1>2, <1>3 DEF Sound, View, Phases
<1>5. /\ u.phase = "none" /\ u.leads = FALSE /\ u.promoted = None
      /\ u.reconf = r /\ u.cmds = c /\ u.slaves = v.slaves /\ u.addr = v.addr
  BY <1>1 DEF Sound, View
<1>6. Pointer(u) BY <1>5 DEF Pointer, InProgress, Holding, r
<1>7. Masters(u, W) BY <1>2, <1>5 DEF Masters, Sound
<1> QED BY <1>4, <1>5, <1>6, <1>7 DEF Sound

\* A change of what neither the pointer nor the commands depend on.
LEMMA SameSound ==
    ASSUME NEW W, NEW v, Sound(v, W), NEW u \in View,
           u.addr = v.addr, v.slaves \subseteq u.slaves, u.phase = v.phase,
           u.leads = v.leads, u.promoted = v.promoted, u.reconf = v.reconf,
           u.cmds = v.cmds
    PROVE  Sound(u, W)
BY DEF Sound, Pointer, Masters, InProgress

\* sentinelStartFailoverIfNeeded: an observer that takes over has seen the
\* promoted slave, so it may go on from where the leader stopped.
LEMMA StartSound ==
    ASSUME NEW W, NEW v, Stable(v, W), NEW s, NEW lead, NEW pick, NEW late
    PROVE  /\ Stable(StartIfNeeded(s, v, lead, pick, late), W)
           /\ StartIfNeeded(s, v, lead, pick, late).slaves = v.slaves
<1> DEFINE r == [n \in Nodes |-> IF v.reconf[n] = "sent" THEN "no" ELSE v.reconf[n]]
           u == [v EXCEPT !.phase = "reconf", !.leads = TRUE, !.reconf = r]
           w == [v EXCEPT !.phase = "wait_start", !.leads = TRUE]
<1>0. v \in View /\ v.reconf \in [Nodes -> Reconf] BY DEF Stable, Sound, View
<1>1. r \in [Nodes -> Reconf] /\ \A n \in Nodes : r[n] # "no" => v.reconf[n] # "no"
  BY <1>0 DEF Reconf
<1>2. \/ StartIfNeeded(s, v, lead, pick, late) = v
      \/ InProgress(v) /\ ~v.leads /\ StartIfNeeded(s, v, lead, pick, late) = u
      \/ ~InProgress(v) /\ StartIfNeeded(s, v, lead, pick, late) = w
  BY <1>0 DEF StartIfNeeded, StartFailover, View
<1> HIDE DEF r
<1>3. CASE InProgress(v) /\ ~v.leads
  <2>1. v.phase = "detect_end" /\ v.promoted # None /\ v.promoted \in v.slaves
        /\ v.promoted \in W
    BY <1>3 DEF Stable, Sound, Pointer, Masters, Holding
  <2>2. u \in View BY <1>0, <1>1 DEF View, Phases
  <2>3. /\ u.phase = "reconf" /\ u.leads = TRUE /\ u.promoted = v.promoted
        /\ u.reconf = r /\ u.cmds = v.cmds /\ u.slaves = v.slaves
        /\ u.addr = v.addr
    BY <1>0 DEF View
  <2> HIDE DEF u
  <2>4. Pointer(u) BY <2>1, <2>3 DEF Pointer, InProgress, Holding
  <2>5. Masters(u, W) BY <2>1, <2>3 DEF Masters, Stable, Sound
  <2> QED BY <1>2, <1>3, <2>2, <2>3, <2>4, <2>5 DEF Stable, Sound
<1>4. CASE ~InProgress(v)
  <2>1. v.phase = "none" /\ v.promoted = None /\ \A n \in Nodes : v.reconf[n] = "no"
    BY <1>4 DEF Stable, Sound, Pointer, InProgress, Holding
  <2>2. w \in View BY <1>0 DEF View, Phases
  <2>3. /\ w.phase = "wait_start" /\ w.leads = TRUE /\ w.promoted = v.promoted
        /\ w.reconf = v.reconf /\ w.cmds = v.cmds /\ w.slaves = v.slaves
        /\ w.addr = v.addr
    BY <1>0 DEF View
  <2> HIDE DEF w
  <2>4. Pointer(w) BY <2>1, <2>3 DEF Pointer, InProgress, Holding
  <2>5. Masters(w, W) BY <2>1, <2>3 DEF Masters, Stable, Sound
  <2> QED BY <1>2, <1>4, <2>2, <2>3, <2>4, <2>5 DEF Stable, Sound
<1> QED BY <1>2, <1>3, <1>4

LEMMA WaitStartSound ==
    ASSUME NEW W, NEW v, Stable(v, W), v.phase = "wait_start", NEW late
    PROVE  Sound(WaitStart(v, late), W)
<1> DEFINE u == [v EXCEPT !.phase = "select"]
<1>1. WaitStart(v, late) \in {Abort(v), u, v} BY DEF WaitStart
<1>2. v \in View BY DEF Stable, Sound
<1>3. u \in View BY <1>2 DEF View, Phases
<1>4. /\ u.phase = "select" /\ u.leads = v.leads /\ u.promoted = v.promoted
      /\ u.reconf = v.reconf /\ u.cmds = v.cmds /\ u.slaves = v.slaves
      /\ u.addr = v.addr
  BY <1>2 DEF View
<1> HIDE DEF u
<1>5. Pointer(u)
  BY <1>4 DEF Pointer, InProgress, Holding, Stable, Sound
<1>6. Masters(u, W) BY <1>4 DEF Masters, Stable, Sound
<1> QED BY <1>1, <1>3, <1>5, <1>6, AbortSound DEF Stable, Sound

LEMMA SelectSlaveSound ==
    ASSUME NEW W, NEW v, Stable(v, W), v.phase = "select",
           NEW pick \in v.slaves \cup {None}
    PROVE  Sound(SelectSlave(v, pick), W)
<1> DEFINE u == [v EXCEPT !.promoted = pick, !.phase = "send_noone"]
<1>1. SelectSlave(v, pick) = IF pick = None THEN Abort(v) ELSE u BY DEF SelectSlave
<1>2. v \in View /\ v.slaves \subseteq Nodes BY DEF Stable, Sound, View
<1>3. u \in View BY <1>2 DEF View, Phases
<1>4. /\ u.phase = "send_noone" /\ u.leads = v.leads /\ u.promoted = pick
      /\ u.reconf = v.reconf /\ u.cmds = v.cmds /\ u.slaves = v.slaves
      /\ u.addr = v.addr
  BY <1>2 DEF View
<1> HIDE DEF u
<1>5. pick # None => Pointer(u)
  BY <1>4 DEF Pointer, InProgress, Holding, Stable, Sound
<1>6. Masters(u, W) BY <1>4 DEF Masters, Stable, Sound
<1> QED BY <1>1, <1>3, <1>5, <1>6, AbortSound DEF Stable, Sound

LEMMA SendNoOneSound ==
    ASSUME NEW W, NEW v, Stable(v, W), v.phase = "send_noone"
    PROVE  Sound(SendSlaveOfNoOne(v), W)
<1> DEFINE c == SendingNoOne(v.cmds, {v.promoted})
           u == [v EXCEPT !.cmds = c, !.phase = "wait_promotion"]
<1>1. v \in View /\ v.cmds \in [Nodes -> Seq(Nodes)] /\ ToMasters(v.cmds, W)
  BY DEF Stable, Sound, View, Masters
<1>2. SendSlaveOfNoOne(v) \in {v, u}
  BY <1>1 DEF SendSlaveOfNoOne, SendTo, View, SendingNoOne
<1>3. c \in [Nodes -> Seq(Nodes)] /\ ToMasters(c, W) BY <1>1, SendNoOne
<1> HIDE DEF c
<1>4. u \in View BY <1>1, <1>3 DEF View, Phases
<1>5. /\ u.phase = "wait_promotion" /\ u.leads = v.leads
      /\ u.promoted = v.promoted /\ u.reconf = v.reconf /\ u.cmds = c
      /\ u.slaves = v.slaves /\ u.addr = v.addr
  BY <1>1 DEF View
<1> HIDE DEF u
<1>6. Pointer(u) BY <1>5 DEF Pointer, InProgress, Holding, Stable, Sound
<1>7. Masters(u, W) BY <1>3, <1>5 DEF Masters, Stable, Sound
<1> QED BY <1>2, <1>4, <1>6, <1>7 DEF Stable, Sound

\* On timeout the slave is given up: nobody was told to follow it.
LEMMA WaitPromotionSound ==
    ASSUME NEW W, NEW v, Stable(v, W), v.phase = "wait_promotion", NEW late
    PROVE  Sound(WaitPromotion(v, late), W)
<1> DEFINE u == [v EXCEPT !.phase = "select", !.promoted = None]
<1>1. v \in View BY DEF Stable, Sound
<1>2. WaitPromotion(v, late) \in {v, u} BY DEF WaitPromotion
<1>3. u \in View BY <1>1 DEF View, Phases
<1>4. /\ u.phase = "select" /\ u.leads = v.leads /\ u.promoted = None
      /\ u.reconf = v.reconf /\ u.cmds = v.cmds /\ u.slaves = v.slaves
      /\ u.addr = v.addr
  BY <1>1 DEF View
<1> HIDE DEF u
<1>5. Pointer(u) BY <1>4 DEF Pointer, InProgress, Holding, Stable, Sound
<1>6. Masters(u, W) BY <1>4 DEF Masters, Stable, Sound
<1> QED BY <1>2, <1>3, <1>5, <1>6 DEF Stable, Sound

\* Once the promotion was seen the flags of the slaves may change at will.
LEMMA FollowSound ==
    ASSUME NEW W, NEW v, Sound(v, W), v.phase \in {"reconf", "detect_end"},
           NEW u \in View, u.phase \in {"reconf", "detect_end", "update_config"},
           u.addr = v.addr, u.slaves = v.slaves, u.promoted = v.promoted,
           u.leads = v.leads, u.phase = "reconf" => v.phase = "reconf",
           ToMasters(u.cmds, W)
    PROVE  Sound(u, W)
<1>1. v.promoted # None /\ v.promoted \in v.slaves /\ v.promoted \in W
  BY DEF Sound, Pointer, Masters, Holding
<1>2. v.addr \in W /\ (u.phase = "reconf" => u.leads)
  BY DEF Sound, Pointer, Masters, InProgress
<1>3. Pointer(u) BY <1>1, <1>2 DEF Pointer, InProgress, Holding
<1>4. Masters(u, W) BY <1>1, <1>2 DEF Masters
<1> QED BY <1>3, <1>4 DEF Sound

LEMMA DetectEndSound ==
    ASSUME NEW W, NEW v, Sound(v, W), v.phase \in {"reconf", "detect_end"},
           NEW late
    PROVE  Sound(DetectEnd(v, late), W)
<1> DEFINE rest == {n \in v.slaves \ v.lost :
                       v.reconf[n] \notin {"done", "sent"}}
           w == [v EXCEPT !.phase = "update_config"]
           c == Sending(v.cmds, rest, v.promoted)
           r == [n \in Nodes |-> IF n \in rest THEN "sent" ELSE v.reconf[n]]
           x == [w EXCEPT !.cmds = c, !.reconf = r]
<1>1. v \in View /\ v.cmds \in [Nodes -> Seq(Nodes)] /\ ToMasters(v.cmds, W)
      /\ v.reconf \in [Nodes -> Reconf]
      /\ v.promoted \in Nodes /\ v.promoted \in W
  BY DEF Sound, View, Masters, Pointer, Holding
<1>2. w.cmds = v.cmds /\ w.reconf = v.reconf BY <1>1 DEF View
<1>3. DetectEnd(v, late) \in {v, w, x}
  <2>1. DetectEnd(v, late) \in
          {v, w, [SendTo(w, rest, LAMBDA n : v.promoted) EXCEPT
                      !.reconf = [n \in Nodes |-> IF n \in rest THEN "sent"
                                                  ELSE @[n]]]}
    BY DEF DetectEnd
  <2>2. SendTo(w, rest, LAMBDA n : v.promoted) = [w EXCEPT !.cmds = c]
    BY <1>2 DEF SendTo, Sending
  <2>3. [w EXCEPT !.cmds = c].reconf = v.reconf
    BY <1>1 DEF View
  <2> HIDE DEF w, c, rest
  <2> QED BY <2>1, <2>2, <2>3
<1>4. c \in [Nodes -> Seq(Nodes)] /\ ToMasters(c, W)
  <2> HIDE DEF rest
  <2> QED BY <1>1, SendMaster
<1>5. r \in [Nodes -> Reconf] BY <1>1 DEF Reconf
<1> HIDE DEF c, r
<1>6. w \in View /\ x \in View BY <1>1, <1>4, <1>5 DEF View, Phases
<1>7. /\ w.phase = "update_config" /\ w.addr = v.addr /\ w.slaves = v.slaves
      /\ w.leads = v.leads /\ w.promoted = v.promoted
  BY <1>1 DEF View
<1>8. /\ x.phase = "update_config" /\ x.addr = v.addr /\ x.slaves = v.slaves
      /\ x.leads = v.leads /\ x.promoted = v.promoted /\ x.cmds = c
  BY <1>1 DEF View
<1> HIDE DEF w, x
<1>9. Sound(w, W) BY <1>1, <1>2, <1>6, <1>7, FollowSound
<1>10. Sound(x, W) BY <1>4, <1>6, <1>8, FollowSound
<1> QED BY <1>3, <1>9, <1>10

LEMMA ReconfNextSound ==
    ASSUME NEW W, NEW v, Sound(v, W), v.phase = "reconf",
           NEW next, NEW lost, NEW late
    PROVE  Sound(ReconfNext(v, next, lost, late), W)
<1> DEFINE r1 == [n \in Nodes |-> IF n \in lost THEN "no" ELSE v.reconf[n]]
           v1 == [v EXCEPT !.reconf = r1]
           c == Sending(v.cmds, next, v.promoted)
           r2 == [n \in Nodes |-> IF n \in next THEN "sent" ELSE r1[n]]
           v2 == [v EXCEPT !.reconf = r2, !.cmds = c]
<1>1. v \in View /\ v.cmds \in [Nodes -> Seq(Nodes)] /\ ToMasters(v.cmds, W)
      /\ v.reconf \in [Nodes -> Reconf]
      /\ v.promoted \in Nodes /\ v.promoted \in W
  BY DEF Sound, View, Masters, Pointer, Holding
<1>2. r1 \in [Nodes -> Reconf] /\ r2 \in [Nodes -> Reconf] BY <1>1 DEF Reconf
<1>3. c \in [Nodes -> Seq(Nodes)] /\ ToMasters(c, W) BY <1>1, SendMaster
<1>4. ReconfNext(v, next, lost, late) = DetectEnd(v2, late)
  <2>1. v1 = [v EXCEPT !.reconf = [n \in Nodes |->
                  IF n \in lost THEN "no" ELSE @[n]]]
    BY <1>1 DEF View
  <2> HIDE DEF r1
  <2>2. SendTo(v1, next, LAMBDA n : v.promoted) = [v1 EXCEPT !.cmds = c]
    BY <1>1 DEF SendTo, Sending, View
  <2> HIDE DEF c
  <2>3. v2 = [SendTo(v1, next, LAMBDA n : v.promoted) EXCEPT
                !.reconf = [n \in Nodes |-> IF n \in next THEN "sent" ELSE @[n]]]
    BY <1>1, <2>2 DEF View
  <2> HIDE DEF v1, v2
  <2> QED BY <2>1, <2>3 DEF ReconfNext
<1> HIDE DEF c, r1, r2
<1>5. v2 \in View BY <1>1, <1>2, <1>3 DEF View
<1>6. /\ v2.phase = v.phase /\ v2.addr = v.addr /\ v2.slaves = v.slaves
      /\ v2.leads = v.leads /\ v2.promoted = v.promoted /\ v2.cmds = c
  BY <1>1 DEF View
<1> HIDE DEF v2
<1>7. Sound(v2, W) BY <1>3, <1>5, <1>6, FollowSound
<1> QED BY <1>4, <1>6, <1>7, DetectEndSound

\* sentinelFailoverStateMachine, whatever its clock says.
LEMMA StateMachineSound ==
    ASSUME NEW W, NEW v, Stable(v, W), NEW pick \in v.slaves \cup {None},
           NEW next, NEW lost, NEW late
    PROVE  Sound(StateMachine(v, pick, next, lost, late), W)
<1>1. Sound(v, W) BY DEF Stable
<1>2. CASE v.phase = "wait_start" BY <1>2, WaitStartSound DEF StateMachine
<1>3. CASE v.phase = "select" BY <1>3, SelectSlaveSound DEF StateMachine
<1>4. CASE v.phase = "send_noone" BY <1>4, SendNoOneSound DEF StateMachine
<1>5. CASE v.phase = "wait_promotion" BY <1>5, WaitPromotionSound DEF StateMachine
<1>6. CASE v.phase = "reconf" BY <1>1, <1>6, ReconfNextSound DEF StateMachine
<1>7. CASE v.phase = "detect_end" BY <1>1, <1>7, DetectEndSound DEF StateMachine
<1>8. CASE v.phase \in {"none", "update_config"}
  BY <1>1, <1>8 DEF StateMachine
<1> QED BY <1>1, <1>2, <1>3, <1>4, <1>5, <1>6, <1>7, <1>8
        DEF Sound, View, Phases

\* What is left of the commands when links are dropped.
LEMMA CutSound ==
    ASSUME NEW W, NEW cmds \in [Nodes -> Seq(Nodes)], ToMasters(cmds, W),
           NEW ns, NEW kept
    PROVE  /\ Cut(cmds, ns, kept) \in [Nodes -> Seq(Nodes)]
           /\ ToMasters(Cut(cmds, ns, kept), W)
<1> DEFINE c == Cut(cmds, ns, kept)
<1>1. \A n \in Nodes : c[n] \in {cmds[n], <<>>} BY DEF Cut
<1>2. c \in [Nodes -> Seq(Nodes)] BY <1>1 DEF Cut
<1>3. ToSet(<<>>) = {} BY DEF ToSet
<1> HIDE DEF c
<1>4. ToMasters(c, W) BY <1>1, <1>3 DEF ToMasters
<1> QED BY <1>2, <1>4 DEF c

\* A fresh view, of a server that has been a master.
LEMMA FreshSound ==
    ASSUME NEW W, NEW a \in Nodes, a \in W, NEW down \in SUBSET Nodes,
           NEW tilted \in BOOLEAN
    PROVE  Stable(FreshView(a, down, tilted), W)
<1> DEFINE f == FreshView(a, down, tilted)
           r == [n \in Nodes |-> "no"]
           c == [n \in Nodes |-> <<>>]
           o == [t \in Sentinels |-> "none"]
<1>1. r \in [Nodes -> Reconf] /\ c \in [Nodes -> Seq(Nodes)]
      /\ o \in [Sentinels -> Answer]
  BY DEF Reconf, Answer
<1>2. ToMasters(c, W) BY DEF ToMasters, ToSet
<1>3. \A n \in Nodes : r[n] = "no" OBVIOUS
<1>4. f = [addr |-> a, slaves |-> {}, sdown |-> {}, odown |-> FALSE,
           phase |-> "none", leads |-> FALSE, force |-> FALSE, promoted |-> None,
           reconf |-> r, demote |-> {}, seen |-> {},
           lost |-> down, peers |-> {}, vote |-> o, cmds |-> c, tilt |-> tilted]
  BY DEF FreshView
<1> HIDE DEF f, r, c, o
<1>5. f \in View BY <1>1, <1>4 DEF View, Phases
<1>6. /\ f.addr = a /\ f.phase = "none" /\ f.leads = FALSE /\ f.promoted = None
      /\ f.reconf = r /\ f.cmds = c
  BY <1>4
<1>7. Pointer(f) BY <1>3, <1>6 DEF Pointer, InProgress, Holding
<1>8. Masters(f, W) BY <1>2, <1>6 DEF Masters
<1> QED BY <1>5, <1>6, <1>7, <1>8 DEF Stable, Sound, f

\* A reset: a fresh view, and what the servers may still read.
LEMMA ResetSound ==
    ASSUME NEW W, NEW v, v \in View, NEW a \in Nodes, a \in W,
           NEW old \in [Nodes -> Seq(Nodes)], ToMasters(old, W), NEW kept
    PROVE  Stable(ResetTo(v, a, old, kept), W) /\ ResetTo(v, a, old, kept).slaves = {}
<1> DEFINE f == FreshView(a, v.lost, v.tilt)
           c == Cut(old, Nodes, kept)
           u == [f EXCEPT !.cmds = c]
<1>1. v.lost \in SUBSET Nodes /\ v.tilt \in BOOLEAN BY DEF View
<1>2. Stable(f, W) BY <1>1, FreshSound
<1>3. f.slaves = {} BY DEF FreshView
<1>4. c \in [Nodes -> Seq(Nodes)] /\ ToMasters(c, W) BY CutSound
<1>5. ResetTo(v, a, old, kept) = u BY DEF ResetTo
<1> HIDE DEF f, c
<1>6. f \in View BY <1>2 DEF Stable, Sound
<1>7. u \in View BY <1>4, <1>6 DEF View
<1>8. /\ u.addr = f.addr /\ u.slaves = f.slaves /\ u.phase = f.phase
      /\ u.leads = f.leads /\ u.promoted = f.promoted /\ u.reconf = f.reconf
      /\ u.cmds = c
  BY <1>6 DEF View
<1> HIDE DEF u
<1>9. Pointer(u) BY <1>2, <1>8 DEF Stable, Sound, Pointer, InProgress
<1>10. Masters(u, W) BY <1>2, <1>4, <1>8 DEF Stable, Sound, Masters
<1> QED BY <1>2, <1>3, <1>5, <1>7, <1>8, <1>9, <1>10 DEF Stable, Sound

\* sentinelFailoverSwitchToPromotedSlave.
LEMMA SwitchSound ==
    ASSUME NEW W, NEW v, Sound(v, W),
           NEW old \in [Nodes -> Seq(Nodes)], ToMasters(old, W), NEW kept
    PROVE  Stable(Switch(v, old, kept), W)
<1>1. CASE v.phase # "update_config" BY <1>1 DEF Switch, Stable
<1>2. CASE v.phase = "update_config"
  <2> DEFINE f == ResetTo(v, v.promoted, old, kept)
             u == [f EXCEPT !.slaves = {v.addr}, !.demote = {v.addr}]
  <2>1. v.promoted \in Nodes /\ v.promoted \in W /\ v.addr \in Nodes /\ v \in View
    BY <1>2 DEF Sound, View, Pointer, Masters, Holding
  <2>2. Stable(f, W) BY <2>1, ResetSound
  <2>3. f.slaves = {} BY <2>1, ResetSound
  <2> HIDE DEF f
  <2>4. f \in View BY <2>2 DEF Stable, Sound
  <2>5. u \in View BY <2>1, <2>4 DEF View
  <2>6. /\ u.addr = f.addr /\ f.slaves \subseteq u.slaves /\ u.phase = f.phase
        /\ u.leads = f.leads /\ u.promoted = f.promoted /\ u.reconf = f.reconf
        /\ u.cmds = f.cmds
    BY <2>3, <2>4 DEF View
  <2> HIDE DEF u
  <2>7. Stable(u, W) BY <2>2, <2>5, <2>6, SameSound DEF Stable
  <2> QED BY <1>2, <2>7 DEF Switch, u, f
<1> QED BY <1>1, <1>2

\* A view in which only what was heard of the instances is new.
LEMMA HeardSound ==
    ASSUME NEW W, NEW v, Sound(v, W), NEW down \in SUBSET Nodes
    PROVE  /\ Sound([v EXCEPT !.sdown = down], W)
           /\ [v EXCEPT !.sdown = down].phase = v.phase
           /\ [v EXCEPT !.sdown = down].slaves = v.slaves
<1> DEFINE u == [v EXCEPT !.sdown = down]
<1>1. v \in View BY DEF Sound
<1>2. u \in View BY <1>1 DEF View
<1>3. /\ u.addr = v.addr /\ u.slaves = v.slaves /\ u.phase = v.phase
      /\ u.leads = v.leads /\ u.promoted = v.promoted /\ u.reconf = v.reconf
      /\ u.cmds = v.cmds
  BY <1>1 DEF View
<1> HIDE DEF u
<1>4. Sound(u, W) BY <1>2, <1>3, SameSound
<1> QED BY <1>3, <1>4 DEF u

LEMMA OdownSound ==
    ASSUME NEW W, NEW v, Stable(v, W)
    PROVE  Stable(CheckOdown(v), W) /\ CheckOdown(v).slaves = v.slaves
<1> DEFINE u == CheckOdown(v)
<1>1. v \in View BY DEF Stable, Sound
<1>2. u \in View BY <1>1 DEF CheckOdown, View
<1>3. /\ u.addr = v.addr /\ u.slaves = v.slaves /\ u.phase = v.phase
      /\ u.leads = v.leads /\ u.promoted = v.promoted /\ u.reconf = v.reconf
      /\ u.cmds = v.cmds
  BY <1>1 DEF CheckOdown, View
<1> HIDE DEF u
<1>4. Stable(u, W) BY <1>2, <1>3, SameSound DEF Stable
<1> QED BY <1>3, <1>4 DEF u

LEMMA MonitorSound ==
    ASSUME NEW W, NEW v, Stable(v, W), NEW old
    PROVE  Stable(Monitor(v, old), W)
<1> DEFINE o == [t \in Sentinels |-> IF t \in old THEN "none" ELSE v.vote[t]]
           u == [v EXCEPT !.vote = o]
<1>1. v \in View /\ v.vote \in [Sentinels -> Answer] BY DEF Stable, Sound, View
<1>2. Monitor(v, old) = u BY DEF Monitor
<1>3. o \in [Sentinels -> Answer] BY <1>1 DEF Answer
<1> HIDE DEF o
<1>4. u \in View BY <1>1, <1>3 DEF View
<1>5. /\ u.addr = v.addr /\ u.slaves = v.slaves /\ u.phase = v.phase
      /\ u.leads = v.leads /\ u.promoted = v.promoted /\ u.reconf = v.reconf
      /\ u.cmds = v.cmds
  BY <1>1 DEF View
<1> HIDE DEF u
<1> QED BY <1>2, <1>4, <1>5, SameSound DEF Stable

\* One call of sentinelHandleDictOfRedisInstances: the phase update_config,
\* in which nothing protects the promoted slave, does not outlive it.
LEMMA HandleStable ==
    ASSUME NEW W, NEW s, NEW v0, Stable(v0, W), NEW late, NEW dead, NEW kept,
           Handle(s, v0, late, dead, kept)
    PROVE  \E u : Stable(u, W) /\ Put(s, u)
<1>1. CASE v0.tilt BY <1>1 DEF Handle
<1>2. CASE ~v0.tilt
  <2>1. PICK v1 \in {CheckOdown([v0 EXCEPT !.sdown = (@ \ {v0.addr}) \union down]) :
                         down \in MaybeDown(v0, {v0.addr})} :
         \E lead \in Outcomes(s, v1), pick \in LookedAt(v1) :
         \E v2 \in {StartIfNeeded(s, v1, lead, pick, late)} :
         \E lost \in LostSets(v2) : \E next \in NextSets(v2, lost) :
         \E v3 \in {StateMachine(v2, pick, next, lost, late /\ v2 = v1)} :
         \E v4 \in {AbortIfNeeded(v3, dead)} :
         \E v5 \in {[v4 EXCEPT !.sdown = (@ \intersect {v4.addr}) \union others] :
                       others \in MaybeDown(v4, v4.slaves)} :
         \E v6 \in {Switch(v5, v0.cmds, kept)} : CmdsBounded(v6) /\ Put(s, v6)
    BY <1>2 DEF Handle
  <2>2. Stable(v1, W)
    <3>0. PICK down \in MaybeDown(v0, {v0.addr}) :
             v1 = CheckOdown([v0 EXCEPT !.sdown = (@ \ {v0.addr}) \union down])
      BY <2>1
    <3>1. v0.sdown \in SUBSET Nodes /\ v0.addr \in Nodes
      BY DEF Stable, Sound, View
    <3>2. (v0.sdown \ {v0.addr}) \union down \in SUBSET Nodes
      BY <3>1 DEF MaybeDown
    <3> DEFINE D == (v0.sdown \ {v0.addr}) \union down
    <3> HIDE DEF D
    <3>3. Stable([v0 EXCEPT !.sdown = D], W)
      BY <3>2, HeardSound DEF Stable, D
    <3>4. Stable(CheckOdown([v0 EXCEPT !.sdown = D]), W) BY <3>3, OdownSound
    <3>5. v1 = CheckOdown([v0 EXCEPT !.sdown = D]) BY <3>0 DEF D
    <3> QED BY <3>4, <3>5
  <2>3. PICK lead \in Outcomes(s, v1), pick \in LookedAt(v1) :
         \E v2 \in {StartIfNeeded(s, v1, lead, pick, late)} :
         \E lost \in LostSets(v2) : \E next \in NextSets(v2, lost) :
         \E v3 \in {StateMachine(v2, pick, next, lost, late /\ v2 = v1)} :
         \E v4 \in {AbortIfNeeded(v3, dead)} :
         \E v5 \in {[v4 EXCEPT !.sdown = (@ \intersect {v4.addr}) \union others] :
                       others \in MaybeDown(v4, v4.slaves)} :
         \E v6 \in {Switch(v5, v0.cmds, kept)} : CmdsBounded(v6) /\ Put(s, v6)
    BY <2>1
  <2>4. PICK v2 \in {StartIfNeeded(s, v1, lead, pick, late)} :
         \E lost \in LostSets(v2) : \E next \in NextSets(v2, lost) :
         \E v3 \in {StateMachine(v2, pick, next, lost, late /\ v2 = v1)} :
         \E v4 \in {AbortIfNeeded(v3, dead)} :
         \E v5 \in {[v4 EXCEPT !.sdown = (@ \intersect {v4.addr}) \union others] :
                       others \in MaybeDown(v4, v4.slaves)} :
         \E v6 \in {Switch(v5, v0.cmds, kept)} : CmdsBounded(v6) /\ Put(s, v6)
    BY <2>3
  <2>5. Stable(v2, W) /\ v2.slaves = v1.slaves BY <2>2, <2>4, StartSound
  <2>6. pick \in v2.slaves \cup {None}
    BY <2>3, <2>5 DEF LookedAt, Picks, SelectFrom
  <2>7. PICK lost \in LostSets(v2) : \E next \in NextSets(v2, lost) :
         \E v3 \in {StateMachine(v2, pick, next, lost, late /\ v2 = v1)} :
         \E v4 \in {AbortIfNeeded(v3, dead)} :
         \E v5 \in {[v4 EXCEPT !.sdown = (@ \intersect {v4.addr}) \union others] :
                       others \in MaybeDown(v4, v4.slaves)} :
         \E v6 \in {Switch(v5, v0.cmds, kept)} : CmdsBounded(v6) /\ Put(s, v6)
    BY <2>4
  <2>8. PICK next \in NextSets(v2, lost) :
         \E v3 \in {StateMachine(v2, pick, next, lost, late /\ v2 = v1)} :
         \E v4 \in {AbortIfNeeded(v3, dead)} :
         \E v5 \in {[v4 EXCEPT !.sdown = (@ \intersect {v4.addr}) \union others] :
                       others \in MaybeDown(v4, v4.slaves)} :
         \E v6 \in {Switch(v5, v0.cmds, kept)} : CmdsBounded(v6) /\ Put(s, v6)
    BY <2>7
  <2>9. PICK v3 \in {StateMachine(v2, pick, next, lost, late /\ v2 = v1)} :
         \E v4 \in {AbortIfNeeded(v3, dead)} :
         \E v5 \in {[v4 EXCEPT !.sdown = (@ \intersect {v4.addr}) \union others] :
                       others \in MaybeDown(v4, v4.slaves)} :
         \E v6 \in {Switch(v5, v0.cmds, kept)} : CmdsBounded(v6) /\ Put(s, v6)
    BY <2>8
  <2>10. Sound(v3, W) BY <2>5, <2>6, <2>9, StateMachineSound
  <2>11. PICK v4 \in {AbortIfNeeded(v3, dead)} :
         \E v5 \in {[v4 EXCEPT !.sdown = (@ \intersect {v4.addr}) \union others] :
                       others \in MaybeDown(v4, v4.slaves)} :
         \E v6 \in {Switch(v5, v0.cmds, kept)} : CmdsBounded(v6) /\ Put(s, v6)
    BY <2>9
  <2>12. Sound(v4, W) BY <2>10, <2>11, AbortSound DEF AbortIfNeeded
  <2>13. PICK others \in MaybeDown(v4, v4.slaves) :
           Put(s, Switch([v4 EXCEPT !.sdown = (@ \intersect {v4.addr}) \union others],
                         v0.cmds, kept))
    BY <2>11
  <2> DEFINE D == (v4.sdown \intersect {v4.addr}) \union others
  <2>14. D \in SUBSET Nodes BY <2>12 DEF MaybeDown, Sound, View
  <2>15. Put(s, Switch([v4 EXCEPT !.sdown = D], v0.cmds, kept)) BY <2>13
  <2> HIDE DEF D
  <2>16. Sound([v4 EXCEPT !.sdown = D], W) BY <2>12, <2>14, HeardSound
  <2>17. v0.cmds \in [Nodes -> Seq(Nodes)] /\ ToMasters(v0.cmds, W)
    BY DEF Stable, Sound, View, Masters
  <2> QED BY <2>15, <2>16, <2>17, SwitchSound
<1> QED BY <1>1, <1>2

-----------------------------------------------------------------------------
(* What the INFO of a server does to a view *)

\* Another sentinel started a failover.
LEMMA ObserveSound ==
    ASSUME NEW W, NEW v, Stable(v, W), NEW n \in v.slaves, n \in W
    PROVE  Stable(Observe(v, n), W)
<1> DEFINE w == IF InProgress(v) THEN Abort(v) ELSE v
           r == [k \in Nodes |-> IF k \in v.slaves THEN "sent" ELSE w.reconf[k]]
           u == [w EXCEPT !.phase = "detect_end", !.promoted = n,
                          !.demote = @ \ {n}, !.reconf = r]
<1>1. Sound(w, W) /\ w.phase = "none" /\ w.slaves = v.slaves /\ w.addr = v.addr
  BY AbortSound DEF Stable, InProgress
<1>2. w \in View /\ w.reconf \in [Nodes -> Reconf] /\ w.demote \in SUBSET Nodes
      /\ n \in Nodes /\ w.addr \in W /\ ToMasters(w.cmds, W)
  BY <1>1 DEF Sound, View, Masters
<1>3. Observe(v, n) = u BY DEF Observe
<1> HIDE DEF w
<1>4. r \in [Nodes -> Reconf] BY <1>2 DEF Reconf
<1> HIDE DEF r
<1>5. u \in View BY <1>2, <1>4 DEF View, Phases
<1>6. ~w.leads BY <1>1 DEF Sound, Pointer, InProgress
<1>7. /\ u.phase = "detect_end" /\ u.promoted = n /\ u.slaves = w.slaves
      /\ u.leads = w.leads /\ u.addr = w.addr /\ u.cmds = w.cmds
  BY <1>2 DEF View
<1> HIDE DEF u
<1>8. n # None BY <1>2, SentinelAssumption
<1>9. Pointer(u) BY <1>1, <1>6, <1>7, <1>8 DEF Pointer, InProgress, Holding
<1>10. Masters(u, W) BY <1>2, <1>7 DEF Masters
<1> QED BY <1>3, <1>5, <1>7, <1>9, <1>10 DEF Stable, Sound

\* A slave n that says it is a master is one, so it may be followed.
LEMMA SlaveIsMasterSound ==
    ASSUME NEW W, NEW v, Stable(v, W), NEW n \in v.slaves, n \in W,
           NEW wait, NEW trust, NEW kept
    PROVE  Stable(SlaveIsMaster(v, n, wait, trust, kept), W)
<1> DEFINE u == [v EXCEPT !.seen = @ \union {n}]
           c == Sending(u.cmds, {n}, v.addr)
           sent == [u EXCEPT !.cmds = c]
           blank == Cut(v.cmds, {n}, kept)
           gone == [v EXCEPT !.slaves = @ \ {n}, !.sdown = @ \ {n},
                             !.demote = @ \ {n}, !.seen = @ \ {n}, !.cmds = blank]
           known == [u EXCEPT !.demote = @ \ {n}]
           follow == [u EXCEPT !.phase = "reconf"]
           res == SlaveIsMaster(v, n, wait, trust, kept)
<1>1. v \in View /\ n \in Nodes /\ v.addr \in Nodes /\ v.addr \in W
      /\ v.cmds \in [Nodes -> Seq(Nodes)] /\ ToMasters(v.cmds, W)
  BY DEF Stable, Sound, View, Masters
<1>2. Stable(u, W) /\ u.slaves = v.slaves /\ u.cmds = v.cmds /\ u.phase = v.phase
      /\ u.addr = v.addr /\ u \in View
  <2>1. u \in View BY <1>1 DEF View
  <2>2. /\ u.addr = v.addr /\ u.slaves = v.slaves /\ u.phase = v.phase
        /\ u.leads = v.leads /\ u.promoted = v.promoted /\ u.reconf = v.reconf
        /\ u.cmds = v.cmds
    BY <1>1 DEF View
  <2> HIDE DEF u
  <2> QED BY <2>1, <2>2, SameSound DEF Stable
<1>3. \/ res = u \/ res = sent \/ res = known
      \/ ~InProgress(v) /\ res = gone
      \/ PromotionSeen(v, n) /\ res = follow
      \/ res = Observe(u, n)
  BY DEF SlaveIsMaster, SendTo, Sending
<1> HIDE DEF u, res
<1>4. Stable(sent, W)
  <2>1. c \in [Nodes -> Seq(Nodes)] /\ ToMasters(c, W) BY <1>1, <1>2, SendMaster
  <2> HIDE DEF c
  <2>2. sent \in View BY <1>2, <2>1 DEF View
  <2>3. /\ sent.addr = u.addr /\ sent.slaves = u.slaves /\ sent.phase = u.phase
        /\ sent.leads = u.leads /\ sent.promoted = u.promoted
        /\ sent.reconf = u.reconf /\ sent.cmds = c
    BY <1>2 DEF View
  <2> HIDE DEF sent
  <2>4. Pointer(sent) BY <1>2, <2>3 DEF Stable, Sound, Pointer, InProgress
  <2>5. Masters(sent, W) BY <1>2, <2>1, <2>3 DEF Stable, Sound, Masters
  <2> QED BY <1>2, <2>2, <2>3, <2>4, <2>5 DEF Stable, Sound
<1>5. Stable(known, W)
  <2>1. known \in View BY <1>2 DEF View
  <2>2. /\ known.addr = u.addr /\ known.slaves = u.slaves /\ known.phase = u.phase
        /\ known.leads = u.leads /\ known.promoted = u.promoted
        /\ known.reconf = u.reconf /\ known.cmds = u.cmds
    BY <1>2 DEF View
  <2> HIDE DEF known
  <2> QED BY <1>2, <2>1, <2>2, SameSound DEF Stable
<1>6. ASSUME ~InProgress(v) PROVE Stable(gone, W)
  <2>1. blank \in [Nodes -> Seq(Nodes)] /\ ToMasters(blank, W)
    BY <1>1, CutSound
  <2> HIDE DEF blank
  <2>2. gone \in View BY <1>1, <2>1 DEF View
  <2>3. /\ gone.addr = v.addr /\ gone.phase = v.phase
        /\ gone.leads = v.leads /\ gone.promoted = v.promoted
        /\ gone.reconf = v.reconf /\ gone.cmds = blank
    BY <1>1 DEF View
  <2> HIDE DEF gone
  <2>4. v.promoted = None BY <1>6 DEF Stable, Sound, Pointer, InProgress, Holding
  <2>5. Pointer(gone) BY <2>3, <2>4 DEF Stable, Sound, Pointer, InProgress
  <2>6. Masters(gone, W) BY <2>1, <2>3 DEF Stable, Sound, Masters
  <2> QED BY <2>2, <2>3, <2>5, <2>6 DEF Stable, Sound
<1>7. ASSUME PromotionSeen(v, n) PROVE Stable(follow, W)
  <2>1. follow \in View BY <1>2 DEF View, Phases
  <2>2. /\ follow.addr = u.addr /\ follow.slaves = u.slaves
        /\ follow.phase = "reconf" /\ follow.leads = u.leads
        /\ follow.promoted = u.promoted /\ follow.cmds = u.cmds
        /\ u.leads = v.leads /\ u.promoted = v.promoted
    BY <1>1, <1>2 DEF View, u
  <2> HIDE DEF follow
  <2>3. n # None /\ follow.promoted = n /\ follow.leads
    BY <1>1, <1>7, <2>2, SentinelAssumption DEF PromotionSeen
  <2>4. Pointer(follow) BY <1>2, <2>2, <2>3 DEF Pointer, InProgress, Holding
  <2>5. Masters(follow, W) BY <1>1, <1>2, <2>2, <2>3 DEF Masters
  <2> QED BY <2>1, <2>2, <2>4, <2>5 DEF Stable, Sound
<1>8. Stable(Observe(u, n), W) BY <1>2, ObserveSound
<1> QED BY <1>2, <1>3, <1>4, <1>5, <1>6, <1>7, <1>8 DEF res

\* A slave that says it is one.
LEMMA SlaveIsSlaveSound ==
    ASSUME NEW W, NEW v, Stable(v, W), NEW n \in v.slaves, NEW up
    PROVE  Stable(SlaveIsSlave(v, n, up), W)
<1> DEFINE u == [v EXCEPT !.seen = @ \union {n}]
           sent == v.reconf[n] = "sent" /\ role[n] = v.promoted
           next == IF up /\ (sent \/ v.reconf[n] = "inprog") THEN "done"
                   ELSE IF sent THEN "inprog" ELSE v.reconf[n]
           r == [v.reconf EXCEPT ![n] = next]
           w == [v EXCEPT !.seen = @ \union {n}, !.demote = @ \ {n}, !.reconf = r]
<1>1. v \in View /\ n \in Nodes /\ v.reconf \in [Nodes -> Reconf]
  BY DEF Stable, Sound, View
<1>2. next \in Reconf /\ (next # "no" => v.reconf[n] # "no") BY <1>1 DEF Reconf
<1>3. SlaveIsSlave(v, n, up) \in {u, w}
  BY <1>1 DEF SlaveIsSlave, View
<1> HIDE DEF next
<1>4. r \in [Nodes -> Reconf] /\ \A k \in Nodes : r[k] # "no" => v.reconf[k] # "no"
  BY <1>1, <1>2
<1> HIDE DEF r
<1>5. u \in View /\ w \in View BY <1>1, <1>4 DEF View
<1>6. /\ u.addr = v.addr /\ u.slaves = v.slaves /\ u.phase = v.phase
      /\ u.leads = v.leads /\ u.promoted = v.promoted /\ u.reconf = v.reconf
      /\ u.cmds = v.cmds
  BY <1>1 DEF View
<1>7. /\ w.addr = v.addr /\ w.slaves = v.slaves /\ w.phase = v.phase
      /\ w.leads = v.leads /\ w.promoted = v.promoted /\ w.reconf = r
      /\ w.cmds = v.cmds
  BY <1>1 DEF View
<1> HIDE DEF u, w
<1>8. Stable(u, W) BY <1>5, <1>6, SameSound DEF Stable
<1>9. Stable(w, W)
  <2>1. Pointer(w) BY <1>4, <1>7 DEF Stable, Sound, Pointer, InProgress
  <2>2. Masters(w, W) BY <1>7 DEF Stable, Sound, Masters
  <2> QED BY <1>5, <1>7, <2>1, <2>2 DEF Stable, Sound
<1> QED BY <1>3, <1>8, <1>9

-----------------------------------------------------------------------------
(* The actions *)

\* The view of one sentinel changes.
LEMMA PutInv ==
    ASSUME IInv, NEW s \in Sentinels, NEW u, Stable(u, wasMaster), Put(s, u),
           UNCHANGED <<role, config, wasMaster>>,
           faults' \in 0..MaxFaults, delays' \in 0..MaxDelays
    PROVE  IInv'
<1>1. view \in [Sentinels -> View] /\ u \in View BY DEF IInv, TypeOK, Stable, Sound
<1>2. view' = [view EXCEPT ![s] = u] BY DEF Put
<1>3. view' \in [Sentinels -> View] BY <1>1, <1>2
<1>4. \A t \in Sentinels : Stable(view'[t], wasMaster)
  BY <1>1, <1>2 DEF IInv
<1>5. role' = role /\ config' = config /\ wasMaster' = wasMaster OBVIOUS
<1>6. TypeOK' BY <1>3, <1>5 DEF IInv, TypeOK
<1> QED BY <1>4, <1>5, <1>6 DEF IInv

\* One more fault fits its bound.
LEMMA FaultCounted ==
    ASSUME IInv, faults < MaxFaults, faults' = faults + 1
    PROVE  faults' \in 0..MaxFaults
<1>1. faults \in 0..MaxFaults /\ MaxFaults \in Nat
  BY SentinelAssumption DEF IInv, TypeOK
<1> QED BY <1>1

\* So does one more link whose commands outlive it.
LEMMA OutliveCounted ==
    ASSUME IInv, NEW v, NEW kept \in Kept(v), Outlive(kept)
    PROVE  delays' \in 0..MaxDelays
<1>1. delays \in 0..MaxDelays /\ MaxDelays \in Nat
  BY SentinelAssumption DEF IInv, TypeOK
<1> QED BY <1>1 DEF Kept, Outlive

LEMMA ViewStable ==
    ASSUME IInv, NEW s \in Sentinels
    PROVE  /\ Stable(view[s], wasMaster) /\ view[s] \in View
           /\ faults \in 0..MaxFaults /\ delays \in 0..MaxDelays
BY DEF IInv, TypeOK

LEMMA TimerInv ==
    ASSUME IInv, NEW s \in Sentinels, Timer(s)
    PROVE  IInv'
<1>1. PICK late \in Lates(view[s]), dead \in Deads(view[s]), kept \in Kept(view[s]),
           old \in SUBSET {t \in view[s].peers : view[s].vote[t] # "none"} :
         /\ Handle(s, Monitor(view[s], old), late, dead, kept)
         /\ delays' = IF dead \/ (late /\ view[s].phase # "wait_start") \/ kept # {}
                      THEN delays + 1 ELSE delays
  BY DEF Timer
<1>2. Stable(Monitor(view[s], old), wasMaster) BY ViewStable, MonitorSound
<1>3. PICK u : Stable(u, wasMaster) /\ Put(s, u) BY <1>1, <1>2, HandleStable
<1>4. delays \in 0..MaxDelays /\ MaxDelays \in Nat
      /\ faults \in 0..MaxFaults
  BY ViewStable, SentinelAssumption
<1>5. dead \/ (late /\ view[s].phase # "wait_start") \/ kept # {} => delays < MaxDelays
  BY DEF Lates, Deads, Kept
<1>6. delays' \in 0..MaxDelays BY <1>1, <1>4, <1>5
<1> QED BY <1>3, <1>4, <1>6, PutInv DEF Timer

LEMMA TiltInv ==
    ASSUME IInv, NEW s \in Sentinels, EnterTilt(s) \/ LeaveTilt(s)
    PROVE  IInv'
<1> DEFINE v == view[s]
           u(b) == [v EXCEPT !.tilt = b]
<1>1. Stable(v, wasMaster) /\ v \in View /\ faults \in 0..MaxFaults
      /\ delays \in 0..MaxDelays
  BY ViewStable
<1> HIDE DEF v
<1>2. ASSUME NEW b \in BOOLEAN PROVE Stable(u(b), wasMaster)
  <2>1. u(b) \in View BY <1>1 DEF View
  <2>2. /\ u(b).addr = v.addr /\ u(b).slaves = v.slaves /\ u(b).phase = v.phase
        /\ u(b).leads = v.leads /\ u(b).promoted = v.promoted
        /\ u(b).reconf = v.reconf /\ u(b).cmds = v.cmds
    BY <1>1 DEF View
  <2> HIDE DEF u
  <2> QED BY <1>1, <2>1, <2>2, SameSound DEF Stable
<1>3. CASE EnterTilt(s)
  <2>1. Put(s, u(TRUE)) BY <1>3 DEF EnterTilt, v
  <2>2. faults' \in 0..MaxFaults BY <1>3, FaultCounted DEF EnterTilt
  <2> HIDE DEF u
  <2> QED BY <1>1, <1>2, <1>3, <2>1, <2>2, PutInv DEF EnterTilt
<1>4. CASE LeaveTilt(s)
  <2>1. Put(s, u(FALSE)) BY <1>4 DEF LeaveTilt, v
  <2> HIDE DEF u
  <2> QED BY <1>1, <1>2, <1>4, <2>1, PutInv DEF LeaveTilt
<1> QED BY <1>3, <1>4

LEMMA CommandInv ==
    ASSUME IInv, NEW s \in Sentinels, ForceFailover(s) \/ ResetCommand(s)
    PROVE  IInv'
<1> DEFINE v == view[s]
<1>1. Stable(v, wasMaster) /\ v \in View /\ faults \in 0..MaxFaults
      /\ delays \in 0..MaxDelays
  BY ViewStable
<1>2. faults' \in 0..MaxFaults BY FaultCounted DEF ForceFailover, ResetCommand
<1>3. CASE ForceFailover(s)
  <2> DEFINE u == [v EXCEPT !.phase = "wait_start", !.leads = TRUE, !.force = TRUE]
  <2>1. v.phase = "none" BY <1>3 DEF ForceFailover, InProgress
  <2>2. Put(s, u) BY <1>1, <1>3 DEF ForceFailover, StartFailover, View
  <2> HIDE DEF v
  <2>3. u \in View BY <1>1 DEF View, Phases
  <2>4. /\ u.addr = v.addr /\ u.slaves = v.slaves /\ u.phase = "wait_start"
        /\ u.leads = TRUE /\ u.promoted = v.promoted /\ u.reconf = v.reconf
        /\ u.cmds = v.cmds
    BY <1>1 DEF View
  <2> HIDE DEF u
  <2>5. Pointer(u)
    BY <1>1, <2>1, <2>4 DEF Stable, Sound, Pointer, InProgress, Holding
  <2>6. Masters(u, wasMaster) BY <1>1, <2>4 DEF Stable, Sound, Masters
  <2>7. Stable(u, wasMaster) BY <2>3, <2>4, <2>5, <2>6 DEF Stable, Sound
  <2> QED BY <1>1, <1>2, <1>3, <2>2, <2>7, PutInv DEF ForceFailover
<1>4. CASE ResetCommand(s)
  <2>1. /\ v.addr \in Nodes /\ v.addr \in wasMaster
        /\ v.cmds \in [Nodes -> Seq(Nodes)] /\ ToMasters(v.cmds, wasMaster)
    BY <1>1 DEF Stable, Sound, View, Masters
  <2>2. PICK kept \in Kept(v) :
           Put(s, ResetTo(v, v.addr, v.cmds, kept)) /\ Outlive(kept)
    BY <1>4 DEF ResetCommand
  <2> HIDE DEF v
  <2>3. Stable(ResetTo(v, v.addr, v.cmds, kept), wasMaster) BY <1>1, <2>1, ResetSound
  <2>4. delays' \in 0..MaxDelays BY <2>2, OutliveCounted
  <2> QED BY <1>2, <1>4, <2>2, <2>3, <2>4, PutInv DEF ResetCommand
<1> QED BY <1>3, <1>4

LEMMA PeerInv ==
    ASSUME IInv, NEW s \in Sentinels, NEW t \in Sentinels,
           MasterDownReply(s, t) \/ Hello(s, t)
    PROVE  IInv'
<1> DEFINE v == view[s]
           reply(a) == [v EXCEPT !.vote[t] = a]
           hello == [v EXCEPT !.peers = @ \union {t}, !.vote[t] = "none"]
<1>1. Stable(v, wasMaster) /\ v \in View /\ faults \in 0..MaxFaults
      /\ delays \in 0..MaxDelays
  BY ViewStable
<1>2. CASE MasterDownReply(s, t)
  <2>1. PICK a \in {"down", "up"} : Put(s, reply(a)) BY <1>2 DEF MasterDownReply
  <2> DEFINE u == reply(a)
  <2> HIDE DEF v
  <2>2. u \in View BY <1>1 DEF View, Answer
  <2>3. /\ u.addr = v.addr /\ u.slaves = v.slaves /\ u.phase = v.phase
        /\ u.leads = v.leads /\ u.promoted = v.promoted /\ u.reconf = v.reconf
        /\ u.cmds = v.cmds
    BY <1>1 DEF View
  <2>4. Put(s, u) BY <2>1
  <2> HIDE DEF u
  <2>5. Stable(u, wasMaster) BY <1>1, <2>2, <2>3, SameSound DEF Stable
  <2> QED BY <1>1, <1>2, <2>4, <2>5, PutInv DEF MasterDownReply
<1>3. CASE Hello(s, t)
  <2>1. Put(s, hello) BY <1>3 DEF Hello
  <2> HIDE DEF v
  <2>2. hello \in View BY <1>1 DEF View, Answer
  <2>3. /\ hello.addr = v.addr /\ hello.slaves = v.slaves /\ hello.phase = v.phase
        /\ hello.leads = v.leads /\ hello.promoted = v.promoted
        /\ hello.reconf = v.reconf /\ hello.cmds = v.cmds
    BY <1>1 DEF View
  <2> HIDE DEF hello
  <2>4. Stable(hello, wasMaster) BY <1>1, <2>2, <2>3, SameSound DEF Stable
  <2> QED BY <1>1, <1>3, <2>1, <2>4, PutInv DEF Hello
<1> QED BY <1>2, <1>3

LEMMA InfoInv ==
    ASSUME IInv, NEW s \in Sentinels, NEW n \in Nodes, Info(s, n)
    PROVE  IInv'
<1> DEFINE v == view[s]
<1>1. Stable(v, wasMaster) /\ v \in View /\ faults \in 0..MaxFaults
      /\ delays \in 0..MaxDelays /\ role[n] \in Nodes /\ role[n] \in wasMaster
  BY ViewStable DEF IInv, TypeOK
<1>2. CASE InfoOfMaster(s, n)
  <2> DEFINE found == {k \in Nodes \ {n} : role[k] = n} \ v.slaves
             u == [v EXCEPT !.slaves = @ \union found]
  <2>1. \/ Put(s, u) /\ delays' = delays
        \/ \E kept \in Kept(v) : /\ Put(s, ResetTo(v, role[n], v.cmds, kept))
                                 /\ Outlive(kept)
    BY <1>2 DEF InfoOfMaster, Outlive
  <2> HIDE DEF v
  <2>2. u \in View BY <1>1 DEF View
  <2>3. /\ u.addr = v.addr /\ v.slaves \subseteq u.slaves /\ u.phase = v.phase
        /\ u.leads = v.leads /\ u.promoted = v.promoted /\ u.reconf = v.reconf
        /\ u.cmds = v.cmds
    BY <1>1 DEF View
  <2> HIDE DEF u
  <2>4. Stable(u, wasMaster) BY <1>1, <2>2, <2>3, SameSound DEF Stable
  <2>5. CASE Put(s, u) /\ delays' = delays
    BY <1>1, <2>4, <2>5, PutInv DEF Info
  <2>6. ASSUME NEW kept \in Kept(v), Put(s, ResetTo(v, role[n], v.cmds, kept)),
               Outlive(kept)
        PROVE  IInv'
    <3>1. v.cmds \in [Nodes -> Seq(Nodes)] /\ ToMasters(v.cmds, wasMaster)
      BY <1>1 DEF Stable, Sound, View, Masters
    <3>2. Stable(ResetTo(v, role[n], v.cmds, kept), wasMaster)
      BY <1>1, <3>1, ResetSound
    <3>3. delays' \in 0..MaxDelays BY <2>6, OutliveCounted
    <3> QED BY <1>1, <2>6, <3>2, <3>3, PutInv DEF Info
  <2> QED BY <2>1, <2>5, <2>6
<1>3. CASE InfoOfSlave(s, n)
  <2>1. n \in v.slaves BY <1>3 DEF InfoOfSlave
  <2>2. PICK kept \in Kept(v) :
           \E u \in Reports(v, n, kept) : Put(s, u) /\ Outlive(kept)
    BY <1>3 DEF InfoOfSlave
  <2> HIDE DEF v
  <2>3. ASSUME role[n] = n, NEW a \in BOOLEAN, NEW b \in BOOLEAN
        PROVE  Stable(SlaveIsMaster(v, n, a, b, kept), wasMaster)
    BY <1>1, <2>1, <2>3, SlaveIsMasterSound
  <2>4. ASSUME NEW a \in BOOLEAN
        PROVE  Stable(SlaveIsSlave(v, n, a), wasMaster)
    BY <1>1, <2>1, SlaveIsSlaveSound
  <2>5. PICK u \in Reports(v, n, kept) : Put(s, u) /\ Outlive(kept) BY <2>2
  <2>6. Stable(u, wasMaster) BY <2>3, <2>4, <2>5 DEF Reports
  <2>7. delays' \in 0..MaxDelays BY <2>5, OutliveCounted
  <2> QED BY <1>1, <2>5, <2>6, <2>7, PutInv DEF Info
<1> QED BY <1>2, <1>3 DEF Info

\* More servers may have been masters.
LEMMA MoreMasters ==
    ASSUME NEW W, NEW X, W \subseteq X, NEW v, Stable(v, W)
    PROVE  Stable(v, X)
BY DEF Stable, Sound, Masters, ToMasters

\* A server reads its oldest SLAVEOF and becomes a master or follows one.
LEMMA DeliverInv ==
    ASSUME IInv, NEW s \in Sentinels, NEW n \in Nodes, Deliver(s, n)
    PROVE  IInv'
<1> DEFINE v == view[s]
           q == v.cmds[n]
           c == [v.cmds EXCEPT ![n] = Tail(q)]
           u == [v EXCEPT !.cmds = c]
           X == wasMaster'
<1>1. Stable(v, wasMaster) /\ v \in View /\ v.cmds \in [Nodes -> Seq(Nodes)]
      /\ ToMasters(v.cmds, wasMaster)
  BY ViewStable DEF Stable, Sound, View, Masters
<1>2. /\ q # <<>> /\ role' = [role EXCEPT ![n] = Head(q)]
      /\ X = IF Head(q) = n THEN wasMaster \union {n} ELSE wasMaster
      /\ Put(s, u) /\ UNCHANGED <<config, faults, delays>>
  BY DEF Deliver
<1>3. /\ q \in Seq(Nodes) /\ Head(q) \in ToSet(q) /\ Head(q) \in Nodes
      /\ Tail(q) \in Seq(Nodes) /\ ToSet(Tail(q)) \subseteq ToSet(q)
  BY <1>1, <1>2, LinkElements
<1>4. wasMaster \subseteq X /\ X \subseteq Nodes /\ Head(q) \in X
  BY <1>1, <1>2, <1>3 DEF ToMasters, IInv, TypeOK
<1>5. c \in [Nodes -> Seq(Nodes)] /\ ToMasters(c, wasMaster)
  BY <1>1, <1>3 DEF ToMasters
<1> HIDE DEF v, c, X
<1>6. u \in View BY <1>1, <1>5 DEF View
<1>7. /\ u.addr = v.addr /\ u.slaves = v.slaves /\ u.phase = v.phase
      /\ u.leads = v.leads /\ u.promoted = v.promoted /\ u.reconf = v.reconf
      /\ u.cmds = c
  BY <1>1 DEF View
<1> HIDE DEF u, q
<1>8. Stable(u, wasMaster)
  <2>1. Pointer(u) BY <1>1, <1>7 DEF Stable, Sound, Pointer, InProgress
  <2>2. Masters(u, wasMaster) BY <1>1, <1>5, <1>7 DEF Stable, Sound, Masters
  <2> QED BY <1>1, <1>6, <1>7, <2>1, <2>2 DEF Stable, Sound
<1>9. view \in [Sentinels -> View] /\ role \in [Nodes -> Nodes] BY DEF IInv, TypeOK
<1>10. view' = [view EXCEPT ![s] = u] BY <1>2 DEF Put
<1>11. view' \in [Sentinels -> View] BY <1>6, <1>9, <1>10
<1>12. \A t \in Sentinels : Stable(view'[t], X)
  <2> TAKE t \in Sentinels
  <2>1. Stable(view'[t], wasMaster) BY <1>8, <1>9, <1>10 DEF IInv
  <2> QED BY <1>4, <2>1, MoreMasters
<1>13. role' \in [Nodes -> Nodes] /\ \A k \in Nodes : role'[k] \in X
  BY <1>2, <1>3, <1>4, <1>9 DEF IInv
<1>14. TypeOK' BY <1>2, <1>4, <1>11, <1>13 DEF IInv, TypeOK, X
<1>15. \A k \in Nodes : config'[k] \in X BY <1>2, <1>4 DEF IInv
<1> QED BY <1>12, <1>13, <1>14, <1>15 DEF IInv, X

\* A link is lost, with the commands on it or not.
LEMMA UnlinkedSound ==
    ASSUME NEW W, NEW v, Stable(v, W), NEW n \in Nodes, NEW kept
    PROVE  /\ Stable(Unlinked(v, n, kept), W)
           /\ Stable([Unlinked(v, n, kept) EXCEPT !.seen = @ \ {n}], W)
<1> DEFINE c == Cut(v.cmds, {n}, kept)
           u == [v EXCEPT !.lost = @ \union {n}, !.cmds = c]
           w == [u EXCEPT !.seen = @ \ {n}]
<1>1. v \in View /\ v.cmds \in [Nodes -> Seq(Nodes)] /\ ToMasters(v.cmds, W)
  BY DEF Stable, Sound, View, Masters
<1>2. Unlinked(v, n, kept) = u BY DEF Unlinked
<1>3. c \in [Nodes -> Seq(Nodes)] /\ ToMasters(c, W) BY <1>1, CutSound
<1> HIDE DEF c
<1>4. u \in View BY <1>1, <1>3 DEF View
<1>5. /\ u.addr = v.addr /\ u.slaves = v.slaves /\ u.phase = v.phase
      /\ u.leads = v.leads /\ u.promoted = v.promoted /\ u.reconf = v.reconf
      /\ u.cmds = c
  BY <1>1 DEF View
<1> HIDE DEF u
<1>6. Pointer(u) BY <1>5 DEF Stable, Sound, Pointer, InProgress
<1>7. Masters(u, W) BY <1>3, <1>5 DEF Stable, Sound, Masters
<1>8. Stable(u, W) BY <1>4, <1>5, <1>6, <1>7 DEF Stable, Sound
<1>9. w \in View BY <1>4 DEF View
<1>10. /\ w.addr = u.addr /\ w.slaves = u.slaves /\ w.phase = u.phase
       /\ w.leads = u.leads /\ w.promoted = u.promoted /\ w.reconf = u.reconf
       /\ w.cmds = u.cmds
  BY <1>4 DEF View
<1> HIDE DEF w
<1>11. Stable(w, W) BY <1>8, <1>9, <1>10, SameSound DEF Stable
<1> QED BY <1>2, <1>8, <1>11 DEF w

LEMMA LinkInv ==
    ASSUME IInv, NEW s \in Sentinels, NEW n \in Nodes,
           Disconnect(s, n) \/ Reconnect(s, n)
    PROVE  IInv'
<1> DEFINE v == view[s]
<1>1. Stable(v, wasMaster) /\ v \in View /\ faults \in 0..MaxFaults
      /\ delays \in 0..MaxDelays
  BY ViewStable
<1>2. CASE Disconnect(s, n)
  <2>1. faults' \in 0..MaxFaults BY <1>2, FaultCounted DEF Disconnect
  <2>2. PICK kept \in Kept(v) : Put(s, Unlinked(v, n, kept)) /\ Outlive(kept)
    BY <1>2 DEF Disconnect
  <2>3. Stable(Unlinked(v, n, kept), wasMaster) BY <1>1, UnlinkedSound
  <2>4. delays' \in 0..MaxDelays BY <2>2, OutliveCounted
  <2> QED BY <1>2, <2>1, <2>2, <2>3, <2>4, PutInv DEF Disconnect
<1>3. CASE Reconnect(s, n)
  <2> DEFINE u == [v EXCEPT !.lost = @ \ {n}]
  <2>1. Put(s, u) BY <1>3 DEF Reconnect
  <2> HIDE DEF v
  <2>2. u \in View BY <1>1 DEF View
  <2>3. /\ u.addr = v.addr /\ u.slaves = v.slaves /\ u.phase = v.phase
        /\ u.leads = v.leads /\ u.promoted = v.promoted /\ u.reconf = v.reconf
        /\ u.cmds = v.cmds
    BY <1>1 DEF View
  <2> HIDE DEF u
  <2>4. Stable(u, wasMaster) BY <1>1, <2>2, <2>3, SameSound DEF Stable
  <2> QED BY <1>1, <1>3, <2>1, <2>4, PutInv DEF Reconnect
<1> QED BY <1>2, <1>3

LEMMA StopInv ==
    ASSUME IInv, NEW n \in Nodes, Stop(n)
    PROVE  IInv'
<1> DEFINE w(s) == [Unlinked(view[s], n, {}) EXCEPT !.seen = @ \ {n}]
<1>1. faults' \in 0..MaxFaults BY FaultCounted DEF Stop
<1>2. \A s \in Sentinels : Stable(w(s), wasMaster)
  BY UnlinkedSound DEF IInv
<1>3. view' = [s \in Sentinels |-> w(s)] BY DEF Stop
<1> HIDE DEF w
<1>4. view' \in [Sentinels -> View] BY <1>2, <1>3 DEF Stable, Sound
<1>5. \A s \in Sentinels : Stable(view'[s], wasMaster) BY <1>2, <1>3
<1>6. role' = [role EXCEPT ![n] = config[n]]
      /\ UNCHANGED <<config, wasMaster, delays>>
  BY DEF Stop
<1>7. role' \in [Nodes -> Nodes] /\ \A k \in Nodes : role'[k] \in wasMaster
  BY <1>6 DEF IInv, TypeOK
<1>8. TypeOK' BY <1>1, <1>4, <1>6, <1>7 DEF IInv, TypeOK
<1> QED BY <1>5, <1>6, <1>7, <1>8 DEF IInv

LEMMA InitInv == Init => IInv
<1> SUFFICES ASSUME Init PROVE IInv OBVIOUS
<1> DEFINE f == FreshView(FirstMaster, {}, FALSE)
           w(s) == [f EXCEPT !.slaves = Nodes \ {FirstMaster},
                             !.seen = Nodes \ {FirstMaster},
                             !.peers = Sentinels \ {s}]
<1>1. FirstMaster \in Nodes /\ wasMaster = {FirstMaster}
      /\ MaxFaults \in Nat /\ MaxDelays \in Nat
  BY SentinelAssumption DEF Init
<1>2. Stable(f, wasMaster) /\ f.slaves = {}
  <2>1. f.slaves = {} BY DEF FreshView
  <2>2. {} \in SUBSET Nodes /\ FALSE \in BOOLEAN /\ FirstMaster \in wasMaster
    BY <1>1
  <2> QED BY <1>1, <2>1, <2>2, FreshSound
<1>3. view = [s \in Sentinels |-> w(s)] BY DEF Init
<1> HIDE DEF f
<1>4. ASSUME NEW s \in Sentinels PROVE Stable(w(s), wasMaster)
  <2> DEFINE u == w(s)
  <2>1. f \in View BY <1>2 DEF Stable, Sound
  <2>2. u \in View BY <2>1 DEF View
  <2>3. /\ u.addr = f.addr /\ f.slaves \subseteq u.slaves /\ u.phase = f.phase
        /\ u.leads = f.leads /\ u.promoted = f.promoted /\ u.reconf = f.reconf
        /\ u.cmds = f.cmds
    BY <1>2, <2>1 DEF View
  <2> HIDE DEF u
  <2>4. Stable(u, wasMaster) BY <1>2, <2>2, <2>3, SameSound DEF Stable
  <2> QED BY <2>4 DEF u
<1> HIDE DEF w
<1>5. \A s \in Sentinels : Stable(view[s], wasMaster) BY <1>3, <1>4
<1>6. view \in [Sentinels -> View] BY <1>3, <1>4 DEF Stable, Sound
<1>7. role = [n \in Nodes |-> FirstMaster] /\ config = role
      /\ faults = 0 /\ delays = 0
  BY DEF Init
<1>8. role \in [Nodes -> Nodes] /\ \A n \in Nodes : role[n] \in wasMaster
  BY <1>1, <1>7
<1>9. 0 \in 0..MaxFaults /\ 0 \in 0..MaxDelays BY <1>1
<1>10. TypeOK BY <1>1, <1>6, <1>7, <1>8, <1>9 DEF TypeOK
<1> QED BY <1>5, <1>7, <1>8, <1>10 DEF IInv

LEMMA StepInv == IInv /\ [Next]_vars => IInv'
<1> SUFFICES ASSUME IInv, [Next]_vars PROVE IInv' OBVIOUS
<1>1. ASSUME NEW s \in Sentinels,
             \/ Timer(s) \/ EnterTilt(s) \/ LeaveTilt(s)
             \/ ForceFailover(s) \/ ResetCommand(s)
      PROVE  IInv'
  BY <1>1, TimerInv, TiltInv, CommandInv
<1>2. ASSUME NEW s \in Sentinels, NEW t \in Sentinels,
             MasterDownReply(s, t) \/ Hello(s, t)
      PROVE  IInv'
  BY <1>2, PeerInv
<1>3. ASSUME NEW s \in Sentinels, NEW n \in Nodes,
             Info(s, n) \/ Deliver(s, n) \/ Disconnect(s, n) \/ Reconnect(s, n)
      PROVE  IInv'
  BY <1>3, InfoInv, DeliverInv, LinkInv
<1>4. ASSUME NEW n \in Nodes, Stop(n) PROVE IInv' BY <1>4, StopInv
<1>5. CASE UNCHANGED vars
  <2>1. TypeOK' BY <1>5 DEF IInv, TypeOK, vars
  <2>2. view' = view /\ role' = role /\ config' = config /\ wasMaster' = wasMaster
    BY <1>5 DEF vars
  <2> QED BY <2>1, <2>2 DEF IInv
<1> QED BY <1>1, <1>2, <1>3, <1>4, <1>5 DEF Next

LEMMA Inductive == Spec => []IInv
BY InitInv, StepInv, PTL DEF Spec

-----------------------------------------------------------------------------
(* Theorems *)

\* Every view keeps its type, so that the promoted slave it switches to is a
\* server and never the NULL of promoted_slave.
THEOREM TypeCorrect == Spec => []TypeOK
<1>1. IInv => TypeOK BY DEF IInv
<1> QED BY <1>1, Inductive, PTL

\* promoted_slave, the phase and the flags of the slaves agree in every view:
\* no state of the failover follows a pointer that is NULL or to a slave that
\* was removed, however timers, INFO replies, resets and tilts interleave.
THEOREM PromotedIsSlaveHolds == Spec => []PromotedIsSlave
<1>1. IInv => PromotedIsSlave
  <2> SUFFICES ASSUME IInv, NEW s \in Sentinels
               PROVE  LET v == view[s]
                      IN  /\ v.promoted # None => v.promoted \in v.slaves
                          /\ (v.promoted # None) <=>
                                (v.phase \in {"send_noone", "wait_promotion",
                                              "reconf", "detect_end"})
                          /\ \A n \in v.slaves : v.reconf[n] # "no" =>
                                v.promoted # None
                          /\ v.leads => InProgress(v)
    BY DEF PromotedIsSlave
  <2> DEFINE v == view[s]
  <2>1. Pointer(v) /\ v.phase # "update_config" /\ v.slaves \subseteq Nodes
    BY DEF IInv, Stable, Sound, View
  <2> HIDE DEF v
  <2>2. /\ v.promoted # None => v.promoted \in v.slaves
        /\ (v.promoted # None) <=>
              (v.phase \in {"send_noone", "wait_promotion", "reconf", "detect_end"})
        /\ v.leads => InProgress(v)
    BY <2>1 DEF Pointer, Holding
  <2>3. \A n \in v.slaves : v.reconf[n] # "no" => v.promoted # None
    BY <2>1 DEF Pointer, Holding
  <2> QED BY <2>2, <2>3 DEF v
<1> QED BY <1>1, Inductive, PTL

\* Nobody is told to follow, and no sentinel watches or advertises as master,
\* a server that has not been one, whatever is lost, late or rebooted.
THEOREM FollowedWasMasterHolds == Spec => []FollowedWasMaster
<1>1. IInv => FollowedWasMaster
  <2> SUFFICES ASSUME IInv PROVE FollowedWasMaster OBVIOUS
  <2>1. \A s \in Sentinels : Masters(view[s], wasMaster)
    BY DEF IInv, Stable, Sound
  <2>2. \A s \in Sentinels : {view[s].addr, Advertised(view[s])} \subseteq wasMaster
    BY <2>1 DEF Masters, Advertised
  <2>3. \A s \in Sentinels, n \in Nodes :
          \A k \in Nodes : n # k /\ k \in ToSet(view[s].cmds[n]) => k \in wasMaster
    BY <2>1 DEF Masters, ToMasters
  <2> QED BY <2>2, <2>3 DEF IInv, FollowedWasMaster
<1> QED BY <1>1, Inductive, PTL
-----------------------------------------------------------------------------
(* The script queue *)

Child == [id : 1..MaxJobs, status : Status]

ScriptsType ==
    /\ scripts_queue \in Seq(Job) /\ children \in Seq(Child)
    /\ running_scripts \in 0..MaxRunning /\ scheduled \in 0..MaxJobs

\* No job is named twice.
Distinct(q) == \A i, j \in 1..Len(q) : q[i].id = q[j].id => i = j

\* The jobs that run and the processes are the same ones.
Paired(q, c) ==
    /\ \A k \in 1..Len(c) : \E i \in 1..Len(q) : q[i].running /\ q[i].id = c[k].id
    /\ \A i \in 1..Len(q) : q[i].running => \E k \in 1..Len(c) : c[k].id = q[i].id

ScriptsIInv ==
    /\ ScriptsType
    /\ Distinct(scripts_queue) /\ Distinct(children)
    /\ \A i \in 1..Len(scripts_queue) : scripts_queue[i].id <= scheduled
    /\ Paired(scripts_queue, children)
    /\ Len(scripts_queue) <= MaxQueue /\ Len(children) <= running_scripts

\* The oldest of some jobs exists.
LEMMA Oldest ==
    ASSUME NEW S \in SUBSET Nat, S # {}
    PROVE  (CHOOSE i \in S : \A k \in S : i <= k) \in S
<1>1. PICK m \in S : \A x \in S : ~ (<<x, m>> \in OpToRel(<, Nat))
  BY WFMin, NatLessThanWellFounded
<1>2. \A x \in S : ~ (x < m) BY <1>1 DEF OpToRel
<1>3. \A x \in S : m <= x BY <1>2
<1> QED BY <1>3

\* Removing the i-th element moves the ones behind it forward.
LEMMA DropProperties ==
    ASSUME NEW S, NEW q \in Seq(S), NEW i \in 1..Len(q)
    PROVE  /\ Drop(q, i) \in Seq(S) /\ Len(Drop(q, i)) = Len(q) - 1
           /\ \A k \in 1..(Len(q) - 1) :
                Drop(q, i)[k] = IF k < i THEN q[k] ELSE q[k + 1]
<1> DEFINE n == Len(q)
           a == SubSeq(q, 1, i - 1)
           b == SubSeq(q, i + 1, Len(q))
<1>1. n \in Nat /\ i \in 1..n /\ \A k \in 1..n : q[k] \in S BY LenProperties
<1>2. /\ a \in Seq(S) /\ Len(a) = i - 1 /\ \A k \in 1..(i - 1) : a[k] = q[k]
  <2>1. /\ a \in Seq(S) /\ Len(a) = IF 1 <= i - 1 THEN (i - 1) - 1 + 1 ELSE 0
        /\ \A k \in 1..((i - 1) - 1 + 1) : a[k] = q[1 + k - 1]
    <3>1. 1 \in Int /\ i - 1 \in Int /\ \A k \in 1..(i - 1) : q[k] \in S
      BY <1>1
    <3> QED BY <3>1, SubSeqProperties
  <2> HIDE DEF a
  <2> QED BY <1>1, <2>1
<1>3. /\ b \in Seq(S) /\ Len(b) = n - i /\ \A k \in 1..(n - i) : b[k] = q[i + k]
  <2>1. /\ b \in Seq(S) /\ Len(b) = IF i + 1 <= n THEN n - (i + 1) + 1 ELSE 0
        /\ \A k \in 1..(n - (i + 1) + 1) : b[k] = q[(i + 1) + k - 1]
    <3>1. i + 1 \in Int /\ n \in Int /\ \A k \in (i + 1)..n : q[k] \in S
      BY <1>1
    <3> QED BY <3>1, SubSeqProperties
  <2> HIDE DEF b
  <2> QED BY <1>1, <2>1
<1>4. Drop(q, i) = a \o b BY DEF Drop
<1> HIDE DEF a, b, n
<1>5. /\ a \o b \in Seq(S) /\ Len(a \o b) = Len(a) + Len(b)
      /\ \A k \in 1..(Len(a) + Len(b)) :
            (a \o b)[k] = IF k <= Len(a) THEN a[k] ELSE b[k - Len(a)]
  BY <1>2, <1>3, ConcatProperties
<1>6. Len(a) + Len(b) = n - 1 BY <1>1, <1>2, <1>3
<1>7. ASSUME NEW k \in 1..(n - 1)
      PROVE  (a \o b)[k] = IF k < i THEN q[k] ELSE q[k + 1]
  <2>1. (a \o b)[k] = IF k <= i - 1 THEN a[k] ELSE b[k - (i - 1)]
    BY <1>2, <1>5, <1>6
  <2>2. CASE k < i BY <1>1, <1>2, <2>1, <2>2
  <2>3. CASE ~(k < i)
    <3>1. k - (i - 1) \in 1..(n - i) /\ i + (k - (i - 1)) = k + 1
      BY <1>1, <2>3
    <3> QED BY <1>1, <1>3, <2>1, <2>3, <3>1
  <2> QED BY <2>2, <2>3
<1> QED BY <1>4, <1>5, <1>6, <1>7 DEF n

\* What is left after a removal are the other elements, once each.
LEMMA DropOthers ==
    ASSUME NEW S, NEW q \in Seq(S), NEW i \in 1..Len(q), Distinct(q)
    PROVE  /\ Distinct(Drop(q, i))
           /\ \A k \in 1..Len(Drop(q, i)) : \E p \in 1..Len(q) :
                p # i /\ Drop(q, i)[k] = q[p]
           /\ \A p \in 1..Len(q) : p # i =>
                \E k \in 1..Len(Drop(q, i)) : Drop(q, i)[k] = q[p]
<1> DEFINE n == Len(q)
           r == Drop(q, i)
<1>1. n \in Nat /\ i \in 1..n BY LenProperties
<1>2. /\ Len(r) = n - 1
      /\ \A k \in 1..(n - 1) : r[k] = IF k < i THEN q[k] ELSE q[k + 1]
  BY DropProperties
<1>3. \A x, y \in 1..n : q[x].id = q[y].id => x = y BY DEF Distinct
<1> HIDE DEF n, r
<1>4. ASSUME NEW x \in 1..(n - 1), NEW y \in 1..(n - 1), r[x].id = r[y].id
      PROVE  x = y
  <2>1. PICK u \in 1..n : r[x] = q[u] /\ u = (IF x < i THEN x ELSE x + 1)
    BY <1>1, <1>2
  <2>2. PICK w \in 1..n : r[y] = q[w] /\ w = (IF y < i THEN y ELSE y + 1)
    BY <1>1, <1>2
  <2>3. u = w BY <1>3, <1>4, <2>1, <2>2
  <2> QED BY <1>1, <2>1, <2>2, <2>3
<1>5. ASSUME NEW k \in 1..(n - 1) PROVE \E p \in 1..n : p # i /\ r[k] = q[p]
  <2>1. CASE k < i BY <1>1, <1>2, <2>1
  <2>2. CASE ~(k < i)
    <3>1. k + 1 \in 1..n /\ k + 1 # i /\ r[k] = q[k + 1] BY <1>1, <1>2, <2>2
    <3> QED BY <3>1
  <2> QED BY <2>1, <2>2
<1>6. ASSUME NEW p \in 1..n, p # i PROVE \E k \in 1..(n - 1) : r[k] = q[p]
  <2>1. CASE p < i
    <3>1. p \in 1..(n - 1) /\ r[p] = q[p] BY <1>1, <1>2, <2>1
    <3> QED BY <3>1
  <2>2. CASE ~(p < i)
    <3>1. p - 1 \in 1..(n - 1) /\ ~(p - 1 < i) /\ (p - 1) + 1 = p
      BY <1>1, <1>6, <2>2
    <3>2. r[p - 1] = q[p] BY <1>2, <3>1
    <3> QED BY <3>1, <3>2
  <2> QED BY <2>1, <2>2
<1> QED BY <1>2, <1>4, <1>5, <1>6 DEF Distinct, n, r

\* A job that does not run can go.
LEMMA DropIdle ==
    ASSUME NEW q \in Seq(Job), NEW c, NEW i \in 1..Len(q), Distinct(q),
           Paired(q, c), ~q[i].running
    PROVE  Paired(Drop(q, i), c)
<1> DEFINE r == Drop(q, i)
<1>1. /\ \A k \in 1..Len(r) : \E p \in 1..Len(q) : p # i /\ r[k] = q[p]
      /\ \A p \in 1..Len(q) : p # i => \E k \in 1..Len(r) : r[k] = q[p]
  BY DropOthers
<1> HIDE DEF r
<1>2. ASSUME NEW k \in 1..Len(c)
      PROVE  \E p \in 1..Len(r) : r[p].running /\ r[p].id = c[k].id
  <2>1. PICK p \in 1..Len(q) : q[p].running /\ q[p].id = c[k].id BY DEF Paired
  <2> QED BY <1>1, <2>1
<1>3. ASSUME NEW p \in 1..Len(r), r[p].running
      PROVE  \E k \in 1..Len(c) : c[k].id = r[p].id
  <2>1. PICK o \in 1..Len(q) : r[p] = q[o] BY <1>1
  <2>2. q[o].running BY <1>3, <2>1
  <2>3. PICK k \in 1..Len(c) : c[k].id = q[o].id BY <2>2 DEF Paired
  <2> QED BY <2>1, <2>3
<1> QED BY <1>2, <1>3 DEF Paired, r

\* A job whose process was collected can go, or wait for its retry.
LEMMA DropBoth ==
    ASSUME NEW q \in Seq(Job), NEW c \in Seq(Child), Distinct(q), Distinct(c),
           Paired(q, c), NEW i \in 1..Len(q), NEW k \in 1..Len(c),
           q[i].running, q[i].id = c[k].id
    PROVE  /\ Paired(Drop(q, i), Drop(c, k))
           /\ \A r : /\ Len(r) = Len(q) /\ ~r[i].running
                     /\ \A p \in 1..Len(q) : p # i => r[p] = q[p]
                     => Paired(r, Drop(c, k))
<1> DEFINE b == Drop(c, k)
           r == Drop(q, i)
<1>1. /\ \A x \in 1..Len(b) : \E y \in 1..Len(c) : y # k /\ b[x] = c[y]
      /\ \A y \in 1..Len(c) : y # k => \E x \in 1..Len(b) : b[x] = c[y]
  BY DropOthers
<1>2. /\ \A x \in 1..Len(r) : \E p \in 1..Len(q) : p # i /\ r[x] = q[p]
      /\ \A p \in 1..Len(q) : p # i => \E x \in 1..Len(r) : r[x] = q[p]
  BY DropOthers
<1> HIDE DEF b, r
<1>3. ASSUME NEW x \in 1..Len(b)
      PROVE  \E p \in 1..Len(q) : p # i /\ q[p].running /\ q[p].id = b[x].id
  <2>1. PICK y \in 1..Len(c) : y # k /\ b[x] = c[y] BY <1>1
  <2>2. PICK p \in 1..Len(q) : q[p].running /\ q[p].id = c[y].id BY DEF Paired
  <2>3. p # i BY <2>1, <2>2 DEF Distinct
  <2> QED BY <2>1, <2>2, <2>3
<1>4. ASSUME NEW p \in 1..Len(q), p # i, q[p].running
      PROVE  \E x \in 1..Len(b) : b[x].id = q[p].id
  <2>1. PICK y \in 1..Len(c) : c[y].id = q[p].id BY <1>4 DEF Paired
  <2>2. y # k BY <1>4, <2>1 DEF Distinct
  <2> QED BY <1>1, <2>1, <2>2
<1>5. Paired(r, b)
  <2>1. ASSUME NEW x \in 1..Len(b)
        PROVE  \E p \in 1..Len(r) : r[p].running /\ r[p].id = b[x].id
    <3>1. PICK o \in 1..Len(q) : o # i /\ q[o].running /\ q[o].id = b[x].id
      BY <1>3
    <3>2. PICK p \in 1..Len(r) : r[p] = q[o] BY <1>2, <3>1
    <3> QED BY <3>1, <3>2
  <2>2. ASSUME NEW p \in 1..Len(r), r[p].running
        PROVE  \E x \in 1..Len(b) : b[x].id = r[p].id
    <3>1. PICK o \in 1..Len(q) : o # i /\ r[p] = q[o] BY <1>2
    <3>2. q[o].running BY <2>2, <3>1
    <3>3. PICK x \in 1..Len(b) : b[x].id = q[o].id BY <1>4, <3>1, <3>2
    <3> QED BY <3>1, <3>3
  <2> QED BY <2>1, <2>2 DEF Paired
<1>6. ASSUME NEW s, Len(s) = Len(q), ~s[i].running,
             \A p \in 1..Len(q) : p # i => s[p] = q[p]
      PROVE  Paired(s, b)
  <2>1. ASSUME NEW x \in 1..Len(b)
        PROVE  \E p \in 1..Len(s) : s[p].running /\ s[p].id = b[x].id
    BY <1>3, <1>6
  <2>2. ASSUME NEW p \in 1..Len(s), s[p].running
        PROVE  \E x \in 1..Len(b) : b[x].id = s[p].id
    BY <1>4, <1>6, <2>2
  <2> QED BY <2>1, <2>2 DEF Paired
<1> QED BY <1>5, <1>6 DEF b, r

\* An event schedules a script.
LEMMA ScheduleInv ==
    ASSUME ScriptsIInv, ScheduleScript
    PROVE  ScriptsIInv'
<1> DEFINE job == [id |-> scheduled', running |-> FALSE, retry |-> 0, delayed |-> FALSE]
           q == Append(scripts_queue, job)
<1>1. /\ ScriptsType /\ Distinct(scripts_queue) /\ Distinct(children)
      /\ \A i \in 1..Len(scripts_queue) : scripts_queue[i].id <= scheduled
      /\ Paired(scripts_queue, children)
      /\ Len(scripts_queue) <= MaxQueue /\ Len(children) <= running_scripts
  BY DEF ScriptsIInv
<1>2. /\ scheduled < MaxJobs /\ scheduled' = scheduled + 1
      /\ scripts_queue' = Trimmed(q)
      /\ running_scripts' = running_scripts /\ children' = children
  BY DEF ScheduleScript
<1>3. scheduled' \in 1..MaxJobs /\ scheduled' \in 0..MaxJobs
  BY <1>1, <1>2, ScriptsAssumption DEF ScriptsType
<1>4. job \in Job /\ job.id = scheduled' /\ ~job.running
  BY <1>3, ScriptsAssumption DEF Job
<1> HIDE DEF job
<1> DEFINE n == Len(scripts_queue)
<1>5. n \in Nat /\ \A i \in 1..n : scripts_queue[i] \in Job
  BY <1>1, LenProperties DEF ScriptsType
<1>6. /\ q \in Seq(Job) /\ Len(q) = n + 1 /\ q[n + 1] = job
      /\ \A i \in 1..n : q[i] = scripts_queue[i]
  BY <1>1, <1>4, AppendProperties DEF ScriptsType
<1>7. n <= MaxQueue BY <1>1
<1>8. /\ \A i \in 1..n : scripts_queue[i].id < scheduled'
      /\ \A i \in 1..n : scripts_queue[i].id \in Nat
      /\ \A i, j \in 1..n : scripts_queue[i].id = scripts_queue[j].id => i = j
  <2>1. \A i \in 1..n : scripts_queue[i].id \in Nat BY <1>5 DEF Job
  <2>2. \A i \in 1..n : scripts_queue[i].id <= scheduled BY <1>1
  <2>3. scheduled \in Nat /\ scheduled' = scheduled + 1 BY <1>1, <1>2 DEF ScriptsType
  <2>4. \A i, j \in 1..n : scripts_queue[i].id = scripts_queue[j].id => i = j
    BY <1>1 DEF Distinct
  <2> HIDE DEF n
  <2> QED BY <2>1, <2>2, <2>3, <2>4
<1> HIDE DEF q, n
<1>9. Distinct(q)
  <2> SUFFICES ASSUME NEW i \in 1..(n + 1), NEW j \in 1..(n + 1), q[i].id = q[j].id
               PROVE  i = j
    BY <1>6 DEF Distinct
  <2>1. CASE i \in 1..n /\ j \in 1..n BY <1>6, <1>8, <2>1
  <2>2. CASE i = n + 1 /\ j = n + 1 BY <2>2
  <2>3. CASE i = n + 1 /\ j \in 1..n
    <3>1. q[j].id < scheduled' /\ q[i].id = scheduled' BY <1>4, <1>6, <1>8, <2>3
    <3> QED BY <1>3, <3>1
  <2>4. CASE i \in 1..n /\ j = n + 1
    <3>1. q[i].id < scheduled' /\ q[j].id = scheduled' BY <1>4, <1>6, <1>8, <2>4
    <3> QED BY <1>3, <3>1
  <2> QED BY <1>5, <2>1, <2>2, <2>3, <2>4
<1>10. \A i \in 1..(n + 1) : q[i].id <= scheduled' BY <1>3, <1>4, <1>5, <1>6, <1>8
<1>11. Paired(q, children)
  <2>1. ASSUME NEW k \in 1..Len(children)
        PROVE  \E i \in 1..Len(q) : q[i].running /\ q[i].id = children[k].id
    <3>1. PICK i \in 1..n : /\ scripts_queue[i].running
                            /\ scripts_queue[i].id = children[k].id
      BY <1>1 DEF Paired, n
    <3>2. i \in 1..Len(q) BY <1>5, <1>6
    <3> QED BY <1>6, <3>1, <3>2
  <2>2. ASSUME NEW i \in 1..Len(q), q[i].running
        PROVE  \E k \in 1..Len(children) : children[k].id = q[i].id
    <3>1. i # n + 1 BY <1>4, <1>6, <2>2
    <3>2. i \in 1..n BY <1>5, <1>6, <3>1
    <3> QED BY <1>1, <1>6, <2>2, <3>2 DEF Paired, n
  <2> QED BY <2>1, <2>2 DEF Paired
<1> DEFINE r == scripts_queue'
<1>12. /\ r \in Seq(Job) /\ Len(r) <= MaxQueue /\ Distinct(r)
       /\ \A i \in 1..Len(r) : r[i].id <= scheduled'
       /\ Paired(r, children)
  <2>1. CASE Len(q) <= MaxQueue
    <3>1. r = q BY <1>2, <2>1 DEF Trimmed
    <3> HIDE DEF r
    <3> QED BY <1>6, <1>9, <1>10, <1>11, <2>1, <3>1
  <2>2. CASE ~(Len(q) <= MaxQueue)
    <3> DEFINE W == {i \in DOMAIN q : ~q[i].running}
               w == CHOOSE i \in W : \A k \in W : i <= k
    <3>1. r = Drop(q, w) BY <1>2, <2>2 DEF Trimmed
    <3>2. DOMAIN q = 1..(n + 1) BY <1>6, LenProperties
    <3>3. W \in SUBSET Nat BY <1>5, <3>2
    <3>4. W # {} BY <1>4, <1>5, <1>6, <3>2
    <3> HIDE DEF W
    <3>5. w \in W BY <3>3, <3>4, Oldest
    <3> HIDE DEF w, r
    <3>6. w \in 1..Len(q) /\ ~q[w].running BY <1>6, <3>2, <3>5 DEF W
    <3>7. r \in Seq(Job) /\ Len(r) = Len(q) - 1
      BY <1>6, <3>1, <3>6, DropProperties
    <3>8. Paired(r, children) BY <1>6, <1>9, <1>11, <3>1, <3>6, DropIdle
    <3>9. /\ Distinct(r)
          /\ \A k \in 1..Len(r) : \E p \in 1..Len(q) : r[k] = q[p]
      BY <1>6, <1>9, <3>1, <3>6, DropOthers
    <3>10. Len(r) <= MaxQueue BY <1>5, <1>6, <1>7, <3>7, ScriptsAssumption
    <3> QED BY <1>6, <1>10, <3>7, <3>8, <3>9, <3>10
  <2> QED BY <2>1, <2>2
<1>13. ScriptsType' BY <1>1, <1>2, <1>3, <1>12 DEF ScriptsType
<1>14. Distinct(scripts_queue)' /\ Distinct(children)' BY <1>1, <1>2, <1>12 DEF Distinct
<1>15. Paired(scripts_queue, children)' BY <1>2, <1>12 DEF Paired
<1> QED BY <1>1, <1>2, <1>12, <1>13, <1>14, <1>15 DEF ScriptsIInv

\* Only the names and which jobs run matter to the pairing.
LEMMA SameNames ==
    ASSUME NEW q, NEW r, NEW c, NEW e, Len(r) = Len(q), Len(e) = Len(c),
           \A i \in 1..Len(q) : r[i].id = q[i].id /\ r[i].running = q[i].running,
           \A k \in 1..Len(c) : e[k].id = c[k].id,
           Distinct(q), Distinct(c), Paired(q, c)
    PROVE  Distinct(r) /\ Distinct(e) /\ Paired(r, e)
<1>1. Distinct(r) /\ Distinct(e) BY DEF Distinct
<1>2. ASSUME NEW k \in 1..Len(e)
      PROVE  \E i \in 1..Len(r) : r[i].running /\ r[i].id = e[k].id
  <2>1. PICK i \in 1..Len(q) : q[i].running /\ q[i].id = c[k].id BY DEF Paired
  <2> QED BY <2>1
<1>3. ASSUME NEW i \in 1..Len(r), r[i].running
      PROVE  \E k \in 1..Len(e) : e[k].id = r[i].id
  <2>1. q[i].running BY <1>3
  <2>2. PICK k \in 1..Len(c) : c[k].id = q[i].id BY <2>1 DEF Paired
  <2> QED BY <2>2
<1> QED BY <1>1, <1>2, <1>3 DEF Paired

\* The operating system ends a script, or the delay of a retry is over.
LEMMA WaitInv ==
    ASSUME ScriptsIInv,
           \/ \E k \in DOMAIN children, st \in Status : ScriptEnds(k, st)
           \/ \E i \in DOMAIN scripts_queue : DelayEnds(i)
    PROVE  ScriptsIInv'
<1>1. /\ ScriptsType /\ Distinct(scripts_queue) /\ Distinct(children)
      /\ \A i \in 1..Len(scripts_queue) : scripts_queue[i].id <= scheduled
      /\ Paired(scripts_queue, children)
      /\ Len(scripts_queue) <= MaxQueue /\ Len(children) <= running_scripts
  BY DEF ScriptsIInv
<1>2. /\ DOMAIN scripts_queue = 1..Len(scripts_queue)
      /\ \A i \in 1..Len(scripts_queue) : scripts_queue[i] \in Job
      /\ DOMAIN children = 1..Len(children)
      /\ \A k \in 1..Len(children) : children[k] \in Child
  BY <1>1, LenProperties DEF ScriptsType
<1>3. SUFFICES /\ scripts_queue' \in Seq(Job) /\ children' \in Seq(Child)
               /\ Len(scripts_queue') = Len(scripts_queue)
               /\ Len(children') = Len(children)
               /\ \A i \in 1..Len(scripts_queue) :
                     /\ scripts_queue'[i].id = scripts_queue[i].id
                     /\ scripts_queue'[i].running = scripts_queue[i].running
               /\ \A k \in 1..Len(children) : children'[k].id = children[k].id
               /\ UNCHANGED <<running_scripts, scheduled>>
  <2>1. Distinct(scripts_queue') /\ Distinct(children')
        /\ Paired(scripts_queue', children')
    BY <1>1, <1>3, SameNames
  <2>2. ScriptsType' BY <1>1, <1>3 DEF ScriptsType
  <2>3. /\ \A i \in 1..Len(scripts_queue') : scripts_queue'[i].id <= scheduled'
        /\ Len(scripts_queue') <= MaxQueue /\ Len(children') <= running_scripts'
    BY <1>1, <1>3
  <2> QED BY <2>1, <2>2, <2>3 DEF ScriptsIInv, Distinct, Paired
<1>4. ASSUME NEW k \in DOMAIN children, NEW st \in Status, ScriptEnds(k, st)
      PROVE  /\ children' \in Seq(Child) /\ Len(children') = Len(children)
             /\ \A l \in 1..Len(children) : children'[l].id = children[l].id
             /\ UNCHANGED <<scripts_queue, running_scripts, scheduled>>
  <2> DEFINE c == [children[k] EXCEPT !.status = st]
  <2>1. /\ children' = [children EXCEPT ![k] = c]
        /\ UNCHANGED <<scripts_queue, running_scripts, scheduled>>
    BY <1>4 DEF ScriptEnds
  <2>2. k \in 1..Len(children) /\ children[k] \in Child BY <1>2
  <2>3. c \in Child /\ c.id = children[k].id BY <2>2 DEF Child
  <2> HIDE DEF c
  <2>4. /\ children' \in Seq(Child) /\ Len(children') = Len(children)
        /\ \A l \in 1..Len(children) :
              children'[l] = IF l = k THEN c ELSE children[l]
    BY <1>1, <2>1, <2>2, <2>3, ExceptSeq DEF ScriptsType
  <2> QED BY <2>1, <2>3, <2>4
<1>5. ASSUME NEW i \in DOMAIN scripts_queue, DelayEnds(i)
      PROVE  /\ scripts_queue' \in Seq(Job)
             /\ Len(scripts_queue') = Len(scripts_queue)
             /\ \A l \in 1..Len(scripts_queue) :
                   /\ scripts_queue'[l].id = scripts_queue[l].id
                   /\ scripts_queue'[l].running = scripts_queue[l].running
             /\ UNCHANGED <<children, running_scripts, scheduled>>
  <2> DEFINE j == [scripts_queue[i] EXCEPT !.delayed = FALSE]
  <2>1. /\ scripts_queue' = [scripts_queue EXCEPT ![i] = j]
        /\ UNCHANGED <<children, running_scripts, scheduled>>
    BY <1>5 DEF DelayEnds, At
  <2>2. i \in 1..Len(scripts_queue) /\ scripts_queue[i] \in Job BY <1>2
  <2>3. j \in Job /\ j.id = scripts_queue[i].id
        /\ j.running = scripts_queue[i].running
    BY <2>2 DEF Job
  <2> HIDE DEF j
  <2>4. /\ scripts_queue' \in Seq(Job) /\ Len(scripts_queue') = Len(scripts_queue)
        /\ \A l \in 1..Len(scripts_queue) :
              scripts_queue'[l] = IF l = i THEN j ELSE scripts_queue[l]
    BY <1>1, <2>1, <2>2, <2>3, ExceptSeq DEF ScriptsType
  <2> QED BY <2>1, <2>3, <2>4
<1> QED BY <1>1, <1>4, <1>5 DEF ScriptsType

\* A job that starts gets a process with its name.
LEMMA StartPaired ==
    ASSUME NEW q \in Seq(Job), NEW c \in Seq(Child), NEW i \in 1..Len(q),
           Distinct(q), Distinct(c), Paired(q, c), ~q[i].running,
           NEW j \in Job, NEW e \in Child,
           j.running, j.id = q[i].id, e.id = q[i].id
    PROVE  Distinct(Append(c, e)) /\ Paired([q EXCEPT ![i] = j], Append(c, e))
<1> DEFINE r == [q EXCEPT ![i] = j]
           b == Append(c, e)
           n == Len(c)
<1>1. /\ Len(r) = Len(q)
      /\ \A k \in 1..Len(q) : r[k] = IF k = i THEN j ELSE q[k]
  BY ExceptSeq
<1>2. /\ n \in Nat /\ Len(b) = n + 1 /\ b[n + 1] = e
      /\ \A k \in 1..n : b[k] = c[k]
  BY LenProperties, AppendProperties
<1>3. /\ \A k \in 1..n : \E p \in 1..Len(q) : q[p].running /\ q[p].id = c[k].id
      /\ \A p \in 1..Len(q) : q[p].running => \E k \in 1..n : c[k].id = q[p].id
      /\ \A k, l \in 1..n : c[k].id = c[l].id => k = l
      /\ \A k, l \in 1..Len(q) : q[k].id = q[l].id => k = l
  BY DEF Paired, Distinct
<1> HIDE DEF r, b, n
<1>4. \A k \in 1..n : c[k].id # e.id
  <2> SUFFICES ASSUME NEW k \in 1..n, c[k].id = e.id PROVE FALSE OBVIOUS
  <2>1. PICK p \in 1..Len(q) : q[p].running /\ q[p].id = c[k].id BY <1>3
  <2>2. p = i BY <1>3, <2>1
  <2> QED BY <2>1, <2>2
<1>5. Distinct(b)
  <2> SUFFICES ASSUME NEW k \in 1..(n + 1), NEW l \in 1..(n + 1), b[k].id = b[l].id
               PROVE  k = l
    BY <1>2 DEF Distinct
  <2>1. CASE k \in 1..n /\ l \in 1..n BY <1>2, <1>3, <2>1
  <2>2. CASE k = n + 1 /\ l \in 1..n BY <1>2, <1>4, <2>2
  <2>3. CASE k \in 1..n /\ l = n + 1 BY <1>2, <1>4, <2>3
  <2>4. CASE k = n + 1 /\ l = n + 1 BY <2>4
  <2> QED BY <1>2, <2>1, <2>2, <2>3, <2>4
<1>6. ASSUME NEW k \in 1..(n + 1)
      PROVE  \E p \in 1..Len(q) : r[p].running /\ r[p].id = b[k].id
  <2>1. CASE k = n + 1 BY <1>1, <1>2, <2>1
  <2>2. CASE k \in 1..n
    <3>1. PICK p \in 1..Len(q) : q[p].running /\ q[p].id = c[k].id BY <1>3, <2>2
    <3>2. p # i BY <3>1
    <3> QED BY <1>1, <1>2, <2>2, <3>1, <3>2
  <2> QED BY <1>2, <2>1, <2>2
<1>7. ASSUME NEW p \in 1..Len(q), r[p].running
      PROVE  \E k \in 1..(n + 1) : b[k].id = r[p].id
  <2>1. CASE p = i
    <3>1. n + 1 \in 1..(n + 1) BY <1>2
    <3> QED BY <1>1, <1>2, <2>1, <3>1
  <2>2. CASE p # i
    <3>1. r[p] = q[p] BY <1>1, <2>2
    <3>2. q[p].running BY <1>7, <3>1
    <3>3. PICK k \in 1..n : c[k].id = q[p].id BY <1>3, <3>2
    <3>4. k \in 1..(n + 1) BY <1>2
    <3> QED BY <1>2, <3>1, <3>3, <3>4
  <2> QED BY <2>1, <2>2
<1> QED BY <1>1, <1>2, <1>5, <1>6, <1>7 DEF Paired, r, b

\* The timer forks a script, or the fork fails.
LEMMA RunInv ==
    ASSUME ScriptsIInv, NEW fails \in BOOLEAN, RunScript(fails)
    PROVE  ScriptsIInv'
<1>1. /\ ScriptsType /\ Distinct(scripts_queue) /\ Distinct(children)
      /\ \A i \in 1..Len(scripts_queue) : scripts_queue[i].id <= scheduled
      /\ Paired(scripts_queue, children)
      /\ Len(scripts_queue) <= MaxQueue /\ Len(children) <= running_scripts
  BY DEF ScriptsIInv
<1> DEFINE R == Runnable(scripts_queue)
           i == CHOOSE i \in R : \A k \in R : i <= k
           j == scripts_queue[i]
           job == [j EXCEPT !.running = ~fails, !.retry = @ + 1]
           c == [id |-> j.id, status |-> "alive"]
<1>2. /\ running_scripts < MaxRunning /\ R # {}
      /\ j.retry <= MaxRetry
      /\ scripts_queue' = [scripts_queue EXCEPT ![i] = job]
      /\ running_scripts' = IF fails THEN running_scripts ELSE running_scripts + 1
      /\ children' = IF fails THEN children ELSE Append(children, c)
      /\ scheduled' = scheduled
  BY DEF RunScript, At
<1>3. /\ DOMAIN scripts_queue = 1..Len(scripts_queue)
      /\ \A k \in 1..Len(scripts_queue) : scripts_queue[k] \in Job
      /\ Len(children) \in Nat
  BY <1>1, LenProperties DEF ScriptsType
<1>4. i \in 1..Len(scripts_queue) /\ j \in Job /\ ~j.running
  <2>1. R \in SUBSET Nat BY <1>3 DEF Runnable
  <2> HIDE DEF R
  <2>2. i \in R BY <1>2, <2>1, Oldest
  <2> HIDE DEF i
  <2> QED BY <1>3, <2>2 DEF Runnable, R
<1> HIDE DEF i, j, R
<1>5. c \in Child /\ c.id = j.id BY <1>4 DEF Child, Status, Job
<1>6. job \in Job /\ job.id = j.id /\ job.running = ~fails
  <2>1. j.retry + 1 \in 0..(MaxRetry + 1) BY <1>2, <1>4, ScriptsAssumption DEF Job
  <2>2. job \in Job BY <1>4, <2>1 DEF Job
  <2>3. job.id = j.id BY <1>4 DEF Job
  <2>4. job.running = ~fails BY <1>4 DEF Job
  <2> QED BY <2>2, <2>3, <2>4
<1> HIDE DEF job, c
<1>7. /\ scripts_queue' \in Seq(Job) /\ Len(scripts_queue') = Len(scripts_queue)
      /\ \A l \in 1..Len(scripts_queue) :
            scripts_queue'[l] = IF l = i THEN job ELSE scripts_queue[l]
  BY <1>1, <1>2, <1>4, <1>6, ExceptSeq DEF ScriptsType
<1>8. j = scripts_queue[i] BY DEF j
<1>9. \A l \in 1..Len(scripts_queue) : scripts_queue'[l].id = scripts_queue[l].id
  BY <1>6, <1>7, <1>8
<1>10. /\ children' \in Seq(Child) /\ running_scripts' \in 0..MaxRunning
       /\ Len(children') <= running_scripts'
       /\ Distinct(scripts_queue') /\ Distinct(children')
       /\ Paired(scripts_queue', children')
  <2>1. CASE fails
    <3>1. children' = children /\ running_scripts' = running_scripts BY <1>2, <2>1
    <3>2. ~job.running /\ ~scripts_queue[i].running BY <1>4, <1>6, <1>8, <2>1
    <3>3. job.running \in BOOLEAN /\ scripts_queue[i].running \in BOOLEAN
      BY <1>4, <1>6, <1>8 DEF Job
    <3>4. \A l \in 1..Len(scripts_queue) :
            scripts_queue'[l].running = scripts_queue[l].running
      BY <1>7, <3>2, <3>3
    <3>5. \A k \in 1..Len(children) : children'[k].id = children[k].id BY <3>1
    <3>6. Distinct(scripts_queue') /\ Distinct(children')
          /\ Paired(scripts_queue', children')
      BY <1>1, <1>7, <1>9, <3>1, <3>4, <3>5, SameNames
    <3> QED BY <1>1, <3>1, <3>6 DEF ScriptsType
  <2>2. CASE ~fails
    <3>1. children' = Append(children, c) /\ running_scripts' = running_scripts + 1
      BY <1>2, <2>2
    <3>2. children' \in Seq(Child) /\ Len(children') = Len(children) + 1
      BY <1>1, <1>5, <3>1, AppendProperties DEF ScriptsType
    <3>3. Distinct(children') /\ Paired(scripts_queue', children')
      BY <1>1, <1>2, <1>4, <1>5, <1>6, <1>8, <2>2, <3>1, StartPaired
      DEF ScriptsType
    <3>4. Distinct(scripts_queue') BY <1>1, <1>7, <1>9 DEF Distinct
    <3>5. running_scripts' \in 0..MaxRunning /\ Len(children') <= running_scripts'
      BY <1>1, <1>2, <1>3, <3>1, <3>2, ScriptsAssumption DEF ScriptsType
    <3> QED BY <3>2, <3>3, <3>4, <3>5
  <2> QED BY <2>1, <2>2
<1>11. ScriptsType' BY <1>1, <1>2, <1>7, <1>10 DEF ScriptsType
<1>12. /\ \A l \in 1..Len(scripts_queue') : scripts_queue'[l].id <= scheduled'
       /\ Len(scripts_queue') <= MaxQueue
  BY <1>1, <1>2, <1>7, <1>9
<1> QED BY <1>10, <1>11, <1>12 DEF ScriptsIInv, Distinct, Paired

\* The timer collects a script that ended: its job goes or is retried.
LEMMA CollectInv ==
    ASSUME ScriptsIInv, NEW k \in DOMAIN children, CollectScript(k)
    PROVE  ScriptsIInv'
<1>1. /\ ScriptsType /\ Distinct(scripts_queue) /\ Distinct(children)
      /\ \A i \in 1..Len(scripts_queue) : scripts_queue[i].id <= scheduled
      /\ Paired(scripts_queue, children)
      /\ Len(scripts_queue) <= MaxQueue /\ Len(children) <= running_scripts
  BY DEF ScriptsIInv
<1>2. /\ DOMAIN scripts_queue = 1..Len(scripts_queue)
      /\ Len(scripts_queue) \in Nat
      /\ \A l \in 1..Len(scripts_queue) : scripts_queue[l] \in Job
      /\ k \in 1..Len(children) /\ Len(children) \in Nat
  BY <1>1, LenProperties DEF ScriptsType
<1> DEFINE mine == {i \in DOMAIN scripts_queue :
                      scripts_queue[i].running /\ scripts_queue[i].id = children[k].id}
           i == CHOOSE i \in mine : TRUE
           job == [scripts_queue[i] EXCEPT !.running = FALSE, !.delayed = TRUE]
<1>3. mine # {}
  <2>1. PICK p \in 1..Len(scripts_queue) :
          scripts_queue[p].running /\ scripts_queue[p].id = children[k].id
    BY <1>1, <1>2 DEF Paired
  <2> QED BY <1>2, <2>1
<1>4. /\ children' = Drop(children, k) /\ scheduled' = scheduled
      /\ \/ /\ scripts_queue' = [scripts_queue EXCEPT ![i] = job]
            /\ running_scripts' = running_scripts
         \/ /\ scripts_queue' = Drop(scripts_queue, i)
            /\ running_scripts' = running_scripts - 1
  BY <1>3 DEF CollectScript, At
<1>5. /\ i \in 1..Len(scripts_queue) /\ scripts_queue[i].running
      /\ scripts_queue[i].id = children[k].id
  <2>1. i \in mine BY <1>3
  <2> QED BY <1>2, <2>1
<1> HIDE DEF mine, i
<1>6. job \in Job /\ job.id = scripts_queue[i].id /\ ~job.running
  <2>1. scripts_queue[i] \in Job BY <1>2, <1>5
  <2>2. job \in Job BY <2>1 DEF Job
  <2>3. job.id = scripts_queue[i].id BY <2>1 DEF Job
  <2>4. job.running = FALSE BY <2>1 DEF Job
  <2> QED BY <2>2, <2>3, <2>4
<1> HIDE DEF job
<1>7. /\ children' \in Seq(Child) /\ Len(children') = Len(children) - 1
      /\ Distinct(children')
  BY <1>1, <1>2, <1>4, DropProperties, DropOthers DEF ScriptsType
<1>8. /\ Paired(Drop(scripts_queue, i), children')
      /\ \A r : /\ Len(r) = Len(scripts_queue) /\ ~r[i].running
                /\ \A p \in 1..Len(scripts_queue) : p # i => r[p] = scripts_queue[p]
                => Paired(r, children')
  BY <1>1, <1>2, <1>4, <1>5, DropBoth DEF ScriptsType
<1>9. /\ scripts_queue' \in Seq(Job) /\ Len(scripts_queue') <= MaxQueue
      /\ Distinct(scripts_queue') /\ Paired(scripts_queue', children')
      /\ \A l \in 1..Len(scripts_queue') : scripts_queue'[l].id <= scheduled
      /\ running_scripts' \in 0..MaxRunning /\ Len(children') <= running_scripts'
  <2>1. CASE scripts_queue' = [scripts_queue EXCEPT ![i] = job]
             /\ running_scripts' = running_scripts
    <3>1. /\ scripts_queue' \in Seq(Job)
          /\ Len(scripts_queue') = Len(scripts_queue)
          /\ \A l \in 1..Len(scripts_queue) :
                scripts_queue'[l] = IF l = i THEN job ELSE scripts_queue[l]
      BY <1>1, <1>5, <1>6, <2>1, ExceptSeq DEF ScriptsType
    <3>2. \A l \in 1..Len(scripts_queue) : scripts_queue'[l].id = scripts_queue[l].id
      BY <1>6, <3>1
    <3>3. Distinct(scripts_queue') BY <1>1, <3>1, <3>2 DEF Distinct
    <3>4. Paired(scripts_queue', children') BY <1>5, <1>6, <1>8, <3>1
    <3>5. Len(children') <= running_scripts'
      BY <1>1, <1>2, <1>7, <2>1 DEF ScriptsType
    <3> QED BY <1>1, <2>1, <3>1, <3>2, <3>3, <3>4, <3>5 DEF ScriptsType
  <2>2. CASE scripts_queue' = Drop(scripts_queue, i)
             /\ running_scripts' = running_scripts - 1
    <3>1. /\ scripts_queue' \in Seq(Job)
          /\ Len(scripts_queue') = Len(scripts_queue) - 1
      BY <1>1, <1>5, <2>2, DropProperties DEF ScriptsType
    <3>2. /\ Distinct(scripts_queue')
          /\ \A l \in 1..Len(scripts_queue') :
                \E p \in 1..Len(scripts_queue) : scripts_queue'[l] = scripts_queue[p]
      <4> DEFINE r == Drop(scripts_queue, i)
      <4>1. scripts_queue \in Seq(Job) /\ i \in 1..Len(scripts_queue)
            /\ Distinct(scripts_queue)
        BY <1>1, <1>5 DEF ScriptsType
      <4>2. /\ Distinct(r)
            /\ \A l \in 1..Len(r) : \E p \in 1..Len(scripts_queue) :
                  p # i /\ r[l] = scripts_queue[p]
        BY <4>1, DropOthers
      <4>3. scripts_queue' = r BY <2>2
      <4> HIDE DEF r
      <4> QED BY <4>2, <4>3
    <3>3. \A l \in 1..Len(scripts_queue') : scripts_queue'[l].id <= scheduled
      BY <1>1, <3>2
    <3>4. Len(scripts_queue') <= MaxQueue
      <4> DEFINE m == Len(scripts_queue)
                 r == Len(scripts_queue')
      <4>1. m \in Nat /\ m <= MaxQueue /\ r = m - 1 BY <1>1, <1>2, <3>1
      <4> HIDE DEF m, r
      <4>2. r <= MaxQueue BY <4>1, ScriptsAssumption
      <4> QED BY <4>2 DEF r
    <3>5. running_scripts' \in 0..MaxRunning /\ Len(children') <= running_scripts'
      <4>1. /\ running_scripts \in 0..MaxRunning /\ MaxRunning \in Nat
            /\ Len(children) \in Nat /\ Len(children) >= 1
            /\ Len(children) <= running_scripts
        BY <1>1, <1>2, ScriptsAssumption DEF ScriptsType
      <4> DEFINE m == Len(children)
                 r == Len(children')
      <4>2. r = m - 1 BY <1>7
      <4>3. m \in Nat /\ m >= 1 /\ m <= running_scripts BY <4>1
      <4> HIDE DEF m, r
      <4>4. running_scripts' \in 0..MaxRunning /\ r <= running_scripts'
        BY <2>2, <4>1, <4>2, <4>3
      <4> QED BY <4>4 DEF r
    <3> QED BY <1>8, <2>2, <3>1, <3>2, <3>3, <3>4, <3>5
  <2> QED BY <1>4, <2>1, <2>2
<1>10. ScriptsType' BY <1>1, <1>4, <1>7, <1>9 DEF ScriptsType
<1> QED BY <1>4, <1>7, <1>9, <1>10 DEF ScriptsIInv, Distinct, Paired

LEMMA ScriptsInductive == ScriptsSpec => []ScriptsIInv
<1>1. ScriptsInit => ScriptsIInv
  <2> SUFFICES ASSUME ScriptsInit PROVE ScriptsIInv OBVIOUS
  <2>1. /\ scripts_queue = <<>> /\ children = <<>>
        /\ running_scripts = 0 /\ scheduled = 0
    BY DEF ScriptsInit
  <2>2. /\ <<>> \in Seq(Job) /\ <<>> \in Seq(Child)
        /\ Len(scripts_queue) = 0 /\ Len(children) = 0
    BY <2>1, EmptySeq
  <2>3. ScriptsType BY <2>1, <2>2, ScriptsAssumption DEF ScriptsType
  <2>4. 1..0 = {} OBVIOUS
  <2>5. Distinct(scripts_queue) /\ Distinct(children) BY <2>2, <2>4 DEF Distinct
  <2>6. Paired(scripts_queue, children) BY <2>2, <2>4 DEF Paired
  <2> QED BY <2>1, <2>2, <2>3, <2>4, <2>5, <2>6, ScriptsAssumption DEF ScriptsIInv
<1>2. ScriptsIInv /\ [ScriptsNext]_scriptVars => ScriptsIInv'
  <2> SUFFICES ASSUME ScriptsIInv, [ScriptsNext]_scriptVars PROVE ScriptsIInv'
    OBVIOUS
  <2>1. CASE ScheduleScript BY <2>1, ScheduleInv
  <2>2. CASE \E fails \in BOOLEAN : RunScript(fails) BY <2>2, RunInv
  <2>3. CASE \E k \in DOMAIN children : CollectScript(k) BY <2>3, CollectInv
  <2>4. CASE \/ \E k \in DOMAIN children, st \in Status : ScriptEnds(k, st)
             \/ \E i \in DOMAIN scripts_queue : DelayEnds(i)
    BY <2>4, WaitInv
  <2>5. CASE UNCHANGED scriptVars
    BY <2>5 DEF scriptVars, ScriptsIInv, ScriptsType, Distinct, Paired
  <2> QED BY <2>1, <2>2, <2>3, <2>4, <2>5 DEF ScriptsNext
<1> QED BY <1>1, <1>2, PTL DEF ScriptsSpec

\* Whatever the limits of the queue throw out, each process that a sentinel
\* forked has its job, running, in the queue, and each running job has one
\* process; there are never more of them than running_scripts counts.
THEOREM EveryChildHasItsJobHolds == ScriptsSpec => []EveryChildHasItsJob
<1>1. ScriptsIInv => EveryChildHasItsJob
  <2> SUFFICES ASSUME ScriptsIInv PROVE EveryChildHasItsJob OBVIOUS
  <2> DEFINE n == Len(children)
             R == {i \in DOMAIN scripts_queue : scripts_queue[i].running}
             f == [k \in 1..n |-> CHOOSE i \in R :
                                    scripts_queue[i].id = children[k].id]
  <2>1. /\ DOMAIN children = 1..n /\ n \in Nat
        /\ DOMAIN scripts_queue = 1..Len(scripts_queue)
    BY LenProperties DEF ScriptsIInv, ScriptsType
  <2>2. \A k \in 1..n : f[k] \in R /\ scripts_queue[f[k]].id = children[k].id
    <3> SUFFICES ASSUME NEW k \in 1..n
                 PROVE  f[k] \in R /\ scripts_queue[f[k]].id = children[k].id
      OBVIOUS
    <3>1. \E i \in R : scripts_queue[i].id = children[k].id
      BY <2>1 DEF ScriptsIInv, Paired
    <3> HIDE DEF R
    <3> QED BY <3>1
  <2>3. \A i \in R : \E k \in 1..n : children[k].id = scripts_queue[i].id
    BY <2>1 DEF ScriptsIInv, Paired
  <2>4. /\ \A i, j \in R : scripts_queue[i].id = scripts_queue[j].id => i = j
        /\ \A k, l \in 1..n : children[k].id = children[l].id => k = l
    BY <2>1 DEF ScriptsIInv, Distinct
  <2>5. f \in [1..n -> R] BY <2>2
  <2> HIDE DEF f, R
  <2>6. \A k, l \in 1..n : f[k] = f[l] => k = l BY <2>2, <2>4
  <2>7. \A i \in R : \E k \in 1..n : f[k] = i BY <2>2, <2>3, <2>4
  <2>8. f \in Bijection(1..n, R)
    BY <2>5, <2>6, <2>7 DEF Bijection, Injection, Surjection, IsInjective
  <2>9. ExistsBijection(1..n, R) BY <2>8 DEF ExistsBijection
  <2>10. Cardinality(R) = n BY <2>1, <2>9, FS_CountingElements
  <2>11. \A k \in DOMAIN children : \E i \in DOMAIN scripts_queue :
           scripts_queue[i].running /\ scripts_queue[i].id = children[k].id
    BY <2>1 DEF ScriptsIInv, Paired
  <2> QED BY <2>10, <2>11 DEF EveryChildHasItsJob, ScriptsIInv, R
<1> QED BY <1>1, ScriptsInductive, PTL
=============================================================================
