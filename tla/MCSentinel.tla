----------------------------- MODULE MCSentinel -----------------------------
(* The failover of two sentinels, and beside it their script queue.  The   *)
(* failover never reads the queue, so the two are explored one at a time:  *)
(* each moves only while the other is in its initial state.                *)
EXTENDS Sentinel, SentinelScripts

(* The slaves are alike: which one is selected does not depend on a name.  *)
SlavesAlike == Permutations(Nodes \ {FirstMaster})

MCInit == Init /\ ScriptsInit
MCNext ==
    \/ ScriptsInit /\ Next /\ UNCHANGED scriptVars
    \/ Init /\ ScriptsNext /\ UNCHANGED vars
MCSpec == MCInit /\ [][MCNext]_<<vars, scriptVars>>
=============================================================================
