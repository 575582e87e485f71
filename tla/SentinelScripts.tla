-------------------------- MODULE SentinelScripts ---------------------------
(***************************************************************************)
(* The queue of notification and reconfiguration scripts of sentinel.c:    *)
(* events add jobs, the timer forks children for them, collects the ones   *)
(* that ended, schedules retries and kills the ones that run too long.     *)
(* A job is named by a number; argv and the output of events are left out. *)
(***************************************************************************)
EXTENDS Naturals, Sequences, FiniteSets, SequencesExt

CONSTANTS
    MaxQueue,       \* SENTINEL_SCRIPT_MAX_QUEUE
    MaxRunning,     \* SENTINEL_SCRIPT_MAX_RUNNING
    MaxRetry,       \* SENTINEL_SCRIPT_MAX_RETRY
    MaxJobs         \* bound: jobs scheduled in a behaviour

ASSUME ScriptsAssumption ==
    /\ MaxQueue \in Nat \ {0} /\ MaxRunning \in 1..(MaxQueue - 1)
    /\ MaxRetry \in Nat \ {0} /\ MaxJobs \in Nat

VARIABLES
    scripts_queue,      \* sentinel.scripts_queue, oldest first
    running_scripts,    \* sentinel.running_scripts
    children,           \* the processes forked and not collected yet
    scheduled           \* the number of jobs scheduled so far

scriptVars == <<scripts_queue, running_scripts, children, scheduled>>

(* How a child stands: still running, or ended and waiting for wait3.      *)
Status == {"alive", "exit0", "exit1", "exit2", "signal"}

(* A job; delayed: start_time lies in the future.                          *)
Job == [id: 1..MaxJobs, running: BOOLEAN, retry: 0..(MaxRetry + 1), delayed: BOOLEAN]

ScriptsInit ==
    /\ scripts_queue = <<>> /\ running_scripts = 0
    /\ children = <<>> /\ scheduled = 0

(* The fields of the i-th job after the step f on it.                      *)
At(q, i, job) == [q EXCEPT ![i] = job]
Drop(q, i) == SubSeq(q, 1, i - 1) \o SubSeq(q, i + 1, Len(q))

(* Mutant of Trimmed: the oldest job goes, running or not.                 *)
TrimmedHead(q) == IF Len(q) > MaxQueue THEN Tail(q) ELSE q

(* The oldest job that is not running makes room for the new one.          *)
Trimmed(q) ==
    LET waiting == {i \in DOMAIN q : ~q[i].running}
    IN  IF Len(q) <= MaxQueue THEN q
        ELSE Drop(q, CHOOSE i \in waiting : \A k \in waiting : i <= k)

(* sentinelScheduleScriptExecution, from sentinelEvent or from             *)
(* sentinelCallClientReconfScript.                                         *)
ScheduleScript ==
    /\ scheduled < MaxJobs
    /\ scheduled' = scheduled + 1
    /\ scripts_queue' = Trimmed(Append(scripts_queue,
           [id |-> scheduled', running |-> FALSE, retry |-> 0, delayed |-> FALSE]))
    /\ UNCHANGED <<running_scripts, children>>

(* sentinelRunPendingScripts for the first job that may run; the loop runs *)
(* it for the next ones.  A fork that fails leaves the job in the queue    *)
(* with its attempt counted, so the count may pass MaxRetry; the bound is  *)
(* one more.                                                               *)
Runnable(q) == {i \in DOMAIN q : ~q[i].running /\ ~q[i].delayed}

RunScript(fails) ==
    /\ running_scripts < MaxRunning /\ Runnable(scripts_queue) # {}
    /\ LET i == CHOOSE i \in Runnable(scripts_queue) :
                   \A k \in Runnable(scripts_queue) : i <= k
           j == scripts_queue[i]
       IN  /\ j.retry <= MaxRetry
           /\ scripts_queue' = At(scripts_queue, i,
                  [j EXCEPT !.running = ~fails, !.retry = @ + 1])
           /\ running_scripts' = IF fails THEN running_scripts ELSE running_scripts + 1
           /\ children' = IF fails THEN children
                          ELSE Append(children, [id |-> j.id, status |-> "alive"])
    /\ UNCHANGED scheduled

(* The operating system: a script ends, or SIGKILL of                      *)
(* sentinelKillTimedoutScripts ends it.                                    *)
ScriptEnds(k, status) ==
    /\ k \in DOMAIN children /\ children[k].status = "alive"
    /\ status # "alive"
    /\ children' = [children EXCEPT ![k].status = status]
    /\ UNCHANGED <<scripts_queue, running_scripts, scheduled>>

(* The retry delay of a job is over.                                       *)
DelayEnds(i) ==
    /\ i \in DOMAIN scripts_queue /\ scripts_queue[i].delayed
    /\ scripts_queue' = At(scripts_queue, i, [scripts_queue[i] EXCEPT !.delayed = FALSE])
    /\ UNCHANGED <<running_scripts, children, scheduled>>

(* sentinelCollectTerminatedScripts for one child that ended.  A retried   *)
(* job leaves running_scripts as it is.                                    *)
CollectScript(k) ==
    LET c == children[k]
        mine == {i \in DOMAIN scripts_queue :
                    scripts_queue[i].running /\ scripts_queue[i].id = c.id}
        i == CHOOSE i \in mine : TRUE
        retry == c.status \in {"signal", "exit1"} /\ scripts_queue[i].retry # MaxRetry
    IN  /\ k \in DOMAIN children /\ c.status # "alive"
        /\ children' = Drop(children, k)
        /\ UNCHANGED scheduled
        /\ IF mine = {} THEN UNCHANGED <<scripts_queue, running_scripts>>
           ELSE IF retry
           THEN /\ scripts_queue' = At(scripts_queue, i,
                       [scripts_queue[i] EXCEPT !.running = FALSE, !.delayed = TRUE])
                /\ UNCHANGED running_scripts
           ELSE /\ scripts_queue' = Drop(scripts_queue, i)
                /\ running_scripts' = running_scripts - 1

ScriptsNext ==
    \/ ScheduleScript
    \/ \E fails \in BOOLEAN : RunScript(fails)
    \/ \E k \in DOMAIN children : CollectScript(k)
                                  \/ \E st \in Status : ScriptEnds(k, st)
    \/ \E i \in DOMAIN scripts_queue : DelayEnds(i)

ScriptsSpec == ScriptsInit /\ [][ScriptsNext]_scriptVars

(* wait3 never returns a process that sentinelGetScriptListNodeByPid does  *)
(* not find: a job whose script runs stays in the queue until its child is *)
(* collected, whatever the limits of the queue throw out.                  *)
EveryChildHasItsJob ==
    /\ \A k \in DOMAIN children : \E i \in DOMAIN scripts_queue :
         scripts_queue[i].running /\ scripts_queue[i].id = children[k].id
    /\ Cardinality({i \in DOMAIN scripts_queue : scripts_queue[i].running})
         = Len(children)
    /\ Len(scripts_queue) <= MaxQueue /\ Len(children) <= running_scripts
=============================================================================
