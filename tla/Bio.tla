-------------------------------- MODULE Bio --------------------------------
(***************************************************************************)
(* bio.c: background threads that close files and fsync the append only    *)
(* file.  Each job type has a queue, a counter, a mutex, a condition       *)
(* variable and one thread; the main thread creates jobs and asks how many *)
(* are pending.  Every access to shared state is a step of its own.        *)
(* pthread_cond_wait may wake up for no reason, as POSIX allows.           *)
(***************************************************************************)
EXTENDS Integers, Sequences

CONSTANTS Type,      \* REDIS_BIO_CLOSE_FILE, REDIS_BIO_AOF_FSYNC
          MaxJobs    \* bound on the jobs created of each type

ASSUME BioConstants == MaxJobs \in Nat /\ Type # {}

VARIABLES mutex,     \* bio_mutex: "free", or the thread that holds it
          queue,     \* bio_jobs
          pending,   \* bio_pending
          worker,    \* where each background thread is
          ln,        \* the list node each background thread works on
          main,      \* where the main thread is, and for which type
          val,       \* what bioPendingJobsOfType returned since the last job
          created,   \* history: jobs 1..created were handed to the queue
          executed   \* history: the jobs executed, in order

vars == <<mutex, queue, pending, worker, ln, main, val, created, executed>>

Idle == [at |-> "idle", type |-> CHOOSE t \in Type : TRUE]

Init ==
    /\ mutex = [t \in Type |-> "free"]
    /\ queue = [t \in Type |-> <<>>]
    /\ pending = [t \in Type |-> 0]
    /\ worker = [t \in Type |-> "start"]
    /\ ln = [t \in Type |-> 0]
    /\ main = Idle
    /\ val = [t \in Type |-> -1]
    /\ created = [t \in Type |-> 0]
    /\ executed = [t \in Type |-> <<>>]

-----------------------------------------------------------------------------
(* The main thread *)

Lock(t, who) == mutex[t] = "free" /\ mutex' = [mutex EXCEPT ![t] = who]

Unlock(t) == mutex' = [mutex EXCEPT ![t] = "free"]

MainGoes(t, to) == main' = [at |-> to, type |-> t]

\* bioCreateBackgroundJob
CreateLock(t) ==
    /\ main.at = "idle" /\ created[t] < MaxJobs
    /\ Lock(t, "main")
    /\ MainGoes(t, "add")
    /\ UNCHANGED <<queue, pending, worker, ln, val, created, executed>>

CreateAdd ==
    /\ main.at = "add"
    /\ created' = [created EXCEPT ![main.type] = @ + 1]
    /\ queue' = [queue EXCEPT ![main.type] = Append(@, created[main.type] + 1)]
    /\ val' = [val EXCEPT ![main.type] = -1]
    /\ MainGoes(main.type, "count")
    /\ UNCHANGED <<mutex, pending, worker, ln, executed>>

CreateCount ==
    /\ main.at = "count"
    /\ pending' = [pending EXCEPT ![main.type] = @ + 1]
    /\ MainGoes(main.type, "signal")
    /\ UNCHANGED <<mutex, queue, worker, ln, val, created, executed>>

\* Mutant of CreateSignal: the job is queued without waking the thread.
CreateNoSignal ==
    /\ main.at = "signal"
    /\ MainGoes(main.type, "unlock")
    /\ UNCHANGED <<mutex, queue, pending, worker, ln, val, created, executed>>

CreateSignal ==
    /\ main.at = "signal"
    /\ worker' = [worker EXCEPT ![main.type] = IF @ = "wait" THEN "relock" ELSE @]
    /\ MainGoes(main.type, "unlock")
    /\ UNCHANGED <<mutex, queue, pending, ln, val, created, executed>>

\* bioPendingJobsOfType
PendingLock(t) ==
    /\ main.at = "idle"
    /\ Lock(t, "main")
    /\ MainGoes(t, "read")
    /\ UNCHANGED <<queue, pending, worker, ln, val, created, executed>>

PendingRead ==
    /\ main.at = "read"
    /\ val' = [val EXCEPT ![main.type] = pending[main.type]]
    /\ MainGoes(main.type, "unlock")
    /\ UNCHANGED <<mutex, queue, pending, worker, ln, created, executed>>

MainUnlock ==
    /\ main.at = "unlock"
    /\ Unlock(main.type)
    /\ main' = Idle
    /\ UNCHANGED <<queue, pending, worker, ln, val, created, executed>>

-----------------------------------------------------------------------------
(* bioProcessBackgroundJobs *)

WorkerGoes(t, from, to) ==
    worker[t] = from /\ worker' = [worker EXCEPT ![t] = to]

\* The first lock, and the one pthread_cond_wait takes before it returns.
WorkerLock(t) ==
    /\ WorkerGoes(t, "start", "check") \/ WorkerGoes(t, "relock", "check")
    /\ Lock(t, "worker")
    /\ UNCHANGED <<queue, pending, ln, main, val, created, executed>>

WorkerWait(t) ==
    /\ WorkerGoes(t, "check", "wait")
    /\ queue[t] = <<>>
    /\ Unlock(t)
    /\ UNCHANGED <<queue, pending, ln, main, val, created, executed>>

SpuriousWakeup(t) ==
    /\ WorkerGoes(t, "wait", "relock")
    /\ UNCHANGED <<mutex, queue, pending, ln, main, val, created, executed>>

\* Mutant of WorkerTake: the job is counted out when it is taken.
WorkerTakeCounted(t) ==
    /\ WorkerGoes(t, "check", "run")
    /\ queue[t] # <<>>
    /\ ln' = [ln EXCEPT ![t] = Head(queue[t])]
    /\ pending' = [pending EXCEPT ![t] = @ - 1]
    /\ Unlock(t)
    /\ UNCHANGED <<queue, main, val, created, executed>>

\* The job stays in the queue while it runs.
WorkerTake(t) ==
    /\ WorkerGoes(t, "check", "run")
    /\ queue[t] # <<>>
    /\ ln' = [ln EXCEPT ![t] = Head(queue[t])]
    /\ Unlock(t)
    /\ UNCHANGED <<queue, pending, main, val, created, executed>>

\* close or aof_fsync, without the lock.
WorkerRun(t) ==
    /\ WorkerGoes(t, "run", "ran")
    /\ executed' = [executed EXCEPT ![t] = Append(@, ln[t])]
    /\ UNCHANGED <<mutex, queue, pending, ln, main, val, created>>

WorkerRelock(t) ==
    /\ WorkerGoes(t, "ran", "delete")
    /\ Lock(t, "worker")
    /\ UNCHANGED <<queue, pending, ln, main, val, created, executed>>

\* Mutant of WorkerDelete: the last node is deleted instead of ln.
WorkerDeleteLast(t) ==
    /\ WorkerGoes(t, "delete", "discount")
    /\ queue' = [queue EXCEPT ![t] = SubSeq(@, 1, Len(@) - 1)]
    /\ UNCHANGED <<mutex, pending, ln, main, val, created, executed>>

\* listDelNode: ln wherever it is in the list.
Without(q, i) == [j \in 1..(Len(q) - 1) |-> IF j < i THEN q[j] ELSE q[j + 1]]

WorkerDelete(t) ==
    /\ WorkerGoes(t, "delete", "discount")
    /\ \E i \in DOMAIN queue[t] :
          /\ queue[t][i] = ln[t]
          /\ queue' = [queue EXCEPT ![t] = Without(@, i)]
    /\ UNCHANGED <<mutex, pending, ln, main, val, created, executed>>

\* Mutant of WorkerDiscount: the counter is reset instead of decremented.
WorkerDiscountAll(t) ==
    /\ WorkerGoes(t, "discount", "check")
    /\ pending' = [pending EXCEPT ![t] = 0]
    /\ UNCHANGED <<mutex, queue, ln, main, val, created, executed>>

WorkerDiscount(t) ==
    /\ WorkerGoes(t, "discount", "check")
    /\ pending' = [pending EXCEPT ![t] = @ - 1]
    /\ UNCHANGED <<mutex, queue, ln, main, val, created, executed>>

-----------------------------------------------------------------------------
MainStep == CreateAdd \/ CreateCount \/ CreateSignal \/ PendingRead \/ MainUnlock

WorkerStep(t) ==
    \/ WorkerLock(t) \/ WorkerWait(t) \/ WorkerTake(t) \/ WorkerRun(t)
    \/ WorkerRelock(t) \/ WorkerDelete(t) \/ WorkerDiscount(t)

Next ==
    \/ \E t \in Type : CreateLock(t) \/ PendingLock(t)
    \/ MainStep
    \/ \E t \in Type : WorkerStep(t) \/ SpuriousWakeup(t)

\* The scheduler runs every thread that can run; a thread that asks for a
\* mutex again and again gets it in the end.  Nobody has to create jobs.
Fairness ==
    /\ WF_vars(MainStep)
    /\ \A t \in Type : SF_vars(WorkerStep(t))

Spec == Init /\ [][Next]_vars

FairSpec == Spec /\ Fairness

-----------------------------------------------------------------------------
(* Properties *)

TypeOK ==
    /\ mutex \in [Type -> {"free", "main", "worker"}]
    /\ queue \in [Type -> Seq(Nat)]
    /\ pending \in [Type -> Nat]
    /\ worker \in [Type -> {"start", "check", "wait", "relock", "run", "ran",
                            "delete", "discount"}]
    /\ ln \in [Type -> Nat]
    /\ main \in [at : {"idle", "add", "count", "signal", "read", "unlock"},
                 type : Type]
    /\ val \in [Type -> Nat \cup {-1}]
    /\ created \in [Type -> Nat]
    /\ executed \in [Type -> Seq(Nat)]

\* The main thread performs what shares objects with the background thread
\* when bioPendingJobsOfType returned 0 (aof.c: no fsync in progress).  Once
\* it has read 0, and until it creates another job, every job it ever created
\* has been executed, although it no longer holds the lock.
ZeroMeansDone ==
    \A t \in Type : val[t] = 0 => Len(executed[t]) = created[t]

\* Jobs of a type are executed once each, in the order they were created.
ExecutedInOrder ==
    \A t \in Type : \A i \in DOMAIN executed[t] : executed[t][i] = i

\* Whenever nobody holds the lock the counter is the length of the list.
PendingIsLength ==
    \A t \in Type : mutex[t] = "free" => pending[t] = Len(queue[t])

\* Every job created is executed: no wakeup is lost between the test of the
\* queue and pthread_cond_wait.
EveryJobRuns ==
    \A t \in Type : \A j \in 1..MaxJobs :
        created[t] >= j ~> Len(executed[t]) >= j
=============================================================================
