-------------------------------- MODULE Aof --------------------------------
(***************************************************************************)
(* The append only file of aof.c: what a write command appends, when the    *)
(* buffer is written and synced, the background rewrite and the merge of    *)
(* its differences, switching the file on and off, the child processes, a   *)
(* clean shutdown, crashes of the process and of the machine, and loading.  *)
(*                                                                         *)
(* A dataset is the sequence of the writes that made it, each with the      *)
(* database it went to; its numbers tell the writes apart.  A file is a     *)
(* snapshot written by a rewrite, followed by a log of commands: SELECT is  *)
(* part of the command it precedes, as feedAppendOnlyFile appends them.     *)
(***************************************************************************)
EXTENDS Integers, Sequences, FiniteSets, FiniteSetsExt

CONSTANTS Db, FirstDb,       \* the databases, and the one a client starts with
          Pid, None,
          NoFsyncOnRewrite,  \* server.aof_no_fsync_on_rewrite
          MaxCmd,            \* bound on the length of the dataset
          MaxJobs            \* bound on the fsync jobs of the bio thread

ASSUME AofConstants ==
    /\ FirstDb \in Db /\ None \notin Db /\ None \notin Pid
    /\ NoFsyncOnRewrite \in BOOLEAN
    /\ MaxCmd \in Nat /\ MaxJobs \in Nat

Policy == {"no", "everysec", "always"}

VARIABLES data,       \* the dataset
          state,      \* server.aof_state
          fd,         \* server.aof_fd: none is -1, stale a closed descriptor
          selected,   \* server.aof_selected_db
          buf,        \* server.aof_buf
          rwbuf,      \* server.aof_rewrite_buf_blocks
          file,       \* the file named server.aof_filename
          synced,     \* how much of its log is on the disk for certain
          size,       \* server.aof_current_size
          policy,     \* server.aof_fsync
          procs,      \* the child processes, and the dataset they inherited
          aofchild,   \* server.aof_child_pid
          rdbchild,   \* server.rdb_child_pid
          scheduled,  \* server.aof_rewrite_scheduled
          fsyncs,     \* the fsync jobs; TRUE for the file as it is named now
          newsec,     \* server.unixtime > server.aof_last_fsync
          postponed,  \* 0, or 1 + the seconds since aof_flush_postponed_start
          phase,      \* what the main thread does; down, shutdown: it exited
          acked       \* the writes acknowledged under the policy "always"

memory == <<selected, buf, rwbuf, aofchild, rdbchild, scheduled, postponed, newsec>>

vars == <<data, state, fd, selected, buf, rwbuf, file, synced, size, policy, procs,
          aofchild, rdbchild, scheduled, fsyncs, newsec, postponed, phase, acked>>

-----------------------------------------------------------------------------
(* Files and processes *)

Write == [id : 1..MaxCmd, db : Db]

Entry == [id : 1..MaxCmd, sel : Db \cup {None}]

\* The database in which the loader runs entry i of a log that follows a
\* snapshot whose last SELECT was db.
SelectedAt(db, log, i) ==
    LET selects == {j \in 1..i : log[j].sel # None}
    IN IF selects = {} THEN db ELSE log[Max(selects)].sel

\* loadAppendOnlyFile of a snapshot and a log
Loaded(base, db, log) ==
    base \o [i \in 1..Len(log) |-> [id |-> log[i].id, db |-> SelectedAt(db, log, i)]]

LoadedFile == Loaded(file.base, file.db, file.log)

EmptyFile == [base |-> <<>>, db |-> FirstDb, log |-> <<>>, torn |-> FALSE]

FileSize(f) == Len(f.base) + Len(f.log) + (IF f.torn THEN 1 ELSE 0)

\* rewriteAppendOnlyFile selects each database that is not empty in turn.
LastSelected(base) == IF base = <<>> THEN {FirstDb} ELSE {base[i].db : i \in DOMAIN base}

NoProc == [st |-> "free", base |-> <<>>]

Exited(p) == procs[p].st \in {"ok", "err"}

Unused(p) == procs[p] = NoProc /\ p # rdbchild /\ p # aofchild

\* fork: a pid that no process and no variable of the server has.  Which one
\* makes no difference.
Forkable(p) == Unused(p) /\ p = CHOOSE q \in Pid : Unused(q)

\* The jobs for a descriptor that is closed, or for the file before the last.
Closed(jobs) == [i \in DOMAIN jobs |-> FALSE]

Init ==
    /\ data = <<>>
    /\ state = "ON" /\ fd = "open"
    /\ selected = None /\ buf = <<>> /\ rwbuf = <<>>
    /\ file = EmptyFile /\ synced = 0 /\ size = 0
    /\ policy \in Policy
    /\ procs = [p \in Pid |-> NoProc]
    /\ aofchild = None /\ rdbchild = None /\ scheduled = FALSE
    /\ fsyncs = <<>> /\ newsec = FALSE /\ postponed = 0
    /\ phase = "run" /\ acked = 0

-----------------------------------------------------------------------------
(* Writes *)

NextEntry(d) == [id |-> Len(data) + 1, sel |-> IF d = selected THEN None ELSE d]

\* A write command in database d: call, propagate, feedAppendOnlyFile.
WriteCommand(d) ==
    /\ phase = "run"
    /\ Len(data) < MaxCmd
    /\ data' = Append(data, [id |-> Len(data) + 1, db |-> d])
    /\ selected' = IF state = "OFF" THEN selected ELSE d
    /\ buf' = IF state = "ON" THEN Append(buf, NextEntry(d)) ELSE buf
    /\ rwbuf' = IF state # "OFF" /\ aofchild # None THEN Append(rwbuf, NextEntry(d))
                                                    ELSE rwbuf
    /\ UNCHANGED <<state, fd, file, synced, size, policy, procs, aofchild, rdbchild,
                   scheduled, fsyncs, newsec, postponed, phase, acked>>

-----------------------------------------------------------------------------
(* flushAppendOnlyFile *)

SyncInProgress == policy = "everysec" /\ fsyncs # <<>>

\* Mutant of Postpones: there is no limit to the delay.
PostponesAlways == buf # <<>> /\ SyncInProgress

\* The write waits for the fsync, for less than two seconds.
Postpones == buf # <<>> /\ SyncInProgress /\ postponed < 3

NoFsync == NoFsyncOnRewrite /\ (aofchild # None \/ rdbchild # None)

\* The fsync jobs after a write.
JobsAfterWrite ==
    IF buf # <<>> /\ ~NoFsync /\ policy = "everysec" /\ newsec /\ ~SyncInProgress
    THEN Append(fsyncs, TRUE) ELSE fsyncs

Written == [file EXCEPT !.log = @ \o buf]

\* The buffer is written and synced as the policy asks.
FlushWrites ==
    /\ file' = Written
    /\ size' = size + Len(buf)
    /\ buf' = <<>>
    /\ postponed' = 0
    /\ synced' = IF ~NoFsync /\ policy = "always" THEN Len(Written.log) ELSE synced
    /\ fsyncs' = JobsAfterWrite
    /\ newsec' = IF NoFsync \/ policy = "no" THEN newsec ELSE FALSE

FlushAppendOnlyFile ==
    IF buf = <<>> THEN UNCHANGED <<file, size, buf, postponed, synced, fsyncs, newsec>>
    ELSE IF Postpones
    THEN /\ postponed' = Max({1, postponed})
         /\ UNCHANGED <<file, size, buf, synced, fsyncs, newsec>>
    ELSE FlushWrites

\* beforeSleep.  The replies are sent afterwards.
BeforeSleep ==
    /\ phase = "run"
    /\ phase' = "poll"
    /\ FlushAppendOnlyFile
    /\ acked' = IF policy = "always" /\ state = "ON" /\ buf # <<>> /\ ~NoFsync
                THEN Len(data) ELSE acked
    /\ UNCHANGED <<data, state, fd, selected, rwbuf, policy, procs, aofchild, rdbchild,
                   scheduled>>

\* aeApiPoll returns.
Poll ==
    /\ phase = "poll"
    /\ phase' = "run"
    /\ UNCHANGED <<data, state, fd, file, synced, size, policy, procs, fsyncs, acked,
                   memory>>

\* serverCron: a postponed flush is tried again.
CronFlush ==
    /\ phase = "run" /\ postponed > 0
    /\ FlushAppendOnlyFile
    /\ UNCHANGED <<data, state, fd, selected, rwbuf, policy, procs, aofchild, rdbchild,
                   scheduled, phase, acked>>

\* The bio thread
BioFsync ==
    /\ fsyncs # <<>>
    /\ synced' = IF Head(fsyncs) THEN Len(file.log) ELSE synced
    /\ fsyncs' = Tail(fsyncs)
    /\ UNCHANGED <<data, state, fd, file, size, policy, procs, phase, acked, memory>>

\* A second passes.
Tick ==
    /\ phase \in {"run", "poll", "switch"}
    /\ ~newsec \/ postponed \in {1, 2}
    /\ newsec' = TRUE
    /\ postponed' = IF postponed \in {1, 2} THEN postponed + 1 ELSE postponed
    /\ UNCHANGED <<data, state, fd, selected, buf, rwbuf, file, synced, size, policy,
                   procs, aofchild, rdbchild, scheduled, fsyncs, phase, acked>>

\* CONFIG SET appendfsync; the promise of "always" ends with it.
ConfigSetAppendfsync(p) ==
    /\ phase = "run"
    /\ policy' = p
    /\ acked' = IF p = "always" THEN acked ELSE 0
    /\ UNCHANGED <<data, state, fd, file, synced, size, procs, fsyncs, phase, memory>>

-----------------------------------------------------------------------------
(* Child processes *)

\* Mutant of ForkRewrite: the next write need not select its database.
ForkRewriteSelected(p) ==
    /\ aofchild = None /\ Forkable(p)
    /\ procs' = [procs EXCEPT ![p] = [st |-> "running", base |-> data]]
    /\ aofchild' = p
    /\ scheduled' = FALSE
    /\ UNCHANGED selected

\* rewriteAppendOnlyFileBackground
ForkRewrite(p) ==
    /\ aofchild = None /\ Forkable(p)
    /\ procs' = [procs EXCEPT ![p] = [st |-> "running", base |-> data]]
    /\ aofchild' = p
    /\ scheduled' = FALSE
    /\ selected' = None

\* BGREWRITEAOF, or serverCron for a scheduled rewrite or a file that has grown.
StartRewrite(p) ==
    /\ phase = "run" /\ rdbchild = None
    /\ ForkRewrite(p)
    /\ UNCHANGED <<data, state, fd, buf, rwbuf, file, synced, size, policy, rdbchild,
                   fsyncs, newsec, postponed, phase, acked>>

\* BGREWRITEAOF while a snapshot is saved
ScheduleRewrite ==
    /\ phase = "run" /\ aofchild = None /\ rdbchild # None
    /\ scheduled' = TRUE
    /\ UNCHANGED <<data, state, fd, selected, buf, rwbuf, file, synced, size, policy,
                   procs, aofchild, rdbchild, fsyncs, newsec, postponed, phase, acked>>

\* rdbSaveBackground.  SYNC starts one whether or not a rewrite is going on.
RdbSaveBackground(p) ==
    /\ phase = "run" /\ rdbchild = None /\ Forkable(p)
    /\ procs' = [procs EXCEPT ![p] = [st |-> "running", base |-> <<>>]]
    /\ rdbchild' = p
    /\ UNCHANGED <<data, state, fd, selected, buf, rwbuf, file, synced, size, policy,
                   aofchild, scheduled, fsyncs, newsec, postponed, phase, acked>>

Failed == [st |-> "err", base |-> <<>>]

\* A child ends: with success, with an error or by a signal.  How the saving
\* of a snapshot ends makes no difference here.
ChildExits(p) ==
    /\ procs[p].st = "running"
    /\ \/ procs' = [procs EXCEPT ![p].st = "ok"]
       \/ p # rdbchild /\ procs' = [procs EXCEPT ![p] = Failed]
    /\ UNCHANGED <<data, state, fd, file, synced, size, policy, fsyncs, phase, acked,
                   memory>>

\* serverCron: wait3 gives a child that is not the rewrite.
ReapOther(p) ==
    /\ phase = "run" /\ (rdbchild # None \/ aofchild # None)
    /\ Exited(p) /\ p # aofchild
    /\ procs' = [procs EXCEPT ![p] = NoProc]
    /\ rdbchild' = IF p = rdbchild THEN None ELSE rdbchild
    /\ UNCHANGED <<data, state, fd, selected, buf, rwbuf, file, synced, size, policy,
                   aofchild, scheduled, fsyncs, newsec, postponed, phase, acked>>

\* Mutant of ScheduledAfter: a rewrite that failed is not tried again.
ScheduledAfterDropped == scheduled

\* A server that waits for a rewrite to switch the file on needs another one.
ScheduledAfter == scheduled \/ state = "WAIT_REWRITE"

\* backgroundRewriteDoneHandler when the child failed, or the parent cannot
\* open, write or rename the new file.
RewriteFails ==
    /\ phase = "run" /\ aofchild # None /\ Exited(aofchild)
    /\ procs' = [procs EXCEPT ![aofchild] = NoProc]
    /\ rwbuf' = <<>>
    /\ aofchild' = None
    /\ scheduled' = ScheduledAfter
    /\ UNCHANGED <<data, state, fd, selected, buf, file, synced, size, policy, rdbchild,
                   fsyncs, newsec, postponed, phase, acked>>

\* Mutant of RewriteRename: what was synced of the old file counts for the new.
RewriteRenameSynced ==
    /\ phase = "run" /\ aofchild # None /\ procs[aofchild].st = "ok"
    /\ Len(fsyncs) < MaxJobs
    /\ \E d \in LastSelected(procs[aofchild].base) :
          file' = [base |-> procs[aofchild].base, db |-> d, log |-> rwbuf, torn |-> FALSE]
    /\ fsyncs' = Closed(fsyncs)
    /\ phase' = "switch"
    /\ procs' = [procs EXCEPT ![aofchild] = NoProc]
    /\ UNCHANGED <<data, state, fd, synced, size, policy, acked, memory>>

\* backgroundRewriteDoneHandler up to the rename: the new file has the
\* snapshot, which the child synced, and the differences.
RewriteRename ==
    /\ phase = "run" /\ aofchild # None /\ procs[aofchild].st = "ok"
    /\ Len(fsyncs) < MaxJobs
    /\ \E d \in LastSelected(procs[aofchild].base) :
          file' = [base |-> procs[aofchild].base, db |-> d, log |-> rwbuf, torn |-> FALSE]
    /\ synced' = 0
    /\ fsyncs' = Closed(fsyncs)
    /\ phase' = "switch"
    /\ procs' = [procs EXCEPT ![aofchild] = NoProc]
    /\ UNCHANGED <<data, state, fd, size, policy, acked, memory>>

SizeAfterSwitch == IF fd = "none" THEN size ELSE FileSize(file)

\* Mutant of BufAfterSwitch: the buffer is kept.
BufAfterSwitchKept == buf

\* What the buffer holds is in the new file already.
BufAfterSwitch == IF fd = "none" THEN buf ELSE <<>>

\* Mutant of SyncedAfterSwitch: the new file is left to the operating system.
SyncedAfterSwitchNever == synced

SyncedAfterSwitch == IF fd # "none" /\ policy = "always" THEN Len(file.log) ELSE synced

\* The rest of the handler: the new file replaces the old one.
RewriteSwitch ==
    /\ phase = "switch"
    /\ phase' = "run"
    /\ synced' = SyncedAfterSwitch
    /\ fsyncs' = IF fd # "none" /\ policy = "everysec" THEN Append(fsyncs, TRUE) ELSE fsyncs
    /\ selected' = IF fd = "none" THEN selected ELSE None
    /\ size' = SizeAfterSwitch
    /\ buf' = BufAfterSwitch
    /\ fd' = IF fd = "none" THEN "none" ELSE "open"
    /\ state' = IF state = "WAIT_REWRITE" THEN "ON" ELSE state
    /\ rwbuf' = <<>>
    /\ aofchild' = None
    /\ UNCHANGED <<data, file, policy, procs, rdbchild, scheduled, newsec, postponed,
                   acked>>

-----------------------------------------------------------------------------
(* Switching the file on and off *)

\* kill, and wait3, which returns any child that has exited.
KillAndWait ==
    LET killed == [procs EXCEPT ![aofchild] = IF @.st = "running" THEN Failed ELSE @]
    IN \E p \in Pid : killed[p].st \in {"ok", "err"} /\ procs' = [killed EXCEPT ![p] = NoProc]

StopAppendOnly ==
    /\ phase = "run" /\ state # "OFF"
    /\ file' = Written
    /\ synced' = Len(Written.log)
    /\ size' = size + Len(buf)
    /\ buf' = <<>>
    /\ postponed' = IF buf = <<>> THEN postponed ELSE 0
    /\ fsyncs' = Closed(JobsAfterWrite)
    /\ newsec' = IF buf = <<>> \/ NoFsync \/ policy = "no" THEN newsec ELSE FALSE
    /\ fd' = "none"
    /\ selected' = None
    /\ state' = "OFF"
    /\ IF aofchild = None THEN UNCHANGED <<procs, rwbuf, aofchild>>
       ELSE KillAndWait /\ rwbuf' = <<>> /\ aofchild' = None
    /\ UNCHANGED <<data, policy, rdbchild, scheduled, phase, acked>>

\* startAppendOnly
StartAppendOnly(p) ==
    /\ phase = "run" /\ state = "OFF"
    /\ newsec' = FALSE
    /\ fd' = "open"
    /\ ForkRewrite(p)
    /\ state' = "WAIT_REWRITE"
    /\ UNCHANGED <<data, buf, rwbuf, file, synced, size, policy, rdbchild, fsyncs,
                   postponed, phase, acked>>

\* startAppendOnly when open fails, or a rewrite is going on or cannot start:
\* the descriptor is closed and server.aof_fd keeps it.
StartAppendOnlyFails ==
    /\ phase = "run" /\ state = "OFF"
    /\ newsec' = FALSE
    /\ fd' \in {"none", "stale"}
    /\ UNCHANGED <<data, state, selected, buf, rwbuf, file, synced, size, policy, procs,
                   aofchild, rdbchild, scheduled, fsyncs, postponed, phase, acked>>

-----------------------------------------------------------------------------
(* The end of a process, and the next one *)

\* The process is gone, with its memory, its threads and what it knows of
\* its children; data is what it had.
Exit(ph) ==
    /\ phase' = ph
    /\ state' = "ON" /\ fd' = "open"
    /\ selected' = None /\ buf' = <<>> /\ rwbuf' = <<>>
    /\ procs' = [p \in Pid |-> NoProc]
    /\ aofchild' = None /\ rdbchild' = None /\ scheduled' = FALSE
    /\ fsyncs' = <<>> /\ newsec' = FALSE /\ postponed' = 0
    /\ UNCHANGED <<data, policy>>

\* A killed process leaves what it wrote; a machine that stops, at least what
\* was synced.  Between the rename and the fsync of a rewritten file that may
\* be less than before.
Crash ==
    /\ phase \in {"run", "poll", "switch"}
    /\ \E n \in synced..Len(file.log), torn \in BOOLEAN :
          /\ torn => n < Len(file.log)
          /\ file' = [file EXCEPT !.log = SubSeq(@, 1, n), !.torn = torn]
          /\ acked' = IF phase = "switch" THEN Min({acked, Len(file.base)}) ELSE acked
    /\ Exit("down")
    /\ UNCHANGED <<synced, size>>

\* The write of flushAppendOnlyFile fails: a short write is removed again,
\* unless that fails too.
FlushFails ==
    /\ phase = "run" /\ buf # <<>>
    /\ \E n \in 0..(Len(buf) - 1) :
          LET log == file.log \o SubSeq(buf, 1, n)
          IN \/ file' = [file EXCEPT !.log = SubSeq(log, 1, size - Len(file.base))]
             \/ file' = [file EXCEPT !.log = log, !.torn = TRUE]
    /\ Exit("down")
    /\ UNCHANGED <<synced, size, acked>>

\* prepareForShutdown.  The file is synced as it is.
Shutdown ==
    /\ phase = "run"
    /\ synced' = IF state = "OFF" THEN synced ELSE Len(file.log)
    /\ Exit(IF state = "ON" THEN "shutdown" ELSE "down")
    /\ UNCHANGED <<file, size, acked>>

\* prepareForShutdown when the snapshot cannot be saved: the server goes on,
\* without its children.
ShutdownFails ==
    /\ phase = "run"
    /\ synced' = IF state = "OFF" THEN synced ELSE Len(file.log)
    /\ procs' = [p \in Pid |->
                    IF procs[p].st = "running" /\ (p = rdbchild \/ (p = aofchild /\ state # "OFF"))
                    THEN Failed ELSE procs[p]]
    /\ UNCHANGED <<data, state, fd, file, size, policy, fsyncs, phase, acked, memory>>

\* redis-check-aof --fix
CheckAofFix ==
    /\ phase \in {"down", "shutdown"} /\ file.torn
    /\ file' = [file EXCEPT !.torn = FALSE]
    /\ UNCHANGED <<data, state, fd, synced, size, policy, procs, fsyncs, phase, acked,
                   memory>>

\* The server starts with "appendonly yes", and refuses a file with a torn end.
Restart ==
    /\ phase \in {"down", "shutdown"} /\ ~file.torn
    /\ phase' = "run"
    /\ data' = LoadedFile
    /\ size' = FileSize(file)
    /\ UNCHANGED <<state, fd, file, synced, policy, procs, fsyncs, acked, memory>>

-----------------------------------------------------------------------------

Next ==
    \/ \E d \in Db : WriteCommand(d)
    \/ BeforeSleep \/ Poll \/ CronFlush \/ BioFsync \/ Tick
    \/ \E p \in Policy : ConfigSetAppendfsync(p)
    \/ \E p \in Pid : StartRewrite(p) \/ RdbSaveBackground(p) \/ ReapOther(p)
                       \/ StartAppendOnly(p) \/ ChildExits(p)
    \/ ScheduleRewrite \/ RewriteFails \/ RewriteRename \/ RewriteSwitch
    \/ StopAppendOnly \/ StartAppendOnlyFails
    \/ Crash \/ FlushFails \/ Shutdown \/ ShutdownFails \/ CheckAofFix \/ Restart

Spec == Init /\ [][Next]_vars

\* The event loop goes on and seconds pass; nothing is assumed of the disk:
\* an fsync may take for ever.
Fairness ==
    WF_vars(BeforeSleep) /\ WF_vars(Poll) /\ WF_vars(RewriteSwitch) /\ WF_vars(Tick)

FairSpec == Spec /\ Fairness

-----------------------------------------------------------------------------
(* Properties *)

Prefix(s, t) == Len(s) <= Len(t) /\ \A i \in 1..Len(s) : s[i] = t[i]

\* Types.
TypeOK ==
    /\ data \in Seq(Write)
    /\ state \in {"ON", "OFF", "WAIT_REWRITE"} /\ fd \in {"none", "open", "stale"}
    /\ selected \in Db \cup {None}
    /\ buf \in Seq(Entry) /\ rwbuf \in Seq(Entry)
    /\ file \in [base : Seq(Write), db : Db, log : Seq(Entry), torn : BOOLEAN]
    /\ synced \in 0..Len(file.log) /\ size \in Nat
    /\ policy \in Policy
    /\ procs \in [Pid -> [st : {"free", "running", "ok", "err"}, base : Seq(Write)]]
    /\ aofchild \in Pid \cup {None} /\ rdbchild \in Pid \cup {None}
    /\ scheduled \in BOOLEAN
    /\ fsyncs \in Seq(BOOLEAN) /\ newsec \in BOOLEAN /\ postponed \in 0..3
    /\ phase \in {"run", "poll", "switch", "down", "shutdown"}
    /\ acked \in Nat

\* Whatever happened, loading the file gives the dataset as it was at some
\* moment: no write is missing in the middle, doubled, or in another database.
FileIsPrefix == Prefix(LoadedFile, data)

\* While the file is on, it and the buffer have the whole dataset; while it
\* is not off, so have the snapshot of a rewrite that did not fail and the differences,
\* whichever database that snapshot ends with.
NothingMissing ==
    /\ phase \in {"run", "poll"} /\ state = "ON" =>
          Loaded(file.base, file.db, file.log \o buf) = data
    /\ phase \in {"run", "poll"} /\ state # "OFF" /\ aofchild # None
          /\ procs[aofchild].st # "err" =>
          \A d \in Db : Loaded(procs[aofchild].base, d, rwbuf) = data

\* aof_state says what is the case.  ON: the descriptor written to is open and
\* aof_current_size, to which a short write is cut back, is the size of the
\* file.  WAIT_REWRITE: the rewrite that will switch the file on runs or is
\* scheduled, whatever failed, was refused or was killed before.
StateMeansFile ==
    phase \in {"run", "poll"} =>
      /\ state = "ON" => size = FileSize(file) /\ fd = "open"
      /\ state = "WAIT_REWRITE" => aofchild # None \/ scheduled

\* With "always", a write whose reply may have been sent survives the end of
\* the process or of the machine, rewrites and the file being switched off and
\* on.  (Except when either stops between the rename and the fsync of
\* a rewritten file.)
NoAckedLost == acked <= Len(data)

\* The buffer is written in the end, however long an fsync takes.
BufferWritten == (buf # <<>>) ~> (buf = <<>>)
=============================================================================
