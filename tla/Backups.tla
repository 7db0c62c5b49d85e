------------------------------ MODULE Backups ------------------------------
(***************************************************************************)
(* Backups of the SQLite database and their restore (scripts/ops/          *)
(* backup_scheduler.py, backup_sqlite.py, restore_sqlite.py): the          *)
(* scheduler, one operator who makes a backup or restores one by hand, and *)
(* the application that writes.  A file is named by the second at which it *)
(* was begun.  SQLite's backup is a transaction of the file it writes: what *)
(* the file held stays until the copy is finished.                         *)
(***************************************************************************)
EXTENDS Integers, FiniteSets, FiniteSetsExt, Functions, Tables

CONSTANTS
    KeepLast,     \* --keep-last
    DrillEvery,   \* --restore-drill-every, 0 for never
    EndOfTime,    \* bound on the clock
    LastVersion   \* bound on the writes of the application

ASSUME BackupAssumption ==
    /\ KeepLast \in Nat \ {0}
    /\ {DrillEvery, EndOfTime, LastVersion} \subseteq Nat

Torn == 0     \* what a file holds that is not, or only partly, written

VARIABLES
    second,   \* the clock, in full seconds
    db,       \* the version the database holds
    files,    \* app_<second>.sqlite: the version it holds
    sched,    \* the scheduler: [pc, name, cycle]
    oper,     \* the operator's command: [pc, name]
    source,   \* the version that a restore copies
    pre,      \* pre_restore_<second>.db: the version it holds
    old,      \* what the last restore found; Torn again when it was broken off
              \* before it had done anything, and the application has written
    newest    \* the greatest name of the finished backups; Torn before the first

bkvars == <<second, db, files, sched, oper, source, pre, old, newest>>

Idle == [pc |-> "idle", name |-> 0]

BKInit ==
    /\ second = 1 /\ db = 1
    /\ files = <<>> /\ pre = <<>>
    /\ sched = [pc |-> "asleep", name |-> 0, cycle |-> 0]
    /\ oper = Idle
    /\ source = Torn /\ old = Torn /\ newest = Torn

\* The file exists as soon as it is opened, and keeps what it holds.
Opened(name) == IF name \in DOMAIN files THEN files ELSE Put(files, name, Torn)

\* The copy ends.  A database that is only half restored is copied as it is.
Finished(name) ==
    /\ name \in DOMAIN files
    /\ files' = Put(files, name, db)
    /\ newest' = Max({newest, name})

-----------------------------------------------------------------------------
(* The scheduler.                                                          *)

\* A turn of run_scheduler, at least a second after the last one: backup_sqlite opens
\* the file.
BeginBackup ==
    /\ sched.pc = "asleep" /\ second > sched.name
    /\ files' = Opened(second)
    /\ sched' = [pc |-> "copying", name |-> second, cycle |-> sched.cycle + 1]
    /\ UNCHANGED <<second, db, oper, source, pre, old, newest>>

EndBackup ==
    /\ sched.pc = "copying"
    /\ Finished(sched.name)
    /\ sched' = [sched EXCEPT !.pc = "cleaning"]
    /\ UNCHANGED <<second, db, oper, source, pre, old>>

\* Mutant: the oldest files are kept.
FirstNames == {n \in DOMAIN files : Cardinality({k \in DOMAIN files : k < n}) < KeepLast}

\* The names that sort last, whatever the files hold.
KeptNames == {n \in DOMAIN files : Cardinality({k \in DOMAIN files : k > n}) < KeepLast}

\* _cleanup_retention.
Cleanup ==
    /\ sched.pc = "cleaning"
    /\ files' = Restrict(files, KeptNames)
    /\ sched' = [sched EXCEPT !.pc =
          IF DrillEvery > 0 /\ sched.cycle % Max({1, DrillEvery}) = 0
          THEN "drilling" ELSE "asleep"]
    /\ UNCHANGED <<second, db, oper, source, pre, old, newest>>

\* _restore_drill: a file that is gone or is not whole ends the scheduler.
Drill ==
    /\ sched.pc = "drilling"
    /\ sched' = [sched EXCEPT !.pc =
          IF sched.name \in DOMAIN files /\ files[sched.name] # Torn THEN "asleep" ELSE "dead"]
    /\ UNCHANGED <<second, db, files, oper, source, pre, old, newest>>

\* The process ends at any point, by a crash, an error or a failed drill, and is
\* started again.
SchedulerRestarts ==
    /\ sched' = [pc |-> "asleep", name |-> 0, cycle |-> 0]
    /\ sched # sched'
    /\ UNCHANGED <<second, db, files, oper, source, pre, old, newest>>

-----------------------------------------------------------------------------
(* The operator.                                                           *)

BeginByHand ==
    /\ oper.pc = "idle"
    /\ files' = Opened(second)
    /\ oper' = [pc |-> "copying", name |-> second]
    /\ UNCHANGED <<second, db, sched, source, pre, old, newest>>

EndByHand ==
    /\ oper.pc = "copying"
    /\ Finished(oper.name)
    /\ oper' = Idle
    /\ UNCHANGED <<second, db, sched, source, pre, old>>

\* restore_sqlite with --force, of a file that exists.
BeginRestore(n) ==
    /\ oper.pc = "idle" /\ n \in DOMAIN files
    /\ oper' = [pc |-> "saving", name |-> n]
    /\ pre' = Put(pre, second, Torn)
    /\ old' = db
    /\ UNCHANGED <<second, db, files, sched, source, newest>>

\* The copy of the database as it was, in the file that was begun last.
SaveOld ==
    /\ oper.pc = "saving"
    /\ pre' = Put(pre, Max(DOMAIN pre), db)
    /\ oper' = [oper EXCEPT !.pc = "saved"]
    /\ UNCHANGED <<second, db, files, sched, source, old, newest>>

\* Mutant: the copy of the old database is not waited for.
OverwriteAtOnce ==
    /\ oper.pc \in {"saving", "saved"} /\ oper.name \in DOMAIN files
    /\ source' = files[oper.name]
    /\ db' = Torn
    /\ oper' = [oper EXCEPT !.pc = "restoring"]
    /\ UNCHANGED <<second, files, sched, pre, old, newest>>

\* copy2 opens the backup, unless the retention has removed it, and writes over the
\* database.
Overwrite ==
    /\ oper.pc = "saved" /\ oper.name \in DOMAIN files
    /\ source' = files[oper.name]
    /\ db' = Torn
    /\ oper' = [oper EXCEPT !.pc = "restoring"]
    /\ UNCHANGED <<second, files, sched, pre, old, newest>>

EndRestore ==
    /\ oper.pc = "restoring"
    /\ db' = source
    /\ source' = Torn
    /\ oper' = Idle
    /\ UNCHANGED <<second, files, sched, pre, old, newest>>

\* The operator's command is broken off at any point.
BreakOff ==
    /\ oper.pc # "idle"
    /\ oper' = Idle
    /\ source' = Torn
    /\ UNCHANGED <<second, db, files, sched, pre, old, newest>>

-----------------------------------------------------------------------------

\* External: the application writes.  It is stopped during a restore.
Write ==
    /\ oper.pc \in {"idle", "copying"} /\ db # Torn /\ db < LastVersion
    /\ db' = db + 1
    /\ old' = IF old \in Range(pre) THEN old ELSE Torn
    /\ UNCHANGED <<second, files, sched, oper, source, pre, newest>>

NextSecond ==
    /\ second < EndOfTime
    /\ second' = second + 1
    /\ UNCHANGED <<db, files, sched, oper, source, pre, old, newest>>

BKNext ==
    \/ BeginBackup \/ EndBackup \/ Cleanup \/ Drill \/ SchedulerRestarts
    \/ BeginByHand \/ EndByHand \/ SaveOld \/ Overwrite \/ EndRestore \/ BreakOff
    \/ \E n \in DOMAIN files : BeginRestore(n)
    \/ Write \/ NextSecond

BKSpec == BKInit /\ [][BKNext]_bkvars

-----------------------------------------------------------------------------

\* Through crashes, commands that are broken off and copies that overlap, the newest
\* finished backup is removed only when KeepLast files with later names exist:
\* unfinished files count there too, so they are what a larger KeepLast is for.
NewestBackupKept ==
    newest # Torn =>
        \/ newest \in DOMAIN files
        \/ Cardinality({n \in DOMAIN files : n > newest}) >= KeepLast

\* Wherever a restore is broken off, and whatever is restored after it, the content
\* that the last restore found is the database's or in a pre_restore file.
RestoreKeepsOld == old \in {Torn, db} \cup Range(pre)

=============================================================================
