------------------------------ MODULE Backups ------------------------------
(***************************************************************************)
(* The managed backups of services/backups.py and their routes in api.py:  *)
(* threads that copy the live database, prune the oldest copies, and put   *)
(* one of them back while the application goes on writing.                 *)
(***************************************************************************)
EXTENDS Naturals, FiniteSets, FiniteSetsExt, Functions

CONSTANTS Threads,      \* handlers and the daily job
          Empty, Torn,  \* contents of a file whose copy was never finished
          Keep,         \* backups that are kept (seven)
          MaxFiles,     \* bounds on the files ever made,
          MaxWrites,    \* the changes of the database
          MaxCrashes    \* and the crashes

BackupsAssumption ==
    /\ IsFiniteSet(Threads)
    /\ Keep \in Nat \ {0} /\ MaxFiles \in Nat /\ MaxWrites \in Nat /\ MaxCrashes \in Nat
    /\ Empty # Torn /\ {Empty, Torn} \cap (0..MaxWrites) = {}

VARIABLES
    database,   \* the live database: the number of its last change, or Empty
    writes,     \* the changes there were
    files,      \* the backup directory: the content of each file by its stamp
    made,       \* the last stamp
    thread,     \* each thread: its operation, where it is, and what it holds
    crashes

vars == <<database, writes, files, made, thread, crashes>>

Contents == 0..MaxWrites \cup {Empty, Torn}

Idle == [op |-> "none", at |-> "idle", chosen |-> 0, held |-> Empty, own |-> 0, saved |-> Empty]

ThreadStates == [op : {"none", "backup", "restore"},
                 at : {"idle", "opening", "creating", "copying", "pruning", "replacing"},
                 chosen : 0..MaxFiles, held : Contents, own : 0..MaxFiles, saved : Contents]

TypeOK ==
    /\ database \in Contents \ {Torn}
    /\ writes \in 0..MaxWrites
    /\ made \in 0..MaxFiles
    /\ DOMAIN files \subseteq 1..made /\ Range(files) \subseteq Contents
    /\ thread \in [Threads -> ThreadStates]
    /\ crashes \in 0..MaxCrashes

Init ==
    /\ database = 0 /\ writes = 0
    /\ files = [f \in {} |-> Empty] /\ made = 0
    /\ thread = [t \in Threads |-> Idle]
    /\ crashes = 0

Holding(f, content) == [g \in DOMAIN files \cup {f} |-> IF g = f THEN content ELSE files[g]]

Newest(S) == {f \in S : Cardinality({g \in S : g > f}) < Keep}

End(t) == thread' = [thread EXCEPT ![t] = Idle]

-----------------------------------------------------------------------------
(* Other requests and jobs write.                                          *)
Write ==
    /\ writes < MaxWrites
    /\ writes' = writes + 1
    /\ database' = writes'
    /\ UNCHANGED <<files, made, thread, crashes>>

(* backup_database, which only the lease "backup" keeps from itself, and   *)
(* POST /backups, which nothing does.                                      *)
BackUp(t) ==
    /\ thread[t].at = "idle"
    /\ thread' = [thread EXCEPT ![t].op = "backup", ![t].at = "creating"]
    /\ UNCHANGED <<database, writes, files, made, crashes>>

(* POST /backups/{filename}/restore: the file is listed and exists ...     *)
Choose(t) ==
    /\ thread[t].at = "idle"
    /\ \E f \in DOMAIN files :
        thread' = [thread EXCEPT ![t].op = "restore", ![t].at = "opening", ![t].chosen = f]
    /\ UNCHANGED <<database, writes, files, made, crashes>>

(* ... and is opened, which makes an empty one if it was pruned meanwhile; *)
(* an empty file passes the integrity check.                               *)
Open(t) ==
    /\ thread[t].at = "opening"
    /\ LET f       == thread[t].chosen
           content == IF f \in DOMAIN files THEN files[f] ELSE Empty
       IN  /\ files' = Holding(f, content)
           /\ IF content = Torn
              THEN End(t)
              ELSE thread' = [thread EXCEPT ![t].at = "creating", ![t].held = content]
    /\ UNCHANGED <<database, writes, made, crashes>>

(* create_backup: the file is made, the snapshot written into it and       *)
(* checked; on failure it is removed again.                                *)
Reserve(t) ==
    /\ thread[t].at = "creating" /\ made < MaxFiles
    /\ made' = made + 1
    /\ files' = Holding(made', Empty)
    /\ thread' = [thread EXCEPT ![t].at = "copying", ![t].own = made']
    /\ UNCHANGED <<database, writes, crashes>>

Snapshot(t) ==
    /\ thread[t].at = "copying"
    /\ files' = Holding(thread[t].own, database)
    /\ thread' = [thread EXCEPT ![t].at = "pruning", ![t].saved = database]
    /\ UNCHANGED <<database, writes, made, crashes>>

SnapshotFails(t) ==
    /\ thread[t].at = "copying"
    /\ files' = Restrict(files, DOMAIN files \ {thread[t].own})
    /\ End(t)
    /\ UNCHANGED <<database, writes, made, crashes>>

AfterPrune(t) ==
    IF thread[t].op = "restore" THEN thread' = [thread EXCEPT ![t].at = "replacing"] ELSE End(t)

(* Mutant: the list is not reversed, so the oldest files are kept.         *)
PruneNewest(t) ==
    /\ thread[t].at = "pruning"
    /\ files' = Restrict(files,
                    {f \in DOMAIN files : Cardinality({g \in DOMAIN files : g < f}) < Keep})
    /\ AfterPrune(t)
    /\ UNCHANGED <<database, writes, made, crashes>>

PruneBackups(t) ==
    /\ thread[t].at = "pruning"
    /\ files' = Restrict(files, Newest(DOMAIN files))
    /\ AfterPrune(t)
    /\ UNCHANGED <<database, writes, made, crashes>>

(* SQLite's backup API replaces the database in one transaction, or not.   *)
Replace(t) ==
    /\ thread[t].at = "replacing"
    /\ database' \in {thread[t].held, database}
    /\ End(t)
    /\ UNCHANGED <<writes, files, made, crashes>>

(* The process stops: a file that was being written stays as it was left.  *)
Crash ==
    /\ crashes < MaxCrashes
    /\ crashes' = crashes + 1
    /\ \E left \in {Empty, Torn} :
        files' = [f \in DOMAIN files |->
                    IF \E t \in Threads : thread[t].at = "copying" /\ thread[t].own = f
                    THEN left ELSE files[f]]
    /\ thread' = [t \in Threads |-> Idle]
    /\ UNCHANGED <<database, writes, made>>

Next ==
    \/ Write \/ Crash
    \/ \E t \in Threads :
        BackUp(t) \/ Choose(t) \/ Open(t) \/ Reserve(t) \/ Snapshot(t) \/ SnapshotFails(t)
        \/ PruneBackups(t) \/ Replace(t)

Spec == Init /\ [][Next]_vars

-----------------------------------------------------------------------------
(* When a restore replaces the database, what the safety copy was made of  *)
(* is in a backup that is listed, whatever other backups and restores make *)
(* and prune meanwhile, short of Keep later ones (restore_backup).  Later  *)
(* ones count even if they fail: an unfinished file takes a place.         *)
SafetyCopyStays ==
    \A t \in Threads : thread[t].at = "replacing" =>
        LET own == thread[t].own
        IN  \/ own \in DOMAIN files /\ files[own] = thread[t].saved
            \/ made - own >= Keep
=============================================================================
