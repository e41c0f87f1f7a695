------------------------------- MODULE StoreOpen -------------------------------
(***************************************************************************)
(* Store::open (crates/threads-store/src/store.rs, private_io_unix.rs,     *)
(* migrations.rs): every command that needs the store opens it by itself,  *)
(* and any number of them do so at once.  An open prepares the files of    *)
(* the database, one after the other, switches the database to WAL,        *)
(* reads the versions applied so far outside any transaction, and applies  *)
(* each of the others in a transaction of its own.  A process may be       *)
(* killed between any two steps, and the next one starts from what is on   *)
(* disk.                                                                   *)
(*                                                                         *)
(* SQLite is external, modelled as the code relies on it: one writer at a  *)
(* time; a transaction that starts with a write waits for the writer up to *)
(* the busy timeout, one that has read before it writes fails at once if   *)
(* there is a writer or has been one since; the last connection to close   *)
(* removes the side files; a side file SQLite makes has the mode of the    *)
(* database.                                                               *)
(***************************************************************************)
EXTENDS Integers, FiniteSets

CONSTANTS Openers,   \* processes that open the store
          NoOne,
          Latest,    \* 4: the migrations of migrations()
          MaxOpens   \* bound on the commands each of them runs

ASSUME StoreOpenAssumption ==
  /\ IsFiniteSet(Openers)
  /\ NoOne \notin Openers
  /\ Latest \in Nat \ {0}
  /\ MaxOpens \in Nat

VARIABLES
  parent,    \* the directory of the database
  file,      \* its files, as prepare_database_path finds them
  wal,       \* whether the header of the database says WAL
  tracking,  \* whether schema_migrations exists
  built,     \* versions whose tables exist
  recorded,  \* versions in schema_migrations
  writer,    \* the process that holds the write lock
  pc,        \* where each process is
  target,    \* the file it prepares
  todo,      \* the versions it has not found applied
  fresh,     \* whether what its transaction has read is still the latest
  opens,     \* commands it has started
  contended  \* history: processes whose open has overlapped another's steps

disk    == <<parent, file, wal>>
schema  == <<tracking, built, recorded>>
process == <<pc, target, todo, fresh>>
history == <<opens, contended>>
vars    == <<disk, schema, writer, process, history>>

Versions == 1 .. Latest

\* "alien": not a regular file, or not the user's.
Files  == {"db", "-wal", "-shm"}
States == {"absent", "private", "shared", "alien"}

Connected == {"connect", "switch", "table", "read", "next", "upgrade", "apply",
              "record", "commit", "open", "writing"}
Opening   == {"parent", "find", "create", "reopen"} \cup (Connected \ {"open", "writing"})
Ended     == {"idle", "closed", "failed", "killed"}
Using     == {"open", "writing"}

At(p, place) == pc[p] = place

Goto(p, place) == pc' = [pc EXCEPT ![p] = place]

\* Everyone else who is opening is no longer alone.
Others(p) == {q \in Openers \ {p} : pc[q] \in Opening}

Interfere(p) ==
  contended' = contended \cup Others(p) \cup (IF Others(p) # {} THEN {p} ELSE {})

Step(p) == Interfere(p) /\ UNCHANGED opens

\* A commit makes what other transactions have read old.
Outdate(p) == fresh' = [q \in Openers |-> q = p /\ fresh[q]]

-----------------------------------------------------------------------------

Init ==
  /\ \E k \in 0 .. Latest :
       /\ built = 1 .. k
       /\ recorded = 1 .. k
       /\ tracking = (k > 0) /\ wal = (k > 0)
       /\ file \in [Files -> States]
       /\ k > 0 => file["db"] \in {"private", "shared"}
       /\ k = 0 => file["db"] \in {"absent", "alien"}
       /\ file["db"] = "absent" => \A f \in Files : file[f] = "absent"
       /\ \A f \in Files \ {"db"} : file[f] \in {"absent", file["db"]}
  /\ parent \in {"absent", "safe", "unsafe"}
  /\ parent = "absent" => file["db"] = "absent"
  /\ writer = NoOne
  /\ pc = [p \in Openers |-> "idle"]
  /\ target = [p \in Openers |-> "db"]
  /\ todo = [p \in Openers |-> {}]
  /\ fresh = [p \in Openers |-> FALSE]
  /\ opens = [p \in Openers |-> 0]
  /\ contended = {}

\* A command starts.
Start(p) ==
  /\ pc[p] \in Ended
  /\ opens[p] < MaxOpens
  /\ opens' = [opens EXCEPT ![p] = @ + 1]
  /\ pc' = [pc EXCEPT ![p] = "parent"]
  /\ target' = [target EXCEPT ![p] = "db"]
  /\ contended' = (contended \ {p}) \cup Others(p)
                  \cup (IF \E q \in Openers \ {p} : pc[q] \notin Ended THEN {p} ELSE {})
  /\ UNCHANGED <<disk, schema, writer, todo, fresh>>

\* What closing the connection of p leaves of the side files.
Remaining(p) ==
  IF wal /\ \A q \in Openers \ {p} : pc[q] \notin Connected
  THEN [file EXCEPT !["-wal"] = "absent", !["-shm"] = "absent"]
  ELSE file

\* The open returns an error: its transaction, if any, is rolled back and its
\* connection, if any, closed.
Fail(p) ==
  /\ Goto(p, "failed")
  /\ file' = IF pc[p] \in Connected THEN Remaining(p) ELSE file
  /\ writer' = IF writer = p THEN NoOne ELSE writer
  /\ Step(p)
  /\ UNCHANGED <<parent, wal, schema, target, todo, fresh>>

-----------------------------------------------------------------------------
(* The files of the database                                               *)

\* create_safe_parent: missing directories are made, and the chain validated.
FindParent(p) ==
  /\ At(p, "parent")
  /\ IF parent = "unsafe"
     THEN Fail(p)
     ELSE /\ parent' = "safe"
          /\ Goto(p, "find")
          /\ Step(p)
          /\ UNCHANGED <<file, wal, schema, writer, target, todo, fresh>>

\* The files are prepared in this order; a missing -shm is left to SQLite.
Prepared(p) ==
  /\ target' = [target EXCEPT ![p] = IF @ = "db" THEN "-wal" ELSE "-shm"]
  /\ Goto(p, IF target[p] = "-shm" THEN "connect" ELSE "find")
  /\ Step(p)
  /\ UNCHANGED <<parent, wal, schema, writer, todo, fresh>>

\* Slips for the mutation runs, here and below.
NormalizeKeepingMode(p) ==
  IF file[target[p]] = "alien" THEN Fail(p) ELSE Prepared(p) /\ UNCHANGED file

\* normalize_existing_database, over an open descriptor.
Normalize(p) ==
  IF file[target[p]] = "alien"
  THEN Fail(p)
  ELSE Prepared(p) /\ file' = [file EXCEPT ![target[p]] = "private"]

FindNeedsShm(p) ==
  /\ At(p, "find")
  /\ \/ file[target[p]] # "absent" /\ Normalize(p)
     \/ /\ file[target[p]] = "absent"
        /\ IF target[p] = "-shm"
           THEN Fail(p)
           ELSE /\ Goto(p, "create")
                /\ Step(p)
                /\ UNCHANGED <<disk, schema, writer, target, todo, fresh>>

\* create_or_validate_database, normalize_existing_database_if_present
Find(p) ==
  /\ At(p, "find")
  /\ \/ file[target[p]] # "absent" /\ Normalize(p)
     \/ /\ file[target[p]] = "absent"
        /\ IF target[p] = "-shm"
           THEN Prepared(p) /\ UNCHANGED file
           ELSE /\ Goto(p, "create")
                /\ Step(p)
                /\ UNCHANGED <<disk, schema, writer, target, todo, fresh>>

\* create_database: create_new fails if someone was faster.
Create(p) ==
  /\ At(p, "create")
  /\ IF file[target[p]] = "absent"
     THEN Prepared(p) /\ file' = [file EXCEPT ![target[p]] = "private"]
     ELSE /\ Goto(p, "reopen")
          /\ Step(p)
          /\ UNCHANGED <<disk, schema, writer, target, todo, fresh>>

\* Its second look at the file takes NotFound for an error.
Reopen(p) ==
  /\ At(p, "reopen")
  /\ IF file[target[p]] = "absent" THEN Fail(p) ELSE Normalize(p)

-----------------------------------------------------------------------------
(* The connection                                                          *)

\* The side files a connection in WAL mode needs.
WithSideFiles == [f \in Files |-> IF file[f] = "absent" THEN file["db"] ELSE file[f]]

\* PRAGMA journal_mode = WAL: a database that has it is joined.  One that has
\* not, an empty one, is locked for the switch; the -wal beside it is removed.
Connect(p) ==
  /\ At(p, "connect")
  /\ \/ /\ wal
        /\ file' = WithSideFiles
        /\ Goto(p, "table")
        /\ Step(p)
        /\ UNCHANGED <<parent, wal, schema, writer, target, todo, fresh>>
     \/ /\ ~wal /\ writer = NoOne
        /\ file' = [file EXCEPT !["-wal"] = "absent"]
        /\ writer' = p
        /\ Goto(p, "switch")
        /\ Step(p)
        /\ UNCHANGED <<parent, wal, schema, target, todo, fresh>>
     \/ ~wal /\ writer # NoOne /\ Fail(p)

Switch(p) ==
  /\ At(p, "switch")
  /\ wal' = TRUE
  /\ file' = WithSideFiles
  /\ writer' = NoOne
  /\ Goto(p, "table")
  /\ Step(p)
  /\ UNCHANGED <<parent, schema, target, todo, fresh>>

\* migrations() is in ascending order.
IsNext(p, v) == v \in todo[p] /\ \A w \in todo[p] : v <= w

\* The busy timeout of 5 s runs out.
WaitsToWrite(p) ==
  \/ At(p, "table") /\ ~tracking
  \/ At(p, "next") /\ \E v \in todo[p] : IsNext(p, v) /\ v > 1

TimeOut(p) ==
  /\ writer \notin {NoOne, p}
  /\ WaitsToWrite(p)
  /\ Fail(p)

-----------------------------------------------------------------------------
(* run_migrations                                                          *)

\* CREATE TABLE IF NOT EXISTS schema_migrations, by itself.
CreateTracking(p) ==
  /\ At(p, "table")
  /\ tracking \/ writer = NoOne
  /\ tracking' = TRUE
  /\ Goto(p, "read")
  /\ Step(p)
  /\ UNCHANGED <<disk, built, recorded, writer, target, todo, fresh>>

\* SELECT version FROM schema_migrations, outside any transaction.
ReadApplied(p) ==
  /\ At(p, "read")
  /\ todo' = [todo EXCEPT ![p] = Versions \ recorded]
  /\ Goto(p, "next")
  /\ Step(p)
  /\ UNCHANGED <<disk, schema, writer, target, fresh>>

\* unchecked_transaction is deferred: the first statement decides.  That of v1 is
\* about schema_migrations, which exists, and those of a version that is built
\* find their tables too: the transaction starts with a read.
BeginReading(p) ==
  /\ At(p, "next")
  /\ \E v \in todo[p] : IsNext(p, v) /\ (v = 1 \/ v \in built)
  /\ fresh' = [fresh EXCEPT ![p] = TRUE]
  /\ Goto(p, "upgrade")
  /\ Step(p)
  /\ UNCHANGED <<disk, schema, writer, target, todo>>

\* Otherwise, or when the connection does not know yet what others have built, it
\* starts with a write.
BeginWriting(p) ==
  /\ At(p, "next")
  /\ \E v \in todo[p] : IsNext(p, v) /\ v > 1
  /\ writer = NoOne
  /\ writer' = p
  /\ Goto(p, "apply")
  /\ Step(p)
  /\ UNCHANGED <<disk, schema, target, todo, fresh>>

UpgradeWaits(p) ==
  /\ At(p, "upgrade")
  /\ writer = NoOne /\ fresh[p]
  /\ writer' = p
  /\ Goto(p, "apply")
  /\ Step(p)
  /\ UNCHANGED <<disk, schema, target, todo, fresh>>

UpgradeLeavesItToOthers(p) ==
  /\ At(p, "upgrade")
  /\ IF writer = NoOne /\ fresh[p]
     THEN writer' = p /\ Goto(p, "apply") /\ UNCHANGED todo
     ELSE /\ Goto(p, "next")
          /\ \E v \in todo[p] : IsNext(p, v) /\ todo' = [todo EXCEPT ![p] = @ \ {v}]
          /\ UNCHANGED writer
  /\ Step(p)
  /\ UNCHANGED <<disk, schema, target, fresh>>

\* The first write of a transaction that has read.
Upgrade(p) ==
  /\ At(p, "upgrade")
  /\ IF writer = NoOne /\ fresh[p]
     THEN /\ writer' = p
          /\ Goto(p, "apply")
          /\ Step(p)
          /\ UNCHANGED <<disk, schema, target, todo, fresh>>
     ELSE Fail(p)

\* migration_v1 to migration_v4: nobody sees it before the commit.
Apply(p) ==
  /\ At(p, "apply")
  /\ Goto(p, "record")
  /\ Step(p)
  /\ UNCHANGED <<disk, schema, writer, target, todo, fresh>>

\* INSERT OR IGNORE INTO schema_migrations
Record(p) ==
  /\ At(p, "record")
  /\ Goto(p, "commit")
  /\ Step(p)
  /\ UNCHANGED <<disk, schema, writer, target, todo, fresh>>

Commit(p) ==
  /\ At(p, "commit")
  /\ \E v \in todo[p] :
       /\ IsNext(p, v)
       /\ built' = built \cup {v}
       /\ recorded' = recorded \cup {v}
       /\ todo' = [todo EXCEPT ![p] = @ \ {v}]
  /\ writer' = NoOne
  /\ Outdate(p)
  /\ Goto(p, "next")
  /\ Step(p)
  /\ UNCHANGED <<disk, tracking, target>>

\* Every version is applied: the open returns the store.
Open(p) ==
  /\ At(p, "next")
  /\ todo[p] = {}
  /\ Goto(p, "open")
  /\ Step(p)
  /\ UNCHANGED <<disk, schema, writer, target, todo, fresh>>

-----------------------------------------------------------------------------
(* The rest of the command                                                 *)

\* Any write of the command.
StartWrite(p) ==
  /\ At(p, "open")
  /\ writer = NoOne
  /\ writer' = p
  /\ Goto(p, "writing")
  /\ Step(p)
  /\ UNCHANGED <<disk, schema, target, todo, fresh>>

EndWrite(p) ==
  /\ At(p, "writing")
  /\ writer' = NoOne
  /\ Outdate(p)
  /\ Goto(p, "open")
  /\ Step(p)
  /\ UNCHANGED <<disk, schema, target, todo>>

Close(p) ==
  /\ At(p, "open")
  /\ file' = Remaining(p)
  /\ Goto(p, "closed")
  /\ Step(p)
  /\ UNCHANGED <<parent, wal, schema, writer, target, todo, fresh>>

\* The process dies; the operating system drops its locks, the files stay.
Kill(p) ==
  /\ pc[p] \notin Ended
  /\ Goto(p, "killed")
  /\ writer' = IF writer = p THEN NoOne ELSE writer
  /\ Step(p)
  /\ UNCHANGED <<disk, schema, target, todo, fresh>>

\* What an open, once started, goes on to do.
GoOn(p) ==
  \/ FindParent(p) \/ Find(p) \/ Create(p) \/ Reopen(p)
  \/ Connect(p) \/ Switch(p) \/ TimeOut(p)
  \/ CreateTracking(p) \/ ReadApplied(p)
  \/ BeginReading(p) \/ BeginWriting(p) \/ Upgrade(p)
  \/ Apply(p) \/ Record(p) \/ Commit(p) \/ Open(p)
  \/ EndWrite(p)

Next == \E p \in Openers : Start(p) \/ GoOn(p) \/ StartWrite(p) \/ Close(p) \/ Kill(p)

\* A process that is not killed goes on; its user, and what a command does with
\* the store, are not fair.
Spec == Init /\ [][Next]_vars /\ \A p \in Openers : WF_vars(GoOn(p))

-----------------------------------------------------------------------------
(* Properties                                                              *)

TypeOK ==
  /\ parent \in {"absent", "safe", "unsafe"}
  /\ file \in [Files -> States]
  /\ wal \in BOOLEAN /\ tracking \in BOOLEAN
  /\ built \subseteq Versions /\ recorded \subseteq Versions
  /\ writer \in Openers \cup {NoOne}
  /\ pc \in [Openers -> Opening \cup Using \cup Ended]
  /\ target \in [Openers -> Files]
  /\ todo \in [Openers -> SUBSET Versions]
  /\ fresh \in [Openers -> BOOLEAN]
  /\ opens \in [Openers -> 0 .. MaxOpens]
  /\ contended \subseteq Openers

\* A version is recorded exactly when its tables exist, whoever was killed in the
\* middle of a migration and however many run the same one.
RecordedIsBuilt == recorded = built

\* Whoever has the store open finds every version, also those it left to others
\* because they were recorded when it looked.
OpenStoreIsComplete == \A p \in Openers : pc[p] \in Using => built = Versions

\* No file of an open database can be read by other users, whoever made it and
\* whenever the side files were removed and made again.
OpenFilesArePrivate ==
  \A p \in Openers : pc[p] \in Using => \A f \in Files : file[f] = "private"

\* An open that meets nobody succeeds: nothing that was left behind by a killed
\* or failed one makes it fail.
LoneOpenSucceeds ==
  parent # "unsafe" /\ (\A f \in Files : file[f] # "alien") =>
    \A p \in Openers : At(p, "failed") => p \in contended

\* The schema grows by the next version, and is whole for whoever uses it.
Growing == INSTANCE Schema
             WITH Users <- Openers, schema <- built,
                  using <- {p \in Openers : pc[p] \in Using}
ImplementsSchema == Growing!Spec

\* Every open ends.
OpensEnd == \A p \in Openers : pc[p] \in Opening ~> pc[p] \notin Opening

=============================================================================
