---------------------------- MODULE StoreOpenProofs ----------------------------
(***************************************************************************)
(* Theorems about opening the store, for every number of processes,        *)
(* versions and commands.  What matters of a step to the schema is one of  *)
(* four things: it reads what is applied, commits a version, returns the   *)
(* store, or has nothing to do with it; the lemmas are about these.        *)
(***************************************************************************)
EXTENDS StoreOpen, FiniteSetTheorems, TLAPS

USE StoreOpenAssumption

\* Where a process knows what is applied.
Migrating == {"next", "upgrade", "apply", "record", "commit"}
Loop      == Migrating \cup Using

\* The tables of the versions 1 to k exist, for some k.
Prefix == \E k \in 0 .. Latest : built = 1 .. k

\* What a process does not have to apply is built, and it has nothing to apply
\* while it uses the store.
Covered(p) ==
  /\ pc[p] \in Loop => Versions \ todo[p] \subseteq built
  /\ pc[p] \in Using => todo[p] = {}

SchemaInv == TypeOK /\ RecordedIsBuilt /\ Prefix /\ \A p \in Openers : Covered(p)

\* A step that has nothing to do with the schema: it may leave the loop over the
\* migrations or go on in it, and may stop using the store.
Quiet(p) ==
  /\ UNCHANGED <<built, recorded, todo>>
  /\ \A q \in Openers \ {p} : pc'[q] = pc[q]
  /\ pc'[p] \in Loop => pc[p] \in Loop
  /\ pc'[p] \in Using => pc[p] \in Using

-----------------------------------------------------------------------------
(* Types                                                                   *)

LEMMA InitTyped == Init => TypeOK
BY SMTT(60) DEF Init, TypeOK, Versions, Files, States, Opening, Connected, Using, Ended

LEMMA StepTyped == TypeOK /\ [Next]_vars => TypeOK'
<1> SUFFICES ASSUME TypeOK, [Next]_vars PROVE TypeOK'
  OBVIOUS
<1> USE DEF TypeOK, Step, Interfere, Others, Goto, At, Opening, Connected, Using, Ended
<1> DEFINE Places == Opening \cup Using \cup Ended
<1>1. CASE UNCHANGED vars
  BY <1>1 DEF vars, disk, schema, process, history
<1>2. ASSUME NEW p \in Openers, Start(p) PROVE TypeOK'
  BY <1>2 DEF Start, disk, schema, Files
<1>3. ASSUME NEW p \in Openers, Fail(p) PROVE TypeOK'
  BY <1>3 DEF Fail, Remaining, schema, Files, States
<1>4. ASSUME NEW p \in Openers, FindParent(p) PROVE TypeOK'
  BY <1>4, <1>3 DEF FindParent, schema
<1>5. ASSUME NEW p \in Openers, Prepared(p), file' \in [Files -> States] PROVE TypeOK'
  BY <1>5 DEF Prepared, schema, Files
<1>6. ASSUME NEW p \in Openers, Normalize(p) PROVE TypeOK'
  BY <1>6, <1>5, <1>3 DEF Normalize, States
<1>7. ASSUME NEW p \in Openers, Find(p) PROVE TypeOK'
  BY <1>7, <1>6, <1>5 DEF Find, disk, schema
<1>8. ASSUME NEW p \in Openers, Create(p) PROVE TypeOK'
  BY <1>8, <1>5 DEF Create, disk, schema, States
<1>9. ASSUME NEW p \in Openers, Reopen(p) PROVE TypeOK'
  BY <1>9, <1>6, <1>3 DEF Reopen
<1>10. ASSUME NEW p \in Openers, Connect(p) PROVE TypeOK'
  BY <1>10, <1>3 DEF Connect, WithSideFiles, schema, Files, States
<1>11. ASSUME NEW p \in Openers, Switch(p) PROVE TypeOK'
  BY <1>11 DEF Switch, WithSideFiles, schema, Files, States
<1>12. ASSUME NEW p \in Openers, TimeOut(p) PROVE TypeOK'
  BY <1>12, <1>3 DEF TimeOut
<1>13. ASSUME NEW p \in Openers, CreateTracking(p) PROVE TypeOK'
  BY <1>13 DEF CreateTracking, disk
<1>14. ASSUME NEW p \in Openers, ReadApplied(p) PROVE TypeOK'
  BY <1>14 DEF ReadApplied, disk, schema
<1>15. ASSUME NEW p \in Openers, BeginReading(p) PROVE TypeOK'
  BY <1>15 DEF BeginReading, disk, schema
<1>16. ASSUME NEW p \in Openers, BeginWriting(p) PROVE TypeOK'
  BY <1>16 DEF BeginWriting, disk, schema
<1>17. ASSUME NEW p \in Openers, Upgrade(p) PROVE TypeOK'
  BY <1>17, <1>3 DEF Upgrade, disk, schema
<1>18. ASSUME NEW p \in Openers, Apply(p) PROVE TypeOK'
  BY <1>18 DEF Apply, disk, schema
<1>19. ASSUME NEW p \in Openers, Record(p) PROVE TypeOK'
  BY <1>19 DEF Record, disk, schema
<1>20. ASSUME NEW p \in Openers, Commit(p) PROVE TypeOK'
  BY <1>20 DEF Commit, disk, IsNext, Outdate
<1>21. ASSUME NEW p \in Openers, Open(p) PROVE TypeOK'
  BY <1>21 DEF Open, disk, schema
<1>22. ASSUME NEW p \in Openers, EndWrite(p) PROVE TypeOK'
  BY <1>22 DEF EndWrite, disk, schema, Outdate
<1>23. ASSUME NEW p \in Openers, StartWrite(p) PROVE TypeOK'
  BY <1>23 DEF StartWrite, disk, schema
<1>24. ASSUME NEW p \in Openers, Close(p) PROVE TypeOK'
  BY <1>24 DEF Close, Remaining, schema, Files, States
<1>25. ASSUME NEW p \in Openers, Kill(p) PROVE TypeOK'
  BY <1>25 DEF Kill, disk, schema
<1> QED
  BY <1>1, <1>2, <1>4, <1>7, <1>8, <1>9, <1>10, <1>11, <1>12, <1>13, <1>14, <1>15,
     <1>16, <1>17, <1>18, <1>19, <1>20, <1>21, <1>22, <1>23, <1>24, <1>25
     DEF Next, GoOn

\* The variables have their types, whatever the interleaving.
THEOREM Typing == Spec => []TypeOK
<1> QED
  BY InitTyped, StepTyped, PTL DEF Spec

-----------------------------------------------------------------------------
(* The steps, as the schema sees them                                      *)

LEMMA FailIsQuiet ==
  ASSUME TypeOK, NEW p \in Openers, Fail(p)
  PROVE  Quiet(p)
  BY DEF TypeOK, Fail, Quiet, Goto, schema, Loop, Migrating, Using, Ended

LEMMA PrepareIsQuiet ==
  ASSUME TypeOK, NEW p \in Openers, Prepared(p) \/ Normalize(p)
  PROVE  Quiet(p)
<1>1. CASE Prepared(p)
  BY <1>1 DEF TypeOK, Prepared, Quiet, Goto, schema, Loop, Migrating, Using, Opening, Connected
<1>2. CASE Normalize(p)
  BY <1>1, <1>2, FailIsQuiet DEF Normalize
<1>3. QED
  BY <1>1, <1>2

LEMMA Kinds ==
  ASSUME TypeOK, NEW p \in Openers,
         Start(p) \/ GoOn(p) \/ StartWrite(p) \/ Close(p) \/ Kill(p)
  PROVE  Quiet(p) \/ ReadApplied(p) \/ Commit(p) \/ Open(p)
<1> USE DEF TypeOK, Quiet, Goto, At, disk, schema, Loop, Migrating, Using, Opening, Connected, Ended
<1>1. CASE Start(p)
  BY <1>1 DEF Start
<1>2. CASE FindParent(p)
  BY <1>2, FailIsQuiet DEF FindParent
<1>3. CASE Find(p)
  BY <1>3, PrepareIsQuiet DEF Find
<1>4. CASE Create(p)
  BY <1>4, PrepareIsQuiet DEF Create
<1>5. CASE Reopen(p)
  BY <1>5, PrepareIsQuiet, FailIsQuiet DEF Reopen
<1>6. CASE Connect(p)
  BY <1>6, FailIsQuiet DEF Connect
<1>7. CASE Switch(p)
  BY <1>7 DEF Switch
<1>8. CASE TimeOut(p)
  BY <1>8, FailIsQuiet DEF TimeOut
<1>9. CASE CreateTracking(p)
  BY <1>9 DEF CreateTracking
<1>10. CASE BeginReading(p)
  BY <1>10 DEF BeginReading
<1>11. CASE BeginWriting(p)
  BY <1>11 DEF BeginWriting
<1>12. CASE Upgrade(p)
  BY <1>12, FailIsQuiet DEF Upgrade
<1>13. CASE Apply(p)
  BY <1>13 DEF Apply
<1>14. CASE Record(p)
  BY <1>14 DEF Record
<1>15. CASE StartWrite(p)
  BY <1>15 DEF StartWrite
<1>16. CASE EndWrite(p)
  BY <1>16 DEF EndWrite
<1>17. CASE Close(p)
  BY <1>17 DEF Close
<1>18. CASE Kill(p)
  BY <1>18 DEF Kill
<1>19. QED
  BY <1>1, <1>2, <1>3, <1>4, <1>5, <1>6, <1>7, <1>8, <1>9, <1>10, <1>11, <1>12,
     <1>13, <1>14, <1>15, <1>16, <1>17, <1>18 DEF GoOn

\* A commit adds the version after the last, or one that is there already.
LEMMA CommitGrows ==
  ASSUME SchemaInv, NEW p \in Openers, Commit(p)
  PROVE  \/ UNCHANGED built
         \/ \E k \in 0 .. Latest - 1 : built = 1 .. k /\ built' = 1 .. (k + 1)
<1>1. PICK v \in todo[p] : IsNext(p, v) /\ built' = built \cup {v}
  BY DEF Commit
<1>2. PICK k \in 0 .. Latest : built = 1 .. k
  BY DEF SchemaInv, Prefix
<1>3. v \in Versions
  BY <1>1 DEF SchemaInv, TypeOK
<1>4. \A w \in Versions : w < v => w \in built
  <2>1. Versions \ todo[p] \subseteq built
    BY DEF SchemaInv, Covered, Commit, At, Loop, Migrating
  <2>2. \A w \in todo[p] : w \in Int /\ v <= w
    BY <1>1 DEF IsNext, SchemaInv, TypeOK, Versions
  <2>3. QED
    BY <1>3, <2>1, <2>2 DEF Versions
<1>5. CASE v <= k
  BY <1>1, <1>2, <1>3, <1>5 DEF Versions
<1>6. CASE v > k
  <2>1. v = k + 1
    <3>1. SUFFICES ASSUME v > k + 1 PROVE FALSE
      BY <1>2, <1>3, <1>6 DEF Versions
    <3>2. k + 1 \in Versions /\ k + 1 < v
      BY <1>2, <1>3, <3>1 DEF Versions
    <3>3. QED
      BY <1>2, <1>4, <3>2
  <2>2. built' = 1 .. (k + 1) /\ k \in 0 .. Latest - 1
    BY <1>1, <1>2, <1>3, <2>1 DEF Versions
  <2>3. QED
    BY <1>2, <2>2
<1>7. QED
  BY <1>2, <1>3, <1>5, <1>6 DEF Versions

-----------------------------------------------------------------------------
(* The invariant                                                           *)

LEMMA InitSchema == Init => SchemaInv
  BY InitTyped DEF Init, SchemaInv, RecordedIsBuilt, Prefix, Covered, Loop, Migrating, Using

LEMMA StepSchema == SchemaInv /\ [Next]_vars => SchemaInv'
<1> SUFFICES ASSUME SchemaInv, [Next]_vars PROVE SchemaInv'
  OBVIOUS
<1>1. TypeOK'
  BY StepTyped DEF SchemaInv
<1>2. CASE UNCHANGED vars
  BY <1>2, <1>1 DEF vars, schema, process, SchemaInv, RecordedIsBuilt, Prefix, Covered
<1>3. ASSUME NEW p \in Openers, Quiet(p) PROVE SchemaInv'
  <2>1. UNCHANGED <<built, recorded, todo>>
    BY <1>3 DEF Quiet
  <2>2. \A q \in Openers : Covered(q)'
    BY <1>3, <2>1 DEF SchemaInv, Quiet, Covered
  <2>3. QED
    BY <1>1, <2>1, <2>2 DEF SchemaInv, RecordedIsBuilt, Prefix
<1>4. ASSUME NEW p \in Openers, ReadApplied(p) PROVE SchemaInv'
  <2>1. /\ UNCHANGED <<built, recorded>>
        /\ todo' = [todo EXCEPT ![p] = Versions \ recorded]
        /\ pc' = [pc EXCEPT ![p] = "next"]
    BY <1>4 DEF ReadApplied, schema, Goto
  <2>2. \A q \in Openers : Covered(q)'
    BY <2>1 DEF SchemaInv, TypeOK, RecordedIsBuilt, Covered, Using
  <2>3. QED
    BY <1>1, <2>1, <2>2 DEF SchemaInv, RecordedIsBuilt, Prefix
<1>5. ASSUME NEW p \in Openers, Commit(p) PROVE SchemaInv'
  <2>1. PICK v \in todo[p] :
          /\ built' = built \cup {v}
          /\ recorded' = recorded \cup {v}
          /\ todo' = [todo EXCEPT ![p] = @ \ {v}]
    BY <1>5 DEF Commit
  <2>2. pc[p] = "commit" /\ pc' = [pc EXCEPT ![p] = "next"]
    BY <1>5 DEF Commit, At, Goto
  <2>3. \A q \in Openers : Covered(q)'
    BY <2>1, <2>2 DEF SchemaInv, TypeOK, Covered, Loop, Migrating, Using
  <2>4. Prefix'
    BY <1>5, CommitGrows DEF SchemaInv, Prefix
  <2>5. QED
    BY <1>1, <2>1, <2>3, <2>4 DEF SchemaInv, RecordedIsBuilt
<1>6. ASSUME NEW p \in Openers, Open(p) PROVE SchemaInv'
  <2>1. /\ pc[p] = "next" /\ todo[p] = {}
        /\ pc' = [pc EXCEPT ![p] = "open"]
        /\ UNCHANGED <<built, recorded, todo>>
    BY <1>6 DEF Open, At, Goto, schema
  <2>2. \A q \in Openers : Covered(q)'
    BY <2>1 DEF SchemaInv, TypeOK, Covered, Loop, Migrating
  <2>3. QED
    BY <1>1, <2>1, <2>2 DEF SchemaInv, RecordedIsBuilt, Prefix
<1>7. QED
  BY <1>2, <1>3, <1>4, <1>5, <1>6, Kinds DEF Next, SchemaInv

LEMMA SchemaInvariant == Spec => []SchemaInv
<1> QED
  BY InitSchema, StepSchema, PTL DEF Spec

\* A process that uses the store finds every version: it has nothing left to
\* apply, and what it did not have to apply is built.
LEMMA UsersFindAll ==
  ASSUME SchemaInv, NEW p \in Openers, pc[p] \in Loop, todo[p] = {}
  PROVE  built = Versions
  BY DEF SchemaInv, Covered, TypeOK

-----------------------------------------------------------------------------
(* Theorems                                                                *)

\* A version is recorded exactly when its tables exist, whoever was killed in the
\* middle of a migration and however many have run it.
THEOREM RecordedIsAlwaysBuilt == Spec => []RecordedIsBuilt
<1>1. SchemaInv => RecordedIsBuilt
  BY DEF SchemaInv
<1>2. QED
  BY <1>1, SchemaInvariant, PTL

\* Whoever has the store open finds every version.
THEOREM OpenStoreIsAlwaysComplete == Spec => []OpenStoreIsComplete
<1>1. SchemaInv => OpenStoreIsComplete
  BY UsersFindAll DEF SchemaInv, Covered, OpenStoreIsComplete, Loop
<1>2. QED
  BY <1>1, SchemaInvariant, PTL

\* Opening implements the schema that only grows: a commit is a Migrate or
\* changes nothing, a successful open is an Enter, and the end of a process that
\* used the store a Leave.
THEOREM OpenImplementsSchema == Spec => ImplementsSchema
<1>1. Init => Growing!Init
  BY DEF Init, Growing!Init, Using
<1>2. SchemaInv /\ [Next]_vars => [Growing!Next]_(Growing!vars)
  <2> SUFFICES ASSUME SchemaInv, [Next]_vars
               PROVE  [Growing!Next]_(Growing!vars)
    OBVIOUS
  <2> DEFINE using == {q \in Openers : pc[q] \in Using}
  <2>1. CASE UNCHANGED vars
    BY <2>1 DEF vars, schema, process, Growing!vars
  <2>2. ASSUME NEW p \in Openers, Quiet(p)
        PROVE  [Growing!Next]_(Growing!vars)
    <3>1. UNCHANGED built
      BY <2>2 DEF Quiet
    <3>2. using' = using \/ using' = using \ {p}
      BY <2>2 DEF Quiet, SchemaInv, TypeOK
    <3>3. QED
      BY <3>1, <3>2 DEF Growing!Next, Growing!Leave, Growing!vars
  <2>3. ASSUME NEW p \in Openers, ReadApplied(p)
        PROVE  [Growing!Next]_(Growing!vars)
    <3>1. UNCHANGED built
      BY <2>3 DEF ReadApplied, schema
    <3>2. using' = using
      BY <2>3 DEF ReadApplied, At, Goto, SchemaInv, TypeOK, Using
    <3>3. QED
      BY <3>1, <3>2 DEF Growing!vars
  <2>4. ASSUME NEW p \in Openers, Commit(p)
        PROVE  [Growing!Next]_(Growing!vars)
    <3>1. using' = using
      BY <2>4 DEF Commit, At, Goto, SchemaInv, TypeOK, Using
    <3>2. QED
      BY <2>4, <3>1, CommitGrows DEF Growing!Next, Growing!Migrate, Growing!vars
  <2>5. ASSUME NEW p \in Openers, Open(p)
        PROVE  [Growing!Next]_(Growing!vars)
    <3>1. UNCHANGED built
      BY <2>5 DEF Open, schema
    <3>2. using' = using \cup {p}
      BY <2>5 DEF Open, At, Goto, SchemaInv, TypeOK, Using
    <3>3. built = 1 .. Latest
      BY <2>5, UsersFindAll DEF Open, At, Loop, Migrating, Versions
    <3>4. QED
      BY <3>1, <3>2, <3>3 DEF Growing!Next, Growing!Enter
  <2>6. QED
    BY <2>1, <2>2, <2>3, <2>4, <2>5, Kinds DEF Next, SchemaInv
<1>3. QED
  BY <1>1, <1>2, SchemaInvariant, PTL DEF Spec, ImplementsSchema, Growing!Spec

-----------------------------------------------------------------------------
(* The files                                                               *)

\* Who relies on the side files.
InWal(p) == pc[p] \in Connected \ {"connect", "switch"}

\* The files an open has prepared.
Handled(p) ==
  {f \in Files :
     \/ pc[p] \in Connected
     \/ /\ pc[p] \in {"find", "create", "reopen"}
        /\ \/ f = "db" /\ target[p] # "db"
           \/ f = "-wal" /\ target[p] = "-shm"}

\* Nobody else can read the file, nor what SQLite makes in its place.
Safe(f) == file[f] = "private" \/ (f # "db" /\ file[f] = "absent")

FilesInv(p) ==
  /\ pc[p] = "parent" => target[p] = "db"
  /\ \A f \in Handled(p) : Safe(f)
  /\ InWal(p) => wal /\ \A f \in Files : file[f] # "absent"

\* What a step may do to the files: it makes them private, or removes side files
\* nobody else relies on.
FileStep(p) ==
  /\ \A q \in Openers \ {p} : pc'[q] = pc[q] /\ target'[q] = target[q]
  /\ wal => wal'
  /\ \A f \in Files :
       \/ file'[f] = file[f]
       \/ file[f] # "alien" /\ file'[f] = "private"
       \/ /\ file[f] # "alien" /\ f # "db" /\ file'[f] = "absent"
          /\ \A q \in Openers \ {p} : ~InWal(q)
  /\ FilesInv(p)'

LEMMA FailFiles ==
  ASSUME TypeOK, NEW p \in Openers, \A q \in Openers : FilesInv(q), Fail(p)
  PROVE  FileStep(p)
<1>1. /\ pc' = [pc EXCEPT ![p] = "failed"]
      /\ UNCHANGED <<wal, target>>
      /\ file' = IF pc[p] \in Connected THEN Remaining(p) ELSE file
  BY DEF Fail, Goto
<1>2. FilesInv(p)'
  BY <1>1 DEF TypeOK, FilesInv, Handled, InWal, Connected
<1>3. CASE pc[p] \in Connected
  <2>1. \A f \in Files : Safe(f)
    BY <1>3 DEF FilesInv, Handled
  <2>2. CASE wal /\ \A q \in Openers \ {p} : pc[q] \notin Connected
    <3>1. file' = [file EXCEPT !["-wal"] = "absent", !["-shm"] = "absent"]
      BY <1>1, <1>3, <2>2 DEF Remaining
    <3>2. \A q \in Openers \ {p} : ~InWal(q)
      BY <2>2 DEF InWal
    <3>3. QED
      BY <1>1, <1>2, <2>1, <3>1, <3>2 DEF FileStep, TypeOK, Files, Safe
  <2>3. CASE ~(wal /\ \A q \in Openers \ {p} : pc[q] \notin Connected)
    BY <1>1, <1>2, <1>3, <2>3 DEF FileStep, TypeOK, Remaining
  <2>4. QED
    BY <2>2, <2>3
<1>4. CASE pc[p] \notin Connected
  BY <1>1, <1>2, <1>4 DEF FileStep, TypeOK
<1>5. QED
  BY <1>3, <1>4

\* The next file, or the connection.
LEMMA PreparedFiles ==
  ASSUME TypeOK, NEW p \in Openers, \A q \in Openers : FilesInv(q), Prepared(p),
         pc[p] \in {"find", "create", "reopen"},
         \/ file' = file /\ target[p] = "-shm" /\ file["-shm"] = "absent"
         \/ /\ file[target[p]] # "alien"
            /\ file' = [file EXCEPT ![target[p]] = "private"]
  PROVE  FileStep(p)
<1>1. /\ pc' = [pc EXCEPT ![p] = IF target[p] = "-shm" THEN "connect" ELSE "find"]
      /\ target' = [target EXCEPT ![p] = IF @ = "db" THEN "-wal" ELSE "-shm"]
      /\ wal' = wal
      /\ target[p] \in Files
  BY DEF Prepared, Goto, TypeOK
<1>2. ASSUME NEW f \in Files
      PROVE  \/ file'[f] = file[f]
             \/ file[f] # "alien" /\ file'[f] = "private"
  BY <1>1 DEF TypeOK
<1>3. \A f \in Files : f = target[p] => Safe(f)'
  BY <1>1 DEF TypeOK, Safe
<1>4. \A f \in Handled(p) : Safe(f)'
  BY <1>2 DEF FilesInv, Safe, Handled
<1>5. \A f \in Handled(p)' : f \in Handled(p) \/ f = target[p]
  BY <1>1 DEF TypeOK, Handled, Files, Connected
<1>6. FilesInv(p)'
  <2>1. pc'[p] # "parent" /\ ~InWal(p)'
    BY <1>1 DEF TypeOK, InWal, Connected
  <2>2. \A f \in Handled(p)' : f \in Files
    BY DEF Handled
  <2>3. QED
    BY <1>3, <1>4, <1>5, <2>1, <2>2 DEF FilesInv
<1>7. QED
  BY <1>1, <1>2, <1>6 DEF FileStep, TypeOK

LEMMA NormalizeFiles ==
  ASSUME TypeOK, NEW p \in Openers, \A q \in Openers : FilesInv(q), Normalize(p),
         pc[p] \in {"find", "create", "reopen"}
  PROVE  FileStep(p)
  BY FailFiles, PreparedFiles DEF Normalize

\* A step that leaves the files alone and goes on with what it has prepared.
LEMMA OtherFiles ==
  ASSUME TypeOK, NEW p \in Openers, \A q \in Openers : FilesInv(q),
         NEW place, pc' = [pc EXCEPT ![p] = place],
         UNCHANGED <<file, wal, target>>,
         \/ place \in Ended
         \/ InWal(p) /\ place \in Connected
         \/ pc[p] \in {"find", "create"} /\ place \in {"create", "reopen"}
         \/ pc[p] = "parent" /\ place = "find"
  PROVE  FileStep(p)
<1>1. pc'[p] = place /\ \A q \in Openers \ {p} : pc'[q] = pc[q]
  BY DEF TypeOK
<1>2. FilesInv(p)'
  BY <1>1 DEF FilesInv, Handled, InWal, Safe, Connected, Ended
<1>3. QED
  BY <1>1, <1>2 DEF FileStep

\* Joining or switching to WAL makes the side files that are missing.
LEMMA ConnectedFiles ==
  ASSUME TypeOK, NEW p \in Openers, \A q \in Openers : FilesInv(q),
         pc[p] \in {"connect", "switch"},
         pc' = [pc EXCEPT ![p] = "table"],
         file' = WithSideFiles, wal' = TRUE, target' = target
  PROVE  FileStep(p)
<1>1. \A f \in Files : Safe(f)
  BY DEF FilesInv, Handled, Connected
<1>2. \A f \in Files : file'[f] = "private"
  BY <1>1 DEF WithSideFiles, Safe, Files
<1>3. \A f \in Files : file[f] # "alien"
  BY <1>1 DEF Safe
<1>4. FilesInv(p)'
  BY <1>2 DEF FilesInv, Handled, InWal, Safe, TypeOK
<1>5. QED
  BY <1>2, <1>3, <1>4 DEF FileStep, TypeOK

-----------------------------------------------------------------------------
(* Being alone                                                             *)

\* The places in which a process may hold the write lock.
Holding == {"switch", "apply", "record", "commit", "writing"}

WriterInv == writer # NoOne => pc[writer] \in Holding

\* What makes an open fail that meets nobody.
Hopeless == parent = "unsafe" \/ \E f \in Files : file[f] = "alien"

\* While no step of another has overlapped an open, no other process runs, and
\* the open finds everything as it left it.
AloneInv(p) ==
  p \notin contended =>
    /\ pc[p] \in Opening => \A q \in Openers \ {p} : pc[q] \in Ended
    /\ pc[p] = "create" => file[target[p]] = "absent"
    /\ pc[p] # "reopen"
    /\ pc[p] = "upgrade" => fresh[p]
    /\ pc[p] = "failed" => Hopeless

OpenInv ==
  /\ TypeOK
  /\ WriterInv
  /\ \A q \in Openers : FilesInv(q) /\ AloneInv(q)

\* What a step of a process may do to the others, and where it leaves its own.
AloneStep(p) ==
  /\ FileStep(p)
  /\ Others(p) \cup (contended \ {p}) \subseteq contended'
  /\ Hopeless => Hopeless'
  /\ WriterInv'
  /\ AloneInv(p)'

LEMMA HopelessStays ==
  ASSUME NEW p \in Openers, FileStep(p), Hopeless, parent = "unsafe" => parent' = "unsafe"
  PROVE  Hopeless'
  BY DEF Hopeless, FileStep

\* The steps of an open, and what follows it.
LEMMA GoesOnAlone ==
  ASSUME OpenInv, NEW p \in Openers, FileStep(p), Interfere(p),
         NEW place, pc' = [pc EXCEPT ![p] = place],
         place \in Opening => pc[p] \in Opening,
         parent = "unsafe" => parent' = "unsafe",
         \/ writer' = writer /\ (pc[p] \in Holding => place \in Holding)
         \/ writer' = p /\ place \in Holding
         \/ writer' = NoOne
         \/ writer' = IF writer = p THEN NoOne ELSE writer,
         p \notin contended =>
           /\ place = "create" => file'[target'[p]] = "absent"
           /\ place # "reopen"
           /\ place = "upgrade" => fresh'[p]
           /\ place = "failed" => Hopeless'
  PROVE  AloneStep(p)
<1>1. pc'[p] = place /\ \A q \in Openers \ {p} : pc'[q] = pc[q]
  BY DEF OpenInv, TypeOK
<1>2. Hopeless => Hopeless'
  BY HopelessStays
<1>3. WriterInv'
  BY <1>1 DEF OpenInv, TypeOK, WriterInv
<1>4. Others(p) \cup contended \subseteq contended'
  BY DEF Interfere
<1>5. AloneInv(p)'
  BY <1>1, <1>4 DEF OpenInv, AloneInv
<1>6. QED
  BY <1>2, <1>3, <1>4, <1>5 DEF AloneStep

LEMMA FailsAlone ==
  ASSUME OpenInv, NEW p \in Openers, Fail(p), p \notin contended => Hopeless
  PROVE  AloneStep(p)
<1>1. FileStep(p)
  BY FailFiles DEF OpenInv
<1>2. /\ Interfere(p)
      /\ pc' = [pc EXCEPT ![p] = "failed"]
      /\ writer' = IF writer = p THEN NoOne ELSE writer
      /\ parent' = parent
  BY DEF Fail, Step, Goto
<1>3. Hopeless => Hopeless'
  BY <1>1, <1>2, HopelessStays
<1>4. "failed" \notin Opening
  BY DEF Opening, Connected
<1>5. QED
  BY <1>1, <1>2, <1>3, <1>4, GoesOnAlone

\* A file that is prepared leads to the next one, or to the connection.
LEMMA PreparesAlone ==
  ASSUME OpenInv, NEW p \in Openers, Prepared(p),
         pc[p] \in {"find", "create", "reopen"},
         \/ file' = file /\ target[p] = "-shm" /\ file["-shm"] = "absent"
         \/ /\ file[target[p]] # "alien"
            /\ file' = [file EXCEPT ![target[p]] = "private"]
  PROVE  AloneStep(p)
<1>1. FileStep(p)
  BY PreparedFiles DEF OpenInv
<1>2. /\ Interfere(p)
      /\ pc' = [pc EXCEPT ![p] = IF target[p] = "-shm" THEN "connect" ELSE "find"]
      /\ writer' = writer /\ parent' = parent
      /\ pc[p] \notin Holding /\ pc[p] \in Opening
  BY DEF Prepared, Step, Goto, Holding, Opening
<1>3. CASE target[p] = "-shm"
  <2>1. pc' = [pc EXCEPT ![p] = "connect"]
    BY <1>2, <1>3
  <2>2. "connect" \in Opening
    BY DEF Opening, Connected
  <2>3. QED
    BY <1>1, <1>2, <2>1, <2>2, GoesOnAlone
<1>4. CASE target[p] # "-shm"
  <2>1. pc' = [pc EXCEPT ![p] = "find"]
    BY <1>2, <1>4
  <2>2. "find" \in Opening
    BY DEF Opening
  <2>3. QED
    BY <1>1, <1>2, <2>1, <2>2, GoesOnAlone
<1>5. QED
  BY <1>3, <1>4

LEMMA NormalizesAlone ==
  ASSUME OpenInv, NEW p \in Openers, Normalize(p),
         pc[p] \in {"find", "create", "reopen"}
  PROVE  AloneStep(p)
<1>1. CASE file[target[p]] = "alien"
  <2>1. Hopeless
    BY <1>1 DEF Hopeless, OpenInv, TypeOK
  <2>2. QED
    BY <1>1, <2>1, FailsAlone DEF Normalize
<1>2. CASE file[target[p]] # "alien"
  BY <1>2, PreparesAlone DEF Normalize
<1>3. QED
  BY <1>1, <1>2

\* A process that meets nobody never waits for the lock.
LEMMA NobodyWrites ==
  ASSUME OpenInv, NEW p \in Openers, p \notin contended, pc[p] \in Opening,
         writer # NoOne
  PROVE  writer = p
  BY DEF OpenInv, TypeOK, WriterInv, Holding, AloneInv, Ended

LEMMA StartAlone ==
  ASSUME OpenInv, NEW p \in Openers, Start(p)
  PROVE  AloneStep(p)
<1>1. /\ pc[p] \in Ended
      /\ pc' = [pc EXCEPT ![p] = "parent"]
      /\ target' = [target EXCEPT ![p] = "db"]
      /\ UNCHANGED <<parent, file, wal, writer>>
      /\ contended' = (contended \ {p}) \cup Others(p)
                      \cup (IF \E q \in Openers \ {p} : pc[q] \notin Ended THEN {p} ELSE {})
  BY DEF Start, disk
<1>2. pc'[p] = "parent" /\ target'[p] = "db" /\ \A q \in Openers \ {p} : pc'[q] = pc[q]
  BY <1>1 DEF OpenInv, TypeOK
<1>3. FileStep(p)
  BY <1>1, <1>2 DEF FileStep, FilesInv, Handled, InWal, Connected, OpenInv, TypeOK
<1>4. WriterInv'
  BY <1>1, <1>2 DEF OpenInv, TypeOK, WriterInv, Holding, Ended
<1>5. AloneInv(p)'
  BY <1>1, <1>2 DEF AloneInv
<1>6. QED
  BY <1>1, <1>3, <1>4, <1>5 DEF AloneStep, Hopeless

LEMMA FilesAlone ==
  ASSUME OpenInv, NEW p \in Openers,
         FindParent(p) \/ Find(p) \/ Create(p) \/ Reopen(p)
  PROVE  AloneStep(p)
<1> USE DEF At
<1>0. TypeOK /\ (\A q \in Openers : FilesInv(q)) /\ AloneInv(p)
  BY DEF OpenInv
<1>1. CASE FindParent(p)
  <2>1. CASE parent = "unsafe"
    BY <1>1, <2>1, FailsAlone DEF FindParent, Hopeless
  <2>2. CASE parent # "unsafe"
    <3>1. /\ pc[p] = "parent" /\ Interfere(p)
          /\ pc' = [pc EXCEPT ![p] = "find"]
          /\ UNCHANGED <<file, wal, writer, target>>
      BY <1>1, <2>2 DEF FindParent, Step, Goto
    <3>2. FileStep(p)
      BY <1>0, <3>1, OtherFiles
    <3>3. QED
      BY <2>2, <3>1, <3>2, GoesOnAlone DEF Opening, Holding
  <2>3. QED
    BY <2>1, <2>2
<1>2. CASE Find(p)
  <2>1. pc[p] = "find"
    BY <1>2 DEF Find
  <2>2. CASE Normalize(p)
    BY <2>1, <2>2, NormalizesAlone
  <2>3. CASE target[p] = "-shm" /\ file[target[p]] = "absent" /\ Prepared(p) /\ file' = file
    BY <2>1, <2>3, PreparesAlone
  <2>4. CASE /\ file[target[p]] = "absent"
             /\ Goto(p, "create") /\ Step(p)
             /\ UNCHANGED <<disk, schema, writer, target, todo, fresh>>
    <3>1. /\ Interfere(p)
          /\ pc' = [pc EXCEPT ![p] = "create"]
          /\ UNCHANGED <<parent, file, wal, writer, target>>
      BY <2>4 DEF Step, Goto, disk
    <3>2. FileStep(p)
      BY <1>0, <2>1, <3>1, OtherFiles
    <3>3. QED
      BY <2>1, <2>4, <3>1, <3>2, GoesOnAlone DEF Opening, Holding
  <2>5. QED
    BY <1>2, <2>2, <2>3, <2>4 DEF Find
<1>3. CASE Create(p)
  <2>1. pc[p] = "create"
    BY <1>3 DEF Create
  <2>2. CASE file[target[p]] = "absent"
    BY <1>3, <2>1, <2>2, PreparesAlone DEF Create
  <2>3. CASE file[target[p]] # "absent"
    <3>1. /\ Interfere(p)
          /\ pc' = [pc EXCEPT ![p] = "reopen"]
          /\ UNCHANGED <<parent, file, wal, writer, target>>
      BY <1>3, <2>3 DEF Create, Step, Goto, disk
    <3>2. FileStep(p)
      BY <1>0, <2>1, <3>1, OtherFiles
    <3>3. p \in contended
      BY <1>0, <2>1, <2>3 DEF AloneInv
    <3>4. QED
      BY <2>1, <3>1, <3>2, <3>3, GoesOnAlone DEF Opening, Holding
  <2>4. QED
    BY <2>2, <2>3
<1>4. CASE Reopen(p)
  <2>1. pc[p] = "reopen" /\ p \in contended
    BY <1>0, <1>4 DEF Reopen, AloneInv
  <2>2. QED
    BY <1>4, <2>1, FailsAlone, NormalizesAlone DEF Reopen
<1>5. QED
  BY <1>1, <1>2, <1>3, <1>4

LEMMA ConnectsAlone ==
  ASSUME OpenInv, NEW p \in Openers, Connect(p) \/ Switch(p)
  PROVE  AloneStep(p)
<1> USE DEF At
<1>0. TypeOK /\ (\A q \in Openers : FilesInv(q)) /\ AloneInv(p)
  BY DEF OpenInv
<1>1. ASSUME pc[p] \in {"connect", "switch"}, Interfere(p),
             pc' = [pc EXCEPT ![p] = "table"],
             file' = WithSideFiles, wal' = TRUE, UNCHANGED <<parent, target>>,
             \/ writer' = NoOne
             \/ writer' = writer /\ pc[p] = "connect"
      PROVE  AloneStep(p)
  <2>1. FileStep(p)
    BY <1>0, <1>1, ConnectedFiles
  <2>2. pc[p] \in Opening /\ (pc[p] = "connect" => pc[p] \notin Holding)
    BY <1>1 DEF Opening, Connected, Holding
  <2>3. QED
    BY <1>1, <2>1, <2>2, GoesOnAlone
<1>2. CASE Switch(p)
  BY <1>1, <1>2 DEF Switch, Step, Goto
<1>3. CASE Connect(p)
  <2>1. pc[p] = "connect" /\ pc[p] \in Opening
    BY <1>3 DEF Connect, Opening, Connected
  <2>2. CASE wal
    BY <1>0, <1>1, <1>3, <2>1, <2>2 DEF Connect, Step, Goto, TypeOK
  <2>3. CASE ~wal /\ writer = NoOne
    <3>1. /\ Interfere(p)
          /\ pc' = [pc EXCEPT ![p] = "switch"]
          /\ file' = [file EXCEPT !["-wal"] = "absent"]
          /\ writer' = p
          /\ UNCHANGED <<parent, wal, target>>
      BY <1>3, <2>3 DEF Connect, Step, Goto
    <3>2. \A f \in Files : Safe(f)
      BY <1>0, <2>1 DEF FilesInv, Handled, Connected
    <3>3. \A q \in Openers : ~InWal(q)
      BY <1>0, <2>3 DEF FilesInv
    <3>4. pc'[p] = "switch" /\ \A q \in Openers \ {p} : pc'[q] = pc[q]
      BY <1>0, <3>1 DEF TypeOK
    <3>5. \A f \in Files : \/ file'[f] = file[f]
                           \/ file[f] # "alien" /\ f # "db" /\ file'[f] = "absent"
      BY <1>0, <3>1, <3>2 DEF TypeOK, Files, Safe
    <3>6. FilesInv(p)'
      BY <3>2, <3>4, <3>5 DEF FilesInv, Handled, InWal, Safe
    <3>7. FileStep(p)
      BY <3>1, <3>3, <3>4, <3>5, <3>6 DEF FileStep
    <3>8. QED
      BY <2>1, <3>1, <3>7, GoesOnAlone DEF Holding
  <2>4. CASE ~wal /\ writer # NoOne
    <3>1. p \in contended
      <4> SUFFICES ASSUME p \notin contended PROVE FALSE
        OBVIOUS
      <4>1. writer = p
        BY <2>1, <2>4, NobodyWrites
      <4>2. QED
        BY <2>1, <2>4, <4>1 DEF OpenInv, WriterInv, Holding
    <3>2. QED
      BY <1>3, <2>4, <3>1, FailsAlone DEF Connect
  <2>5. QED
    BY <2>2, <2>3, <2>4
<1>4. QED
  BY <1>2, <1>3

\* The migrations, and the rest of the command.
LEMMA MigratesAlone ==
  ASSUME OpenInv, NEW p \in Openers,
         \/ TimeOut(p) \/ CreateTracking(p) \/ ReadApplied(p)
         \/ BeginReading(p) \/ BeginWriting(p) \/ Upgrade(p)
         \/ Apply(p) \/ Record(p) \/ Commit(p) \/ Open(p)
         \/ StartWrite(p) \/ EndWrite(p)
  PROVE  AloneStep(p)
<1> USE DEF At
<1>0. TypeOK /\ (\A q \in Openers : FilesInv(q)) /\ AloneInv(p) /\ WriterInv
  BY DEF OpenInv
<1>1. ASSUME NEW place, pc' = [pc EXCEPT ![p] = place], Interfere(p),
             UNCHANGED <<parent, file, wal, target>>,
             InWal(p), place \in Connected,
             place \in Opening => pc[p] \in Opening,
             place # "create", place # "reopen", place # "failed",
             place = "upgrade" => fresh'[p],
             \/ writer' = writer /\ (pc[p] \in Holding => place \in Holding)
             \/ writer' = p /\ place \in Holding
             \/ writer' = NoOne
      PROVE  AloneStep(p)
  <2>1. FileStep(p)
    BY <1>0, <1>1, OtherFiles
  <2>2. QED
    BY <1>1, <2>1, GoesOnAlone
<1> USE DEF Step, Goto, disk, Opening, Connected, InWal, Holding
<1>2. CASE TimeOut(p)
  <2>1. p \in contended
    <3> SUFFICES ASSUME p \notin contended PROVE FALSE
      OBVIOUS
    <3>1. pc[p] \in Opening
      BY <1>2 DEF TimeOut, WaitsToWrite
    <3>2. QED
      BY <1>2, <3>1, NobodyWrites DEF TimeOut
  <2>2. QED
    BY <1>2, <2>1, FailsAlone DEF TimeOut
<1>3. CASE CreateTracking(p)
  BY <1>1, <1>3 DEF CreateTracking
<1>4. CASE ReadApplied(p)
  BY <1>1, <1>4 DEF ReadApplied
<1>5. CASE BeginReading(p)
  <2>1. fresh'[p]
    BY <1>0, <1>5 DEF BeginReading, TypeOK
  <2>2. QED
    BY <1>1, <1>5, <2>1 DEF BeginReading
<1>6. CASE BeginWriting(p)
  BY <1>1, <1>6 DEF BeginWriting
<1>7. CASE Upgrade(p)
  <2>1. CASE writer = NoOne /\ fresh[p]
    BY <1>1, <1>7, <2>1 DEF Upgrade
  <2>2. CASE ~(writer = NoOne /\ fresh[p])
    <3>1. pc[p] = "upgrade" /\ pc[p] \in Opening
      BY <1>7 DEF Upgrade
    <3>2. p \in contended
      <4> SUFFICES ASSUME p \notin contended PROVE FALSE
        OBVIOUS
      <4>1. fresh[p]
        BY <1>0, <3>1 DEF AloneInv
      <4>2. writer = p
        BY <2>2, <3>1, <4>1, NobodyWrites
      <4>3. QED
        BY <1>0, <3>1, <4>2 DEF WriterInv
    <3>3. QED
      BY <1>7, <2>2, <3>2, FailsAlone DEF Upgrade
  <2>3. QED
    BY <2>1, <2>2
<1>8. CASE Apply(p)
  BY <1>1, <1>8 DEF Apply
<1>9. CASE Record(p)
  BY <1>1, <1>9 DEF Record
<1>10. CASE Commit(p)
  BY <1>1, <1>10 DEF Commit
<1>11. CASE Open(p)
  BY <1>1, <1>11 DEF Open
<1>12. CASE StartWrite(p)
  BY <1>1, <1>12 DEF StartWrite
<1>13. CASE EndWrite(p)
  BY <1>1, <1>13 DEF EndWrite
<1>14. QED
  BY <1>2, <1>3, <1>4, <1>5, <1>6, <1>7, <1>8, <1>9, <1>10, <1>11, <1>12, <1>13

LEMMA EndsAlone ==
  ASSUME OpenInv, NEW p \in Openers, Close(p) \/ Kill(p)
  PROVE  AloneStep(p)
<1>0. TypeOK /\ (\A q \in Openers : FilesInv(q))
  BY DEF OpenInv
<1>1. CASE Kill(p)
  <2>1. /\ Interfere(p)
        /\ pc' = [pc EXCEPT ![p] = "killed"]
        /\ writer' = IF writer = p THEN NoOne ELSE writer
        /\ UNCHANGED <<parent, file, wal, target>>
    BY <1>1 DEF Kill, Goto, Step, disk
  <2>2. FileStep(p)
    BY <1>0, <2>1, OtherFiles DEF Ended
  <2>3. QED
    BY <2>1, <2>2, GoesOnAlone DEF Opening, Connected
<1>2. CASE Close(p)
  <2>1. /\ pc[p] = "open" /\ Interfere(p)
        /\ pc' = [pc EXCEPT ![p] = "closed"]
        /\ file' = Remaining(p)
        /\ UNCHANGED <<parent, wal, writer, target>>
    BY <1>2 DEF Close, At, Goto, Step
  <2>2. pc'[p] = "closed" /\ \A q \in Openers \ {p} : pc'[q] = pc[q]
    BY <1>0, <2>1 DEF TypeOK
  <2>3. \A f \in Files : Safe(f)
    BY <1>0, <2>1 DEF FilesInv, Handled, Connected
  <2>4. FilesInv(p)'
    BY <2>2 DEF FilesInv, Handled, InWal, Connected
  <2>5. CASE wal /\ \A q \in Openers \ {p} : pc[q] \notin Connected
    <3>1. file' = [file EXCEPT !["-wal"] = "absent", !["-shm"] = "absent"]
      BY <2>1, <2>5 DEF Remaining
    <3>2. \A q \in Openers \ {p} : ~InWal(q)
      BY <2>5 DEF InWal
    <3>3. FileStep(p)
      BY <1>0, <2>1, <2>2, <2>3, <2>4, <3>1, <3>2 DEF FileStep, TypeOK, Files, Safe
    <3>4. QED
      BY <2>1, <3>3, GoesOnAlone DEF Opening, Connected, Holding
  <2>6. CASE ~(wal /\ \A q \in Openers \ {p} : pc[q] \notin Connected)
    <3>1. file' = file
      BY <2>1, <2>6 DEF Remaining
    <3>2. FileStep(p)
      BY <2>1, <2>2, <2>4, <3>1 DEF FileStep
    <3>3. QED
      BY <2>1, <3>2, GoesOnAlone DEF Opening, Connected, Holding
  <2>7. QED
    BY <2>5, <2>6
<1>3. QED
  BY <1>1, <1>2

\* A process that another one's step has overlapped is no longer alone; one that
\* is not opening keeps what it has.
LEMMA StepKeepsOthers ==
  ASSUME OpenInv, NEW p \in Openers, AloneStep(p), NEW q \in Openers \ {p}
  PROVE  FilesInv(q)' /\ AloneInv(q)'
<1>1. /\ FilesInv(q) /\ AloneInv(q)
      /\ pc'[q] = pc[q] /\ target'[q] = target[q]
      /\ wal => wal'
      /\ \A f \in Files :
           \/ file'[f] = file[f]
           \/ file[f] # "alien" /\ file'[f] = "private"
           \/ f # "db" /\ file'[f] = "absent" /\ ~InWal(q)
  BY DEF OpenInv, AloneStep, FileStep
<1>2. FilesInv(q)'
  <2>1. Handled(q)' = Handled(q) /\ (InWal(q)' <=> InWal(q))
    BY <1>1 DEF Handled, InWal
  <2>2. \A f \in Handled(q) : Safe(f)'
    BY <1>1 DEF FilesInv, Safe, Handled
  <2>3. InWal(q) => \A f \in Files : file'[f] # "absent"
    BY <1>1 DEF FilesInv
  <2>4. QED
    BY <1>1, <2>1, <2>2, <2>3 DEF FilesInv
<1>3. AloneInv(q)'
  <2> SUFFICES ASSUME q \notin contended'
               PROVE  /\ pc[q] \notin Opening
                      /\ pc[q] = "failed" => Hopeless'
    BY <1>1 DEF AloneInv, Opening, Connected
  <2>1. q \notin contended /\ pc[q] \notin Opening
    BY DEF AloneStep, Others
  <2>2. QED
    BY <1>1, <2>1 DEF AloneInv, AloneStep
<1>4. QED
  BY <1>2, <1>3

LEMMA OpenInvariant == Spec => []OpenInv
<1>1. Init => OpenInv
  <2> SUFFICES ASSUME Init PROVE OpenInv
    OBVIOUS
  <2>1. TypeOK
    BY InitTyped
  <2>2. writer = NoOne /\ \A q \in Openers : pc[q] = "idle"
    BY DEF Init
  <2>3. QED
    BY <2>1, <2>2
       DEF OpenInv, WriterInv, FilesInv, Handled, InWal, AloneInv, Opening, Connected
<1>2. OpenInv /\ [Next]_vars => OpenInv'
  <2> SUFFICES ASSUME OpenInv, [Next]_vars PROVE OpenInv'
    OBVIOUS
  <2>1. TypeOK'
    BY StepTyped DEF OpenInv
  <2>2. CASE UNCHANGED vars
    BY <2>1, <2>2 DEF vars, disk, process, history, OpenInv, WriterInv, FilesInv, Handled,
                      InWal, Safe, AloneInv, Hopeless
  <2>3. ASSUME NEW p \in Openers, AloneStep(p)
        PROVE  OpenInv'
    <3>1. WriterInv' /\ FilesInv(p)' /\ AloneInv(p)'
      BY <2>3 DEF AloneStep, FileStep
    <3>2. QED
      BY <2>1, <2>3, <3>1, StepKeepsOthers DEF OpenInv
  <2>4. ASSUME NEW p \in Openers,
               Start(p) \/ GoOn(p) \/ StartWrite(p) \/ Close(p) \/ Kill(p)
        PROVE  AloneStep(p)
    BY <2>4, StartAlone, FilesAlone, ConnectsAlone, MigratesAlone, EndsAlone DEF GoOn
  <2>5. QED
    BY <2>2, <2>3, <2>4 DEF Next
<1>3. QED
  BY <1>1, <1>2, PTL DEF Spec

\* While anyone has the store open, no other user can read the database or its
\* side files, whoever made them, and however often these were removed.
THEOREM OpenFilesAreAlwaysPrivate == Spec => []OpenFilesArePrivate
<1>1. OpenInv => OpenFilesArePrivate
  BY DEF OpenInv, OpenFilesArePrivate, FilesInv, Handled, Safe, InWal, Using, Connected
<1>2. QED
  BY <1>1, OpenInvariant, PTL

\* An open that meets nobody fails only where the path or a file is not the
\* user's own: what killed and failed opens leave behind never stops it.
THEOREM LoneOpensSucceed == Spec => []LoneOpenSucceeds
<1>1. OpenInv => LoneOpenSucceeds
  BY DEF OpenInv, LoneOpenSucceeds, AloneInv, Hopeless, At
<1>2. QED
  BY <1>1, OpenInvariant, PTL

-----------------------------------------------------------------------------
(* How long an open can go on                                              *)

\* The files it has not prepared yet; each may be looked for, created, and looked
\* for again.
FilesLeft(f) == IF f = "db" THEN 3 ELSE IF f = "-wal" THEN 2 ELSE 1

\* The most steps an open at `at` still has ahead of it, when it prepares file f
\* and has found n versions to apply: a version takes five.
Remains(at, f, n) ==
  CASE at = "parent"  -> 5 * Latest + 19
    [] at = "find"    -> 5 * Latest + 9 + 3 * FilesLeft(f)
    [] at = "create"  -> 5 * Latest + 8 + 3 * FilesLeft(f)
    [] at = "reopen"  -> 5 * Latest + 7 + 3 * FilesLeft(f)
    [] at = "connect" -> 5 * Latest + 9
    [] at = "switch"  -> 5 * Latest + 8
    [] at = "table"   -> 5 * Latest + 7
    [] at = "read"    -> 5 * Latest + 6
    [] at = "next"    -> 5 * n + 5
    [] at = "upgrade" -> 5 * n + 4
    [] at = "apply"   -> 5 * n + 3
    [] at = "record"  -> 5 * n + 2
    [] at = "commit"  -> 5 * n + 1
    [] OTHER          -> 0

StepsLeft(p) == Remains(pc[p], target[p], Cardinality(todo[p]))

OpensFit == \A p \in Openers : StepsLeft(p) \in 0 .. 5 * Latest + 19

LEMMA RemainsAt ==
  ASSUME NEW f, NEW n
  PROVE  /\ Remains("parent", f, n) = 5 * Latest + 19
         /\ Remains("find", f, n) = 5 * Latest + 9 + 3 * FilesLeft(f)
         /\ Remains("create", f, n) = 5 * Latest + 8 + 3 * FilesLeft(f)
         /\ Remains("reopen", f, n) = 5 * Latest + 7 + 3 * FilesLeft(f)
         /\ Remains("connect", f, n) = 5 * Latest + 9
         /\ Remains("switch", f, n) = 5 * Latest + 8
         /\ Remains("table", f, n) = 5 * Latest + 7
         /\ Remains("read", f, n) = 5 * Latest + 6
         /\ Remains("next", f, n) = 5 * n + 5
         /\ Remains("upgrade", f, n) = 5 * n + 4
         /\ Remains("apply", f, n) = 5 * n + 3
         /\ Remains("record", f, n) = 5 * n + 2
         /\ Remains("commit", f, n) = 5 * n + 1
         /\ Remains("failed", f, n) = 0
         /\ Remains("open", f, n) = 0
  BY DEF Remains

LEMMA NothingRemains ==
  ASSUME NEW f, NEW n, NEW at \in Using \cup Ended
  PROVE  Remains(at, f, n) = 0
  BY DEF Remains, Using, Ended

\* The versions an open has to apply are among those of the program.
LEMMA FewVersions ==
  ASSUME NEW some, some \subseteq Versions
  PROVE  /\ IsFiniteSet(some)
         /\ Cardinality(some) \in 0 .. Latest
<1>1. IsFiniteSet(Versions) /\ Cardinality(Versions) = Latest
  <2>1. Latest >= 1 /\ Latest \in Int /\ 1 \in Int /\ Latest - 1 + 1 = Latest
    OBVIOUS
  <2>2. QED
    BY <2>1, FS_Interval DEF Versions
<1>2. IsFiniteSet(some) /\ Cardinality(some) <= Cardinality(Versions)
  BY <1>1, FS_Subset
<1>3. Cardinality(some) \in Nat
  BY <1>2, FS_CardinalityType
<1>4. QED
  BY <1>1, <1>2, <1>3

LEMMA OpensAreBounded ==
  ASSUME TypeOK, NEW p \in Openers
  PROVE  StepsLeft(p) \in 0 .. 5 * Latest + 19
<1>1. Cardinality(todo[p]) \in 0 .. Latest
  BY FewVersions DEF TypeOK
<1>2. FilesLeft(target[p]) \in 1 .. 3
  BY DEF FilesLeft
<1>3. SUFFICES ASSUME NEW n \in 0 .. Latest, NEW f \in Files, FilesLeft(f) \in 1 .. 3
               PROVE  Remains(pc[p], f, n) \in 0 .. 5 * Latest + 19
  BY <1>1, <1>2 DEF StepsLeft, TypeOK
<1>4. CASE pc[p] \in {"parent", "find", "create", "reopen"}
  BY <1>3, <1>4, RemainsAt
<1>5. CASE pc[p] \in {"connect", "switch", "table", "read"}
  BY <1>3, <1>5, RemainsAt
<1>6. CASE pc[p] \in Migrating
  BY <1>3, <1>6, RemainsAt DEF Migrating
<1>7. CASE pc[p] \in Using \cup Ended
  BY <1>7, NothingRemains
<1>8. QED
  BY <1>4, <1>5, <1>6, <1>7 DEF TypeOK, Opening, Connected, Using, Ended, Migrating

\* A step from one place of an open to another.
LEMMA FilesDescend ==
  ASSUME TypeOK, NEW p \in Openers,
         FindParent(p) \/ Find(p) \/ Create(p) \/ Reopen(p)
  PROVE  StepsLeft(p)' < StepsLeft(p)
<1> SUFFICES ASSUME NEW f, f = target[p], NEW g, g = target'[p]
             PROVE  StepsLeft(p)' < StepsLeft(p)
  OBVIOUS
<1>1. /\ StepsLeft(p) = Remains(pc[p], f, Cardinality(todo[p]))
      /\ StepsLeft(p)' = Remains(pc'[p], g, Cardinality(todo'[p]))
  BY DEF StepsLeft
<1>2. f \in Files /\ FilesLeft(f) \in 1 .. 3 /\ FilesLeft(g) \in 1 .. 3
  BY DEF TypeOK, FilesLeft
<1>3. Fail(p) => pc'[p] = "failed"
  BY DEF Fail, Goto, TypeOK
<1>4. Prepared(p) =>
        \/ f # "-shm" /\ pc'[p] = "find" /\ FilesLeft(g) = FilesLeft(f) - 1
        \/ f = "-shm" /\ pc'[p] = "connect"
  BY <1>2 DEF Prepared, Goto, TypeOK, FilesLeft, Files
<1>5. CASE FindParent(p)
  <2>1. pc[p] = "parent" /\ pc'[p] \in {"failed", "find"}
    BY <1>3, <1>5 DEF FindParent, At, Goto, TypeOK
  <2>2. QED
    BY <1>1, <1>2, <2>1, RemainsAt
<1>6. CASE Find(p) \/ Create(p) \/ Reopen(p)
  <2>1. \/ pc[p] = "find" /\ pc'[p] = "create" /\ g = f
        \/ pc[p] = "create" /\ pc'[p] = "reopen" /\ g = f
        \/ pc[p] \in {"find", "create", "reopen"} /\ (Prepared(p) \/ Fail(p))
    BY <1>6 DEF Find, Create, Reopen, Normalize, At, Goto, TypeOK
  <2>2. CASE pc[p] \in {"find", "create", "reopen"} /\ Fail(p)
    BY <1>1, <1>2, <1>3, <2>2, RemainsAt
  <2>3. CASE pc[p] \in {"find", "create", "reopen"} /\ Prepared(p)
    <3>1. CASE pc'[p] = "find" /\ FilesLeft(g) = FilesLeft(f) - 1
      BY <1>1, <1>2, <2>3, <3>1, RemainsAt
    <3>2. CASE pc'[p] = "connect"
      BY <1>1, <1>2, <2>3, <3>2, RemainsAt
    <3>3. QED
      BY <1>4, <2>3, <3>1, <3>2
  <2>4. QED
    BY <1>1, <1>2, <2>1, <2>2, <2>3, RemainsAt
<1>7. QED
  BY <1>5, <1>6

LEMMA OpensDescend ==
  ASSUME TypeOK, NEW p \in Openers, pc[p] \in Opening, GoOn(p)
  PROVE  StepsLeft(p)' < StepsLeft(p)
<1> SUFFICES ASSUME NEW n, n = Cardinality(todo[p]), NEW m, m = Cardinality(todo'[p]),
                    NEW f, f = target[p], NEW g, g = target'[p]
             PROVE  StepsLeft(p)' < StepsLeft(p)
  OBVIOUS
<1>1. /\ StepsLeft(p) = Remains(pc[p], f, n)
      /\ StepsLeft(p)' = Remains(pc'[p], g, m)
  BY DEF StepsLeft
<1>2. /\ n \in 0 .. Latest /\ IsFiniteSet(todo[p])
      /\ todo'[p] = todo[p] => m = n
  BY FewVersions DEF TypeOK
<1>3. Fail(p) => pc'[p] = "failed"
  BY DEF Fail, Goto, TypeOK
<1>4. CASE Connect(p) \/ Switch(p) \/ CreateTracking(p)
  <2>1. \/ pc[p] = "connect" /\ pc'[p] \in {"failed", "switch", "table"}
        \/ pc[p] = "switch" /\ pc'[p] = "table"
        \/ pc[p] = "table" /\ pc'[p] = "read"
    BY <1>3, <1>4 DEF Connect, Switch, CreateTracking, At, Goto, TypeOK
  <2>2. QED
    BY <1>1, <2>1, RemainsAt
<1>5. CASE ReadApplied(p)
  <2>1. pc[p] = "read" /\ pc'[p] = "next" /\ todo'[p] \subseteq Versions
    BY <1>5 DEF ReadApplied, At, Goto, TypeOK
  <2>2. m \in 0 .. Latest
    BY <2>1, FewVersions
  <2>3. QED
    BY <1>1, <2>1, <2>2, RemainsAt
<1>6. CASE BeginReading(p) \/ BeginWriting(p) \/ Upgrade(p) \/ Apply(p) \/ Record(p)
  <2>1. /\ \/ pc[p] = "next" /\ pc'[p] \in {"upgrade", "apply"}
           \/ pc[p] = "upgrade" /\ pc'[p] \in {"apply", "failed"}
           \/ pc[p] = "apply" /\ pc'[p] = "record"
           \/ pc[p] = "record" /\ pc'[p] = "commit"
        /\ todo'[p] = todo[p]
    BY <1>3, <1>6 DEF BeginReading, BeginWriting, Upgrade, Apply, Record, Fail, At,
                      Goto, TypeOK
  <2>2. QED
    BY <1>1, <1>2, <2>1, RemainsAt
<1>7. CASE Commit(p)
  <2>1. PICK v \in todo[p] : todo'[p] = todo[p] \ {v}
    BY <1>7 DEF Commit, TypeOK
  <2>2. m = n - 1
    BY <1>2, <2>1, FS_RemoveElement
  <2>3. pc[p] = "commit" /\ pc'[p] = "next"
    BY <1>7 DEF Commit, At, Goto, TypeOK
  <2>4. QED
    BY <1>1, <1>2, <2>2, <2>3, RemainsAt
<1>8. CASE Open(p) \/ TimeOut(p)
  <2>1. pc[p] \in {"table", "next"} /\ pc'[p] \in {"open", "failed"}
    BY <1>3, <1>8 DEF Open, TimeOut, WaitsToWrite, At, Goto, TypeOK
  <2>2. QED
    BY <1>1, <1>2, <2>1, RemainsAt
<1>9. CASE FindParent(p) \/ Find(p) \/ Create(p) \/ Reopen(p)
  BY <1>9, FilesDescend
<1>10. ~EndWrite(p)
  BY DEF EndWrite, At, Opening, Connected
<1>11. QED
  BY <1>4, <1>5, <1>6, <1>7, <1>8, <1>9, <1>10 DEF GoOn

\* A step of one process is not one of another.
LEMMA OthersWait ==
  ASSUME TypeOK, NEW p \in Openers, NEW q \in Openers \ {p},
         Start(p) \/ GoOn(p) \/ StartWrite(p) \/ Close(p) \/ Kill(p)
  PROVE  pc'[q] = pc[q] /\ target'[q] = target[q] /\ todo'[q] = todo[q]
<1> DEFINE Waits == pc'[q] = pc[q] /\ target'[q] = target[q] /\ todo'[q] = todo[q]
<1>1. Fail(p) => Waits
  BY DEF Fail, Goto, TypeOK
<1>2. Prepared(p) => Waits
  BY DEF Prepared, Goto, TypeOK
<1>3. CASE FindParent(p) \/ Find(p) \/ Create(p) \/ Reopen(p)
  BY <1>1, <1>2, <1>3 DEF FindParent, Find, Create, Reopen, Normalize, Goto, TypeOK
<1>4. CASE Connect(p) \/ Switch(p) \/ TimeOut(p) \/ CreateTracking(p) \/ ReadApplied(p)
  BY <1>1, <1>4 DEF Connect, Switch, TimeOut, CreateTracking, ReadApplied, Goto, TypeOK
<1>5. CASE \/ BeginReading(p) \/ BeginWriting(p) \/ Upgrade(p) \/ Apply(p) \/ Record(p)
           \/ Commit(p) \/ Open(p)
  BY <1>1, <1>5 DEF BeginReading, BeginWriting, Upgrade, Apply, Record, Commit, Open,
                    Goto, TypeOK
<1>6. CASE Start(p) \/ StartWrite(p) \/ EndWrite(p) \/ Close(p) \/ Kill(p)
  BY <1>6 DEF Start, StartWrite, EndWrite, Close, Kill, Goto, TypeOK
<1>7. QED
  BY <1>3, <1>4, <1>5, <1>6 DEF GoOn

\* An open takes a bounded number of steps, 5 * Latest + 19 at most, whatever it
\* finds on disk and whoever else opens, migrates or writes: each of its steps
\* brings its end nearer, and nothing moves it away (Store::open, run_migrations).
THEOREM OpensAreShort ==
  Spec => /\ []OpensFit
          /\ [][\A p \in Openers :
                  /\ pc[p] \in Opening /\ GoOn(p) => StepsLeft(p)' < StepsLeft(p)
                  /\ ~Start(p) => StepsLeft(p)' <= StepsLeft(p)]_vars
<1>1. TypeOK => OpensFit
  BY OpensAreBounded DEF OpensFit
<1>2. TypeOK /\ TypeOK' /\ OpensFit /\ OpensFit' /\ [Next]_vars =>
        [\A p \in Openers :
            /\ pc[p] \in Opening /\ GoOn(p) => StepsLeft(p)' < StepsLeft(p)
            /\ ~Start(p) => StepsLeft(p)' <= StepsLeft(p)]_vars
  <2> SUFFICES ASSUME TypeOK, TypeOK', OpensFit, OpensFit', [Next]_vars,
                      NEW p \in Openers
               PROVE  /\ pc[p] \in Opening /\ GoOn(p) => StepsLeft(p)' < StepsLeft(p)
                      /\ ~Start(p) => StepsLeft(p)' <= StepsLeft(p)
    OBVIOUS
  <2>1. pc[p] \in Opening /\ GoOn(p) => StepsLeft(p)' < StepsLeft(p)
    BY OpensDescend
  <2>2. StepsLeft(p) \in Nat /\ StepsLeft(p)' \in Nat
    BY DEF OpensFit
  <2>3. CASE GoOn(p) /\ pc[p] \in Opening
    BY <2>1, <2>2, <2>3
  <2>4. CASE \/ GoOn(p) /\ pc[p] \notin Opening
             \/ StartWrite(p) \/ Close(p) \/ Kill(p)
    <3>1. pc'[p] \in Using \cup Ended
      <4>1. GoOn(p) /\ pc[p] \notin Opening => EndWrite(p)
        BY DEF GoOn, FindParent, Find, Create, Reopen, Connect, Switch, TimeOut,
               WaitsToWrite, CreateTracking, ReadApplied, BeginReading, BeginWriting,
               Upgrade, Apply, Record, Commit, Open, At, Opening, Connected
      <4>2. QED
        BY <2>4, <4>1 DEF EndWrite, StartWrite, Close, Kill, Goto, TypeOK, Using, Ended
    <3>2. StepsLeft(p)' = 0
      BY <3>1, NothingRemains DEF StepsLeft
    <3>3. QED
      BY <2>1, <2>2, <2>4, <3>2
  <2>5. CASE ~(Start(p) \/ GoOn(p) \/ StartWrite(p) \/ Close(p) \/ Kill(p))
    <3>1. pc'[p] = pc[p] /\ target'[p] = target[p] /\ todo'[p] = todo[p]
      BY <2>5, OthersWait DEF Next, vars, process
    <3>2. StepsLeft(p)' = StepsLeft(p)
      BY <3>1 DEF StepsLeft
    <3>3. QED
      BY <2>2, <2>5, <3>2
  <2>6. QED
    BY <2>1, <2>3, <2>4, <2>5
<1>3. QED
  BY <1>1, <1>2, Typing, PTL DEF Spec

=============================================================================
