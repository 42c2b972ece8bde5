------------------------- MODULE Deployment_proofs --------------------------
(***************************************************************************)
(* Proofs about Deployment: that a complete dump is always kept, and what  *)
(* holds of the database as long as no container met a restoration.        *)
(***************************************************************************)
EXTENDS Deployment, TLAPS

(* A dump that no restoration and no later backup takes: the file that its *)
(* sum is of is whole, and a plain one has no .gz that could be unzipped   *)
(* over it.                                                                *)
Complete(d) == \/ dump[d].sum = "gz" /\ dump[d].gz = "whole"
               \/ dump[d].sum = "sql" /\ dump[d].sql = "whole" /\ dump[d].gz = "none"

(* The dump being written is of today, has no sum until it is complete, and *)
(* what is compressed was whole.                                            *)
BackupInv ==
    /\ backup # NoBackup => backup.of \in Dumps /\ dump[backup.of].age = 0
    /\ backup.pc \in {"dumping", "dumped", "zipping", "zipped"} => dump[backup.of].sum = "none"
    /\ backup.pc \in {"dumping", "dumped"} => dump[backup.of].gz = "none"
    /\ backup.pc = "dumped" => dump[backup.of].sql = "whole"
    /\ backup.pc = "zipping" => backup.zip
    /\ backup.pc = "zipped" => backup.zip /\ dump[backup.of].gz = "whole"
    /\ backup.pc = "summed" => Complete(backup.of)

(* A restoration writes only beside a .gz, or where everything is purged. *)
RestoreInv ==
    restore # NoRestore => /\ restore.of \in Dumps
                           /\ restore.zip => \/ dump[restore.of].gz # "none"
                                             \/ dump[restore.of] = Purged

DumpInv == BackupInv /\ RestoreInv /\ \E d \in Dumps : Complete(d)

-----------------------------------------------------------------------------
(* What every database and every dump of one is like. *)
WellFormed(h) == /\ h.demos <= 1 /\ h.version # Both
                 /\ h.keyed => h.tables
                 /\ h.tables \/ (h.version = 0 /\ h.demos = 0)

Advanced == {"migrated", "seeding", "filling", "ready", "serving"}

(* A container that runs has the database to itself, with its keys, and    *)
(* one that has migrated has the newest schema.                            *)
RunInv ==
    /\ Up # {} => ~Loading /\ db.exists /\ db.keyed = db.tables
    /\ \A c \in Containers : con[c].pc \in Advanced => db.keyed /\ db.version = Head
    /\ \A c \in Containers : con[c].pc = "filling" => db.demos = 0
    /\ \A c, e \in Containers : con[c].pc = "filling" /\ con[e].pc = "filling" => c = e

(* How far the restoration has come. *)
LoadInv ==
    /\ restore.pc = "making" => db = Empty
    /\ restore.pc \in {"stamping", "copying"} => db.exists /\ ~db.keyed /\ db.demos = 0
    /\ restore.pc = "stamping" => db.version = 0
    /\ restore.pc = "keying" => db.exists /\ ~db.keyed
    /\ restore.whole => LET h == restore.holds
                        IN  /\ restore.pc \in {"stamping", "copying", "keying"}
                                 => db.tables = h.tables
                            /\ restore.pc \in {"copying", "keying"} => db.version = h.version
                            /\ restore.pc = "keying" => db.demos = h.demos

HoldsInv == /\ \A d \in Dumps : dump[d].holds.exists /\ WellFormed(dump[d].holds)
            /\ restore.holds.exists /\ WellFormed(restore.holds)

DbInv == /\ restore.checked => restore.whole
         /\ ~met => WellFormed(db) /\ HoldsInv /\ RunInv /\ LoadInv

-----------------------------------------------------------------------------

USE DeploymentAssumption

LEMMA Revisions == Head = 2 /\ Both = 12 /\ Versions = {0, 1, 2, 12}
  BY DEF Head, Both, Versions

LEMMA RetentionType == Retention \in Nat
  OBVIOUS

(* The values that steps assign as a whole. *)
LEMMA ConstantTypes ==
  /\ Empty \in Databases /\ Missing \in Databases /\ InUse \in Databases
  /\ NoDump \in Files /\ Purged \in Files
  /\ NoBackup \in Backups /\ NoRestore \in Restorations
  /\ Down \in Processes
<1>1. Empty \in Databases /\ Missing \in Databases /\ InUse \in Databases
  BY Revisions DEF Empty, Missing, InUse, Databases
<1>2. NoDump \in Files
  BY <1>1, RetentionType DEF NoDump, Files, Contents
<1>3. Purged \in Files
  BY <1>2, RetentionType DEF Purged, Files
<1>4. NoBackup \in Backups
  BY DEF NoBackup, Backups
<1>5. NoRestore \in Restorations
  BY <1>1 DEF NoRestore, Restorations
<1>6. Down \in Processes
  BY Revisions DEF Down, Processes
<1> QED
  BY <1>1, <1>2, <1>3, <1>4, <1>5, <1>6

(* A container that moves keeps the others as they are. *)
LEMMA GoesTypes ==
  ASSUME con \in [Containers -> Processes], NEW c, NEW pc, Goes(c, pc),
         pc \in {"down", "migrating", "migrated", "seeding", "filling", "ready", "serving"}
  PROVE  con' \in [Containers -> Processes]
<1>1. [Down EXCEPT !.pc = pc] \in Processes
  BY ConstantTypes DEF Processes
<1> QED
  BY <1>1 DEF Goes

LEMMA WritesTypes ==
  ASSUME dump \in [Dumps -> Files], NEW d, NEW r, Writes(d, r), d \in Dumps => r \in Files
  PROVE  dump' \in [Dumps -> Files]
  BY DEF Writes

(* One field of a backup's files changes. *)
LEMMA FileTypes ==
  ASSUME dump \in [Dumps -> Files], NEW d \in Dumps, NEW x \in Contents, NEW y \in Contents
  PROVE  /\ [dump[d] EXCEPT !.sql = x] \in Files
         /\ [dump[d] EXCEPT !.gz = x] \in Files
         /\ [dump[d] EXCEPT !.gz = x, !.sql = y] \in Files
         /\ \A u \in {"none", "sql", "gz"} : [dump[d] EXCEPT !.sum = u] \in Files
  BY DEF Files

LEMMA InitTypes == Init => TypeOK
<1> SUFFICES ASSUME Init PROVE TypeOK
  OBVIOUS
<1>1. [NoDump EXCEPT !.gz = "whole", !.sum = "gz", !.holds = InUse] \in Files
  BY ConstantTypes DEF Files, Contents
<1>2. calls \in [stop : 0..MaxStops, backup : 0..MaxBackups, restore : 0..MaxRestores]
  BY DEF Init
<1> QED
  BY <1>1, <1>2, ConstantTypes DEF Init, TypeOK

(* Every step keeps the types. *)
LEMMA TypeStep == TypeOK /\ [Next]_vars => TypeOK'
<1> SUFFICES ASSUME TypeOK, [Next]_vars PROVE TypeOK'
  OBVIOUS
<1> USE DEF TypeOK
<1>1. ASSUME NEW c \in Containers, MigrateBegins(c) PROVE TypeOK'
  BY <1>1, Revisions DEF MigrateBegins, Databases, Processes
<1>2. ASSUME NEW c \in Containers, Migrates(c) PROVE TypeOK'
  BY <1>2, Revisions, GoesTypes DEF Migrates, Databases
<1>3. ASSUME NEW c \in Containers, SeedLoads(c) PROVE TypeOK'
  BY <1>3, GoesTypes DEF SeedLoads, AfterSeed
<1>4. ASSUME NEW c \in Containers, SeedRoles(c) PROVE TypeOK'
  BY <1>4, GoesTypes DEF SeedRoles
<1>5. ASSUME NEW c \in Containers, SeedFills(c) PROVE TypeOK'
  BY <1>5, GoesTypes DEF SeedFills, Databases, AfterSeed
<1>6. ASSUME NEW c \in Containers, Serves(c) PROVE TypeOK'
  BY <1>6, GoesTypes DEF Serves
<1>7. ASSUME NEW c \in Containers, Fails(c) PROVE TypeOK'
  BY <1>7, GoesTypes DEF Fails
<1>8. ASSUME NEW c \in Containers, MigrationsEnd(c) PROVE TypeOK'
  BY <1>8, GoesTypes DEF MigrationsEnd
<1>9. ASSUME NEW c \in Containers, Stops(c) PROVE TypeOK'
  BY <1>9, GoesTypes DEF Stops
<1>10. ASSUME NEW d \in Dumps, NEW zip \in BOOLEAN, BackupStarts(d, zip) PROVE TypeOK'
  <2>1. [NoDump EXCEPT !.sql = "partial", !.holds = db] \in Files
    BY ConstantTypes DEF Files, Contents
  <2>2. dump' \in [Dumps -> Files]
    BY <1>10, <2>1, WritesTypes DEF BackupStarts
  <2> QED
    BY <1>10, <2>2 DEF BackupStarts, Backups
<1>11. ASSUME NEW d \in Dumps, NEW zip \in BOOLEAN, NEW whole \in BOOLEAN,
             RestoreChecks(d, zip, whole)
      PROVE  TypeOK'
  <2>1. [dump[d] EXCEPT !.sql = "partial"] \in Files
    BY FileTypes DEF Contents
  <2>2. dump' \in [Dumps -> Files]
    BY <1>11, <2>1 DEF RestoreChecks
  <2>3. dump[d].holds \in Databases
    BY DEF Files
  <2>4. restore' \in Restorations
    BY <1>11, <2>3 DEF RestoreChecks, Restorations
  <2> QED
    BY <1>11, <2>2, <2>4 DEF RestoreChecks
<1>12. ASSUME BackupDumps PROVE TypeOK'
  BY <1>12, WritesTypes, FileTypes DEF BackupDumps, Backs, Backups, Contents
<1>13. ASSUME BackupZips PROVE TypeOK'
  BY <1>13, WritesTypes, FileTypes DEF BackupZips, Backs, Backups, Contents
<1>14. ASSUME BackupZipped PROVE TypeOK'
  BY <1>14, WritesTypes, FileTypes DEF BackupZipped, Backs, Backups, Contents
<1>15. ASSUME BackupSums PROVE TypeOK'
  BY <1>15, WritesTypes, FileTypes DEF BackupSums, Backs, Backups, Contents
<1>16. ASSUME BackupPurges PROVE TypeOK'
  BY <1>16, ConstantTypes DEF BackupPurges
<1>17. ASSUME BackupFails PROVE TypeOK'
  BY <1>17, ConstantTypes DEF BackupFails
<1>18. ASSUME RestoreUnzips PROVE TypeOK'
  BY <1>18, WritesTypes, FileTypes DEF RestoreUnzips, Restores, Restorations, Contents
<1>19. ASSUME RestoreDrops PROVE TypeOK'
  BY <1>19, ConstantTypes DEF RestoreDrops, Restores, Restorations
<1>20. ASSUME RestoreCreates PROVE TypeOK'
  BY <1>20, ConstantTypes DEF RestoreCreates, Restores, Restorations
<1>21. ASSUME RestoreMakes PROVE TypeOK'
  BY <1>21 DEF RestoreMakes, Runs, Restores, Restorations, Databases
<1>22. ASSUME RestoreStamps PROVE TypeOK'
  BY <1>22, Revisions DEF RestoreStamps, Runs, Restores, Restorations, Databases
<1>23. ASSUME RestoreCopies PROVE TypeOK'
  BY <1>23 DEF RestoreCopies, Runs, Restores, Restorations, Databases
<1>24. ASSUME RestoreKeys PROVE TypeOK'
  <2>1. db' \in Databases
    BY <1>24 DEF RestoreKeys, Databases
  <2>2. dump' \in [Dumps -> Files]
    <3>1. CASE restore.of \in Dumps
      <4>1. [dump[restore.of] EXCEPT !.sql = "none"] \in Files
        BY <3>1, FileTypes DEF Contents
      <4> QED
        BY <1>24, <3>1, <4>1 DEF RestoreKeys, RestoreReports
    <3>2. CASE restore.of \notin Dumps
      BY <1>24, <3>2 DEF RestoreKeys, RestoreReports
    <3> QED
      BY <3>1, <3>2
  <2> QED
    BY <1>24, <2>1, <2>2, ConstantTypes DEF RestoreKeys, RestoreReports
<1>25. ASSUME RestoreFails PROVE TypeOK'
  BY <1>25, ConstantTypes DEF RestoreFails
<1>26. ASSUME Day PROVE TypeOK'
  BY <1>26, RetentionType DEF Day, Old, Files
<1>27. ASSUME UNCHANGED vars PROVE TypeOK'
  BY <1>27 DEF vars
<1> QED
  BY <1>1, <1>2, <1>3, <1>4, <1>5, <1>6, <1>7, <1>8, <1>9, <1>10, <1>11, <1>12, <1>13, <1>14, <1>15, <1>16, <1>17, <1>18, <1>19, <1>20, <1>21, <1>22, <1>23, <1>24, <1>25, <1>26, <1>27 DEF Next

(* Every variable keeps its type. *)
THEOREM TypeCorrect == Spec => []TypeOK
<1>1. Init => TypeOK
  BY InitTypes
<1>2. TypeOK /\ [Next]_vars => TypeOK'
  BY TypeStep
<1> QED
  BY <1>1, <1>2, PTL DEF Spec

-----------------------------------------------------------------------------
(* The backups *)

LEMMA InitDump == Init => DumpInv
  BY RetentionType DEF Init, DumpInv, BackupInv, RestoreInv, Complete, NoBackup, NoRestore, NoDump

(* A restoration writes nothing but the .sql beside a .gz. *)
LEMMA BesideGz ==
  ASSUME TypeOK, DumpInv, NEW d \in Dumps, NEW x, UNCHANGED backup,
         dump' = [dump EXCEPT ![d].sql = x], dump[d].gz # "none"
  PROVE  /\ BackupInv' /\ dump'[d].gz # "none"
         /\ \E e \in Dumps : Complete(e)'
<1>1. /\ dump'[d].gz = dump[d].gz /\ dump'[d].sum = dump[d].sum /\ dump'[d].age = dump[d].age
      /\ \A e \in Dumps : e # d => dump'[e] = dump[e]
  BY DEF TypeOK, Files
<1>2. BackupInv'
  BY <1>1 DEF DumpInv, BackupInv, Complete
<1>3. \E e \in Dumps : Complete(e)'
  BY <1>1 DEF DumpInv, Complete
<1> QED
  BY <1>1, <1>2, <1>3

(* Every step keeps the invariant of the files. *)
LEMMA DumpStep == TypeOK /\ DumpInv /\ [Next]_vars => DumpInv'
<1> SUFFICES ASSUME TypeOK, DumpInv, [Next]_vars PROVE DumpInv'
  OBVIOUS
<1>1. ASSUME BackupDumps PROVE DumpInv'
  <2>1. backup.of \in Dumps /\ dump[backup.of].age = 0 /\ dump[backup.of] \in Files
    BY <1>1 DEF BackupDumps, NoBackup, DumpInv, BackupInv, TypeOK
  <2>2. /\ dump'[backup.of] = [dump[backup.of] EXCEPT !.sql = "whole"]
        /\ \A d \in Dumps : d # backup.of => dump'[d] = dump[d]
    BY <1>1, <2>1 DEF BackupDumps, Writes, TypeOK
  <2>3. backup' = [backup EXCEPT !.pc = "dumped"] /\ backup'.pc = "dumped" /\ backup'.of = backup.of
        /\ backup'.zip = backup.zip
    BY <1>1 DEF BackupDumps, Backs, TypeOK, Backups
  <2>4. BackupInv'
    BY <1>1, <2>1, <2>2, <2>3 DEF BackupDumps, DumpInv, BackupInv, Complete, Files
  <2>5. \A d \in Dumps : Complete(d) => Complete(d)'
    BY <1>1, <2>1, <2>2 DEF BackupDumps, DumpInv, BackupInv, Complete, Files
  <2>6. dump'[backup.of].gz # "none" \/ dump[backup.of].gz = "none"
    BY <2>1, <2>2 DEF Files
  <2>7. dump[backup.of] # Purged
    BY <2>1, RetentionType DEF Purged, NoDump
  <2>8. RestoreInv'
    BY <1>1, <2>1, <2>2, <2>6, <2>7 DEF BackupDumps, DumpInv, RestoreInv
  <2> QED
    BY <2>4, <2>5, <2>8 DEF DumpInv
<1>2. ASSUME BackupZips PROVE DumpInv'
  <2>1. backup.of \in Dumps /\ dump[backup.of].age = 0 /\ dump[backup.of] \in Files
    BY <1>2 DEF BackupZips, NoBackup, DumpInv, BackupInv, TypeOK
  <2>2. /\ dump'[backup.of] = [dump[backup.of] EXCEPT !.gz = "partial"]
        /\ \A d \in Dumps : d # backup.of => dump'[d] = dump[d]
    BY <1>2, <2>1 DEF BackupZips, Writes, TypeOK
  <2>3. backup' = [backup EXCEPT !.pc = "zipping"] /\ backup'.pc = "zipping" /\ backup'.of = backup.of
        /\ backup'.zip = backup.zip
    BY <1>2 DEF BackupZips, Backs, TypeOK, Backups
  <2>4. BackupInv'
    BY <1>2, <2>1, <2>2, <2>3 DEF BackupZips, DumpInv, BackupInv, Complete, Files
  <2>5. \A d \in Dumps : Complete(d) => Complete(d)'
    BY <1>2, <2>1, <2>2 DEF BackupZips, DumpInv, BackupInv, Complete, Files
  <2>6. dump'[backup.of].gz # "none" \/ dump[backup.of].gz = "none"
    BY <2>1, <2>2 DEF Files
  <2>7. dump[backup.of] # Purged
    BY <2>1, RetentionType DEF Purged, NoDump
  <2>8. RestoreInv'
    BY <1>2, <2>1, <2>2, <2>6, <2>7 DEF BackupZips, DumpInv, RestoreInv
  <2> QED
    BY <2>4, <2>5, <2>8 DEF DumpInv
<1>3. ASSUME BackupZipped PROVE DumpInv'
  <2>1. backup.of \in Dumps /\ dump[backup.of].age = 0 /\ dump[backup.of] \in Files
    BY <1>3 DEF BackupZipped, NoBackup, DumpInv, BackupInv, TypeOK
  <2>2. /\ dump'[backup.of] = [dump[backup.of] EXCEPT !.gz = "whole", !.sql = "none"]
        /\ \A d \in Dumps : d # backup.of => dump'[d] = dump[d]
    BY <1>3, <2>1 DEF BackupZipped, Writes, TypeOK
  <2>3. backup' = [backup EXCEPT !.pc = "zipped"] /\ backup'.pc = "zipped" /\ backup'.of = backup.of
        /\ backup'.zip = backup.zip
    BY <1>3 DEF BackupZipped, Backs, TypeOK, Backups
  <2>4. BackupInv'
    <3>1. backup'.zip /\ dump'[backup.of].gz = "whole" /\ dump'[backup.of].sum = "none"
          /\ dump'[backup.of].age = 0
      BY <1>3, <2>1, <2>2, <2>3 DEF BackupZipped, DumpInv, BackupInv, Files
    <3> QED
      BY <2>1, <2>3, <3>1 DEF BackupInv
  <2>5. \A d \in Dumps : Complete(d) => Complete(d)'
    BY <1>3, <2>1, <2>2 DEF BackupZipped, DumpInv, BackupInv, Complete, Files
  <2>6. dump'[backup.of].gz # "none" \/ dump[backup.of].gz = "none"
    BY <2>1, <2>2 DEF Files
  <2>7. dump[backup.of] # Purged
    BY <2>1, RetentionType DEF Purged, NoDump
  <2>8. RestoreInv'
    BY <1>3, <2>1, <2>2, <2>6, <2>7 DEF BackupZipped, DumpInv, RestoreInv
  <2> QED
    BY <2>4, <2>5, <2>8 DEF DumpInv
<1>4. ASSUME BackupSums PROVE DumpInv'
  <2>1. backup.of \in Dumps /\ dump[backup.of].age = 0 /\ dump[backup.of] \in Files
    BY <1>4 DEF BackupSums, NoBackup, DumpInv, BackupInv, TypeOK
  <2>2. /\ dump'[backup.of] = [dump[backup.of] EXCEPT !.sum = IF backup.zip THEN "gz" ELSE "sql"]
        /\ \A d \in Dumps : d # backup.of => dump'[d] = dump[d]
    BY <1>4, <2>1 DEF BackupSums, Writes, TypeOK
  <2>3. backup' = [backup EXCEPT !.pc = "summed"] /\ backup'.pc = "summed" /\ backup'.of = backup.of
        /\ backup'.zip = backup.zip
    BY <1>4 DEF BackupSums, Backs, TypeOK, Backups
  <2>4. BackupInv'
    BY <1>4, <2>1, <2>2, <2>3 DEF BackupSums, DumpInv, BackupInv, Complete, Files
  <2>5. \A d \in Dumps : Complete(d) => Complete(d)'
    BY <1>4, <2>1, <2>2 DEF BackupSums, DumpInv, BackupInv, Complete, Files
  <2>6. dump'[backup.of].gz # "none" \/ dump[backup.of].gz = "none"
    BY <2>1, <2>2 DEF Files
  <2>7. dump[backup.of] # Purged
    BY <2>1, RetentionType DEF Purged, NoDump
  <2>8. RestoreInv'
    BY <1>4, <2>1, <2>2, <2>6, <2>7 DEF BackupSums, DumpInv, RestoreInv
  <2> QED
    BY <2>4, <2>5, <2>8 DEF DumpInv
<1>5. ASSUME BackupPurges PROVE DumpInv'
  <2>1. Complete(backup.of) /\ backup.of \in Dumps /\ ~Old(backup.of)
    BY <1>5, RetentionType DEF BackupPurges, DumpInv, BackupInv, NoBackup, Old
  <2>2. \A d \in Dumps : dump'[d] \in {dump[d], Purged}
    BY <1>5 DEF BackupPurges
  <2>4. RestoreInv'
    BY <1>5, <2>2 DEF BackupPurges, DumpInv, RestoreInv
  <2>5. BackupInv'
    BY <1>5 DEF BackupPurges, BackupInv, NoBackup
  <2>6. \E d \in Dumps : Complete(d)'
    <3>1. dump'[backup.of] = dump[backup.of]
      BY <1>5, <2>1 DEF BackupPurges
    <3> QED
      BY <2>1, <3>1 DEF Complete
  <2> QED
    BY <2>4, <2>5, <2>6 DEF DumpInv
<1>6. ASSUME BackupFails PROVE DumpInv'
  BY <1>6 DEF BackupFails, DumpInv, BackupInv, RestoreInv, Complete, NoBackup
<1>7. ASSUME NEW d \in Dumps, NEW zip \in BOOLEAN, BackupStarts(d, zip) PROVE DumpInv'
  <2>1. /\ dump'[d].age = 0 /\ dump'[d].sum = "none" /\ dump'[d].gz = "none"
        /\ \A e \in Dumps : e # d => dump'[e] = dump[e]
    BY <1>7 DEF BackupStarts, Writes, NoDump, TypeOK
  <2>2. backup' = [pc |-> "dumping", of |-> d, zip |-> zip]
    BY <1>7 DEF BackupStarts
  <2>3. BackupInv'
    BY <2>1, <2>2 DEF BackupInv
  <2>4. RestoreInv'
    BY <1>7, <2>1 DEF BackupStarts, DumpInv, RestoreInv
  <2>5. \A e \in Dumps : Complete(e) => e # d
    BY <1>7 DEF BackupStarts, Complete, NoDump
  <2>6. \E e \in Dumps : Complete(e)'
    BY <2>1, <2>5 DEF DumpInv, Complete
  <2> QED
    BY <2>3, <2>4, <2>6 DEF DumpInv
<1>8. ASSUME NEW d \in Dumps, NEW zip \in BOOLEAN, NEW whole \in BOOLEAN,
             RestoreChecks(d, zip, whole)
      PROVE  DumpInv'
  <2>1. restore'.of = d /\ restore'.zip = zip /\ (zip => dump[d].gz # "none")
        /\ UNCHANGED backup
    BY <1>8 DEF RestoreChecks, Content
  <2>2. CASE zip
    <3>1. BackupInv' /\ dump'[d].gz # "none" /\ \E e \in Dumps : Complete(e)'
      <4>1. dump' = [dump EXCEPT ![d].sql = "partial"]
        BY <1>8, <2>2 DEF RestoreChecks
      <4> QED
        BY <2>1, <2>2, <4>1, BesideGz
    <3> QED
      BY <2>1, <3>1 DEF DumpInv, RestoreInv
  <2>3. CASE ~zip
    BY <1>8, <2>1, <2>3 DEF RestoreChecks, DumpInv, BackupInv, RestoreInv, Complete
  <2> QED
    BY <2>2, <2>3
<1>9. ASSUME RestoreUnzips PROVE DumpInv'
  <2>1. restore.of \in Dumps /\ dump' = [dump EXCEPT ![restore.of].sql = "whole"]
    BY <1>9 DEF RestoreUnzips, Writes, DumpInv, RestoreInv, NoRestore, TypeOK
  <2>2. BackupInv' /\ dump'[restore.of].gz # "none" /\ \E e \in Dumps : Complete(e)'
    BY <1>9, <2>1, BesideGz DEF RestoreUnzips
  <2>3. restore'.of = restore.of
    BY <1>9 DEF RestoreUnzips, Restores, TypeOK, Restorations
  <2> QED
    BY <2>1, <2>2, <2>3 DEF DumpInv, RestoreInv
<1>10. ASSUME UNCHANGED <<dump, backup>>,
              UNCHANGED restore \/ RestoreDrops \/ RestoreCreates \/ RestoreMakes
              \/ RestoreStamps \/ RestoreCopies
       PROVE  DumpInv'
  <2>1. RestoreInv'
    <3>1. CASE UNCHANGED restore
      BY <1>10, <3>1 DEF DumpInv, RestoreInv
    <3>2. CASE ~UNCHANGED restore
      <4>1. restore.pc # "idle" /\ restore' = [restore EXCEPT !.pc = restore'.pc]
        BY <1>10, <3>2 DEF RestoreDrops, RestoreCreates, RestoreMakes, RestoreStamps,
           RestoreCopies, Runs, Restores, TypeOK, Restorations
      <4>2. restore'.of = restore.of /\ restore'.zip = restore.zip
        BY <4>1 DEF TypeOK, Restorations
      <4>3. restore # NoRestore
        BY <4>1 DEF NoRestore
      <4> QED
        BY <1>10, <4>2, <4>3 DEF DumpInv, RestoreInv
    <3> QED
      BY <3>1, <3>2
  <2> QED
    BY <1>10, <2>1 DEF DumpInv, BackupInv, Complete
<1>11. ASSUME RestoreKeys PROVE DumpInv'
  <2>1. restore.of \in Dumps /\ restore' = NoRestore /\ UNCHANGED backup
    BY <1>11 DEF RestoreKeys, RestoreReports, DumpInv, RestoreInv, NoRestore
  <2>2. CASE ~restore.zip
    BY <1>11, <2>1, <2>2 DEF RestoreKeys, RestoreReports, DumpInv, BackupInv, RestoreInv, Complete
  <2>3. CASE restore.zip
    <3>1. dump' = [dump EXCEPT ![restore.of].sql = "none"]
      BY <1>11, <2>3 DEF RestoreKeys, RestoreReports
    <3>2. dump[restore.of].gz # "none" \/ dump[restore.of] = Purged
      BY <1>11, <2>3 DEF RestoreKeys, DumpInv, RestoreInv, NoRestore
    <3>3. dump[restore.of] = Purged => dump' = dump
      <4>1. ASSUME dump[restore.of] = Purged
            PROVE  [dump[restore.of] EXCEPT !.sql = "none"] = dump[restore.of]
        BY <4>1 DEF Purged, NoDump
      <4> QED
        BY <2>1, <3>1, <4>1 DEF TypeOK
    <3>4. dump[restore.of].gz # "none" => BackupInv' /\ \E e \in Dumps : Complete(e)'
      BY <2>1, <3>1, BesideGz
    <3> QED
      BY <2>1, <3>2, <3>3, <3>4 DEF DumpInv, BackupInv, RestoreInv, Complete
  <2> QED
    BY <2>2, <2>3
<1>12. ASSUME RestoreFails PROVE DumpInv'
  BY <1>12 DEF RestoreFails, DumpInv, BackupInv, RestoreInv, Complete
<1>13. ASSUME Day PROVE DumpInv'
  <2>1. backup = NoBackup /\ UNCHANGED <<backup, restore>>
    BY <1>13 DEF Day
  <2>2. ASSUME NEW d \in Dumps
        PROVE  /\ dump'[d].sql = dump[d].sql /\ dump'[d].gz = dump[d].gz
               /\ dump'[d].sum = dump[d].sum
               /\ dump[d] = Purged => dump'[d] = Purged
    BY <1>13, RetentionType DEF Day, TypeOK, Files, Old, Purged, NoDump
  <2> QED
    <3>1. BackupInv'
      BY <2>1 DEF BackupInv, NoBackup
    <3>2. RestoreInv'
      <4> SUFFICES ASSUME restore # NoRestore PROVE RestoreInv'
        BY <2>1 DEF RestoreInv
      <4>1. restore.of \in Dumps
        BY DEF DumpInv, RestoreInv
      <4>2. restore.zip => dump'[restore.of].gz # "none" \/ dump'[restore.of] = Purged
        BY <2>2, <4>1 DEF DumpInv, RestoreInv
      <4> QED
        BY <2>1, <4>1, <4>2 DEF RestoreInv
    <3>3. \E d \in Dumps : Complete(d)'
      <4>1. PICK d \in Dumps : Complete(d)
        BY DEF DumpInv
      <4>2. Complete(d)'
        BY <2>2, <4>1 DEF Complete
      <4> QED
        BY <4>2
    <3> QED
      BY <3>1, <3>2, <3>3 DEF DumpInv
<1>14. ASSUME NEW c \in Containers,
              \/ MigrateBegins(c) \/ Migrates(c) \/ SeedLoads(c) \/ SeedRoles(c) \/ SeedFills(c)
              \/ Serves(c) \/ Fails(c) \/ MigrationsEnd(c) \/ Stops(c)
       PROVE  UNCHANGED <<dump, backup, restore>>
  BY <1>14 DEF MigrateBegins, Migrates, SeedLoads, SeedRoles, SeedFills, Serves, Fails,
     MigrationsEnd, Stops
<1>15. ASSUME RestoreDrops \/ RestoreCreates \/ RestoreMakes \/ RestoreStamps \/ RestoreCopies
       PROVE  UNCHANGED <<dump, backup>>
  BY <1>15 DEF RestoreDrops, RestoreCreates, RestoreMakes, RestoreStamps, RestoreCopies, Runs
<1>16. ASSUME UNCHANGED vars PROVE UNCHANGED <<dump, backup, restore>>
  BY <1>16 DEF vars
<1> QED
  BY <1>1, <1>2, <1>3, <1>4, <1>5, <1>6, <1>7, <1>8, <1>9, <1>10, <1>11, <1>12, <1>13, <1>14, <1>15,
     <1>16 DEF Next

(* A complete dump is kept at any time (backup.sh and restore.sh). *)
THEOREM Kept == Spec => []DumpIsKept
<1>1. Init => TypeOK /\ DumpInv
  BY InitTypes, InitDump
<1>2. TypeOK /\ DumpInv /\ [Next]_vars => (TypeOK /\ DumpInv)'
  BY TypeStep, DumpStep
<1>3. TypeOK /\ DumpInv => DumpIsKept
  BY DEF DumpInv, Complete, DumpIsKept
<1> QED
  BY <1>1, <1>2, <1>3, PTL DEF Spec

-----------------------------------------------------------------------------
(* The database *)

LEMMA InitDb == Init => DbInv
<1> SUFFICES ASSUME Init PROVE DbInv
  OBVIOUS
<1>1. WellFormed(InUse) /\ WellFormed(Empty) /\ InUse.exists /\ Empty.exists
  BY Revisions DEF WellFormed, InUse, Empty
<1>2. HoldsInv
  BY <1>1 DEF Init, HoldsInv, NoDump, NoRestore
<1>3. RunInv /\ LoadInv
  BY DEF Init, RunInv, LoadInv, Up, Down, Advanced, NoRestore, Empty
<1> QED
  BY <1>1, <1>2, <1>3 DEF Init, DbInv, NoRestore

LEMMA Actions ==
  ASSUME [Next]_vars
  PROVE  \/ \E c \in Containers :
               \/ MigrateBegins(c) \/ Migrates(c) \/ SeedLoads(c) \/ SeedRoles(c) \/ SeedFills(c)
               \/ Serves(c) \/ Fails(c) \/ MigrationsEnd(c) \/ Stops(c)
         \/ \E d \in Dumps, zip \in BOOLEAN :
               BackupStarts(d, zip) \/ \E whole \in BOOLEAN : RestoreChecks(d, zip, whole)
         \/ BackupDumps \/ BackupZips \/ BackupZipped \/ BackupSums \/ BackupPurges
         \/ BackupFails \/ Day
         \/ RestoreUnzips \/ RestoreDrops \/ RestoreCreates \/ RestoreMakes \/ RestoreStamps
         \/ RestoreCopies \/ RestoreKeys \/ RestoreFails
         \/ UNCHANGED vars
  BY DEF Next

(* What a container knows of the database it works on. *)
LEMMA Undisturbed ==
  ASSUME TypeOK, RunInv, WellFormed(db), NEW c \in Containers, con[c].pc # "down"
  PROVE  ~Loading /\ db.exists /\ db.keyed = db.tables
  BY DEF RunInv, Up

(* A step of a container keeps the database in order. *)
LEMMA ContainerStep ==
  ASSUME TypeOK, WellFormed(db), RunInv, LoadInv, NEW c \in Containers, ~met', ~met,
         \/ MigrateBegins(c) \/ Migrates(c) \/ SeedLoads(c) \/ SeedRoles(c) \/ SeedFills(c)
         \/ Serves(c) \/ Fails(c) \/ MigrationsEnd(c) \/ Stops(c)
  PROVE  WellFormed(db)' /\ RunInv' /\ LoadInv'
<1>1. UNCHANGED restore /\ (Loading' <=> Loading)
  BY DEF MigrateBegins, Migrates, SeedLoads, SeedRoles, SeedFills, Serves, Fails, MigrationsEnd,
     Stops, Loading
<1>2. ASSUME MigrateBegins(c) PROVE WellFormed(db)' /\ RunInv' /\ LoadInv'
  <2>1. ~Torso /\ UNCHANGED db /\ db.exists
    BY <1>2 DEF MigrateBegins
  <2>2. con'[c].pc = "migrating" /\ \A e \in Containers : e # c => con'[e] = con[e]
    BY <1>2 DEF MigrateBegins, TypeOK
  <2>3. ~Loading /\ db.keyed = db.tables
    BY <2>1 DEF Torso, WellFormed, TypeOK, Databases
  <2> QED
    BY <1>1, <2>1, <2>2, <2>3 DEF RunInv, LoadInv, WellFormed, Advanced
<1>3. ASSUME Migrates(c) PROVE WellFormed(db)' /\ RunInv' /\ LoadInv'
  <2>1. con[c].pc = "migrating" /\ Migratable(c)
    BY <1>3 DEF Migrates
  <2>2. ~Loading /\ db.exists /\ db.keyed = db.tables
    BY <2>1, Undisturbed
  <2>3. con'[c].pc = "migrated" /\ \A e \in Containers : e # c => con'[e] = con[e]
    BY <1>3 DEF Migrates, Goes, TypeOK, Down
  <2>4. db' \in Databases /\ db'.exists /\ db'.tables /\ db'.keyed /\ db'.version = Head
        /\ db'.demos = db.demos
    BY <1>3, <2>2, Revisions DEF Migrates, TypeOK, Databases, WellFormed
  <2>5. WellFormed(db)'
    BY <2>4, Revisions DEF WellFormed
  <2> QED
    BY <1>1, <2>2, <2>3, <2>4, <2>5 DEF RunInv, LoadInv, Advanced, Loading
<1>4. ASSUME SeedFills(c) PROVE WellFormed(db)' /\ RunInv' /\ LoadInv'
  <2>1. con[c].pc = "filling"
    BY <1>4 DEF SeedFills
  <2>2. ~Loading /\ db.exists /\ db.keyed = db.tables
    BY <2>1, Undisturbed
  <2>3. db.demos = 0 /\ db.keyed /\ db.version = Head
    BY <2>1 DEF RunInv, Advanced
  <2>4. con'[c].pc \in {"ready", "down"} /\ \A e \in Containers : e # c => con'[e] = con[e]
    BY <1>4 DEF SeedFills, Goes, AfterSeed, TypeOK, Down
  <2>5. /\ db'.demos = 1 /\ db'.exists = db.exists /\ db'.tables = db.tables
        /\ db'.keyed = db.keyed /\ db'.version = db.version
    <3>1. db' = [db EXCEPT !.demos = 1]
      BY <1>4, <2>3 DEF SeedFills
    <3> QED
      BY <3>1 DEF TypeOK, Databases
  <2>6. WellFormed(db)'
    <3>1. db'.demos <= 1
      BY <2>5
    <3>2. db'.tables
      BY <2>2, <2>3, <2>5
    <3> QED
      BY <2>5, <3>1, <3>2 DEF WellFormed
  <2>7. \A e \in Containers : con'[e].pc # "filling"
    BY <2>1, <2>4 DEF RunInv
  <2> QED
    BY <1>1, <2>1, <2>2, <2>3, <2>4, <2>5, <2>6, <2>7 DEF RunInv, LoadInv, Advanced, Loading
<1>5. ASSUME SeedRoles(c) PROVE WellFormed(db)' /\ RunInv' /\ LoadInv'
  <2>1. con[c].pc = "seeding" /\ UNCHANGED db
    BY <1>5 DEF SeedRoles
  <2>2. db.keyed /\ db.version = Head /\ db.exists /\ db.keyed = db.tables /\ ~Loading
    BY <2>1, Undisturbed DEF RunInv, Advanced
  <2>3. db.demos = 0 /\ \A e \in Containers : con[e].pc # "filling"
    BY <1>5, <2>2 DEF SeedRoles, Seedable
  <2>4. con'[c].pc = "filling" /\ \A e \in Containers : e # c => con'[e] = con[e]
    BY <1>5 DEF SeedRoles, Goes, TypeOK, Down
  <2> QED
    BY <1>1, <2>1, <2>2, <2>3, <2>4 DEF RunInv, LoadInv, WellFormed, Advanced, Loading
<1>6. ASSUME \/ SeedLoads(c) \/ Serves(c) \/ Fails(c) \/ MigrationsEnd(c) \/ Stops(c)
      PROVE  WellFormed(db)' /\ RunInv' /\ LoadInv'
  <2>1. con[c].pc # "down" /\ UNCHANGED db
    BY <1>6 DEF SeedLoads, Serves, Fails, MigrationsEnd, Stops
  <2>2. /\ con'[c].pc \in Advanced => con[c].pc \in Advanced
        /\ con'[c].pc # "filling"
        /\ \A e \in Containers : e # c => con'[e] = con[e]
    BY <1>6 DEF SeedLoads, Serves, Fails, MigrationsEnd, Stops, Goes, AfterSeed, TypeOK, Down, Advanced
  <2>3. ~Loading /\ db.exists /\ db.keyed = db.tables
    BY <2>1, Undisturbed
  <2> QED
    BY <1>1, <2>1, <2>2, <2>3 DEF RunInv, LoadInv, WellFormed, Loading
<1> QED
  BY <1>2, <1>3, <1>4, <1>5, <1>6

(* A step of a restoration keeps the database in order. *)
LEMMA RestorationStep ==
  ASSUME TypeOK, WellFormed(db), RunInv, LoadInv, HoldsInv, ~met', ~met,
         \/ RestoreDrops \/ RestoreCreates \/ RestoreMakes \/ RestoreStamps \/ RestoreCopies
         \/ RestoreKeys
  PROVE  WellFormed(db)' /\ RunInv' /\ LoadInv'
<1> DEFINE h == restore.holds
<1>1. Up = {} /\ UNCHANGED con
  BY DEF RestoreDrops, RestoreCreates, RestoreMakes, RestoreStamps, RestoreCopies, RestoreKeys,
     Runs, RunInv, Loading
<1>2. RunInv'
  BY <1>1 DEF Up, RunInv, Advanced
<1>3. WellFormed(h) /\ h.exists /\ h \in Databases
  BY DEF HoldsInv, TypeOK, Restorations
<1>4. ASSUME RestoreDrops PROVE WellFormed(db)' /\ LoadInv'
  <2>1. db' = Missing /\ restore' = [restore EXCEPT !.pc = "creating"]
    BY <1>4 DEF RestoreDrops, Restores
  <2>2. restore'.pc = "creating"
    BY <2>1 DEF TypeOK, Restorations
  <2>3. WellFormed(Missing)
    BY Revisions DEF WellFormed, Missing, Empty
  <2> QED
    BY <2>1, <2>2, <2>3 DEF LoadInv, WellFormed
<1>5. ASSUME RestoreCreates PROVE WellFormed(db)' /\ LoadInv'
  <2>1. db' = Empty /\ restore' = [restore EXCEPT !.pc = "making"]
    BY <1>5 DEF RestoreCreates, Restores
  <2>2. restore'.pc = "making"
    BY <2>1 DEF TypeOK, Restorations
  <2>3. WellFormed(Empty)
    BY Revisions DEF WellFormed, Empty
  <2> QED
    BY <2>1, <2>2, <2>3 DEF LoadInv, WellFormed
<1>6. ASSUME RestoreMakes PROVE WellFormed(db)' /\ LoadInv'
  <2>1. restore'.pc = "stamping" /\ restore'.whole = restore.whole /\ restore'.holds = h
    BY <1>6 DEF RestoreMakes, Runs, Restores, TypeOK, Restorations
  <2>2. db = Empty
    BY <1>6 DEF RestoreMakes, Runs, LoadInv
  <2>3. /\ db'.exists /\ ~db'.keyed /\ db'.version = 0 /\ db'.demos = 0
        /\ restore.whole => db'.tables = h.tables
    BY <1>6, <1>3, <2>2 DEF RestoreMakes, Runs, Empty, Databases
  <2> QED
    BY <2>1, <2>3, Revisions DEF LoadInv, WellFormed
<1>7. ASSUME RestoreStamps PROVE WellFormed(db)' /\ LoadInv'
  <2>1. restore'.pc = "copying" /\ restore'.whole = restore.whole /\ restore'.holds = h
    BY <1>7 DEF RestoreStamps, Runs, Restores, TypeOK, Restorations
  <2>2. db.exists /\ ~db.keyed /\ db.demos = 0 /\ db.version = 0
        /\ (restore.whole => db.tables = h.tables)
    BY <1>7 DEF RestoreStamps, Runs, LoadInv
  <2>3. /\ db'.exists /\ ~db'.keyed /\ db'.demos = 0 /\ db'.tables = db.tables
        /\ db'.version \in {0, h.version}
        /\ db'.version # 0 => db.tables
        /\ restore.whole => db'.version = h.version
    BY <1>7, <1>3, <2>2, Revisions DEF RestoreStamps, Runs, TypeOK, Databases, WellFormed
  <2> QED
    BY <1>3, <2>1, <2>2, <2>3, Revisions DEF LoadInv, WellFormed
<1>8. ASSUME RestoreCopies PROVE WellFormed(db)' /\ LoadInv'
  <2>1. restore'.pc = "keying" /\ restore'.whole = restore.whole /\ restore'.holds = h
    BY <1>8 DEF RestoreCopies, Runs, Restores, TypeOK, Restorations
  <2>2. db.exists /\ ~db.keyed /\ db.demos = 0
        /\ (restore.whole => db.tables = h.tables /\ db.version = h.version)
    BY <1>8 DEF RestoreCopies, Runs, LoadInv
  <2>3. /\ db'.exists = db.exists /\ db'.keyed = db.keyed /\ db'.tables = db.tables
        /\ db'.version = db.version
        /\ db'.demos \in {0, h.demos}
        /\ db'.demos # 0 => db.tables
        /\ restore.whole => db'.demos = h.demos
    <3>1. PICK copied \in BOOLEAN :
             /\ db.tables => copied
             /\ copied => db.tables
             /\ \/ db' = IF copied THEN [db EXCEPT !.demos = @ + h.demos] ELSE db
                \/ ~restore.whole /\ db' = db
      BY <1>8, <2>2 DEF RestoreCopies, Runs, TypeOK, Databases
    <3>2. [db EXCEPT !.demos = @ + h.demos] = [db EXCEPT !.demos = h.demos]
      BY <1>3, <2>2 DEF TypeOK, Databases
    <3>3. ~db.tables /\ restore.whole => h.demos = 0
      BY <1>3, <2>2 DEF WellFormed
    <3> QED
      BY <1>3, <2>2, <3>1, <3>2, <3>3 DEF TypeOK, Databases
  <2> QED
    BY <1>3, <2>1, <2>2, <2>3 DEF LoadInv, WellFormed
<1>9. ASSUME RestoreKeys PROVE WellFormed(db)' /\ LoadInv'
  <2>1. restore' = NoRestore
    BY <1>9 DEF RestoreKeys, RestoreReports
  <2>2. /\ db'.exists = db.exists /\ db'.tables = db.tables
        /\ db'.version = db.version /\ db'.demos = db.demos
        /\ db'.keyed => db.keyed \/ db.tables
    BY <1>9 DEF RestoreKeys, TypeOK, Databases
  <2> QED
    BY <2>1, <2>2 DEF LoadInv, WellFormed, NoRestore
<1> QED
  BY <1>2, <1>4, <1>5, <1>6, <1>7, <1>8, <1>9

(* Only databases that are there are dumped, and the dumps stay what they  *)
(* are of.                                                                 *)
LEMMA HoldsStep ==
  ASSUME TypeOK, WellFormed(db), HoldsInv, [Next]_vars
  PROVE  HoldsInv'
<1>1. Empty.exists /\ WellFormed(Empty)
  BY Revisions DEF Empty, WellFormed
<1>2. ASSUME \A d \in Dumps : dump'[d].holds \in {dump[d].holds, Empty},
             restore'.holds \in {restore.holds, Empty}
      PROVE  HoldsInv'
  BY <1>1, <1>2 DEF HoldsInv, WellFormed
<1>3. NoDump.holds = Empty /\ Purged.holds = Empty /\ NoRestore.holds = Empty
  BY DEF NoDump, Purged, NoRestore
<1>4. ASSUME NEW d \in Dumps, NEW zip \in BOOLEAN, BackupStarts(d, zip) PROVE HoldsInv'
  <2>1. dump'[d].holds = db /\ db.exists /\ UNCHANGED restore
        /\ \A e \in Dumps : e # d => dump'[e] = dump[e]
    BY <1>4 DEF BackupStarts, Writes, TypeOK, NoDump
  <2> QED
    BY <2>1 DEF HoldsInv, WellFormed
<1>5. ASSUME NEW d \in Dumps, NEW zip \in BOOLEAN, NEW whole \in BOOLEAN,
             RestoreChecks(d, zip, whole)
      PROVE  HoldsInv'
  <2>1. restore'.holds = dump[d].holds
    BY <1>5 DEF RestoreChecks
  <2>2. \A e \in Dumps : dump'[e].holds = dump[e].holds
    BY <1>5 DEF RestoreChecks, TypeOK, Files
  <2> QED
    BY <2>1, <2>2 DEF HoldsInv, WellFormed
<1>6. ASSUME \/ BackupDumps \/ BackupZips \/ BackupZipped \/ BackupSums \/ RestoreUnzips
      PROVE  HoldsInv'
  <2>1. \A d \in Dumps : dump'[d].holds = dump[d].holds
    <3>1. ASSUME NEW b, NEW r, Writes(b, r), b \in Dumps => r.holds = dump[b].holds
          PROVE  \A d \in Dumps : dump'[d].holds = dump[d].holds
      BY <3>1 DEF Writes, TypeOK
    <3>2. ASSUME NEW b \in Dumps, NEW x, NEW y
          PROVE  /\ [dump[b] EXCEPT !.sql = x].holds = dump[b].holds
                 /\ [dump[b] EXCEPT !.gz = x].holds = dump[b].holds
                 /\ [dump[b] EXCEPT !.gz = x, !.sql = y].holds = dump[b].holds
                 /\ [dump[b] EXCEPT !.sum = x].holds = dump[b].holds
      BY DEF TypeOK, Files
    <3>3. CASE BackupDumps
      BY <3>1, <3>2, <3>3 DEF BackupDumps
    <3>4. CASE BackupZips
      BY <3>1, <3>2, <3>4 DEF BackupZips
    <3>5. CASE BackupZipped
      <4> DEFINE r == [dump[backup.of] EXCEPT !.gz = "whole", !.sql = "none"]
      <4>1. Writes(backup.of, r)
        BY <3>5 DEF BackupZipped
      <4>2. backup.of \in Dumps => r.holds = dump[backup.of].holds
        BY DEF TypeOK, Files
      <4> HIDE DEF r
      <4> QED
        BY <3>1, <4>1, <4>2
    <3>6. CASE BackupSums
      BY <3>1, <3>2, <3>6 DEF BackupSums
    <3>7. CASE RestoreUnzips
      BY <3>1, <3>2, <3>7 DEF RestoreUnzips
    <3> QED
      BY <1>6, <3>3, <3>4, <3>5, <3>6, <3>7
  <2>2. restore'.holds = restore.holds
    BY <1>6 DEF BackupDumps, BackupZips, BackupZipped, BackupSums, RestoreUnzips, Restores,
       TypeOK, Restorations
  <2> QED
    BY <1>2, <2>1, <2>2
<1>7. ASSUME BackupPurges \/ Day PROVE HoldsInv'
  <2>1. \A d \in Dumps : dump'[d].holds \in {dump[d].holds, Empty}
    BY <1>3, <1>7 DEF BackupPurges, Day, TypeOK, Files
  <2> QED
    BY <1>2, <1>7, <2>1 DEF BackupPurges, Day
<1>8. ASSUME \/ RestoreDrops \/ RestoreCreates \/ RestoreMakes \/ RestoreStamps \/ RestoreCopies
      PROVE  HoldsInv'
  <2>1. UNCHANGED dump /\ restore'.holds = restore.holds
    BY <1>8 DEF RestoreDrops, RestoreCreates, RestoreMakes, RestoreStamps, RestoreCopies, Runs,
       Restores, TypeOK, Restorations
  <2> QED
    BY <1>2, <2>1
<1>9. ASSUME RestoreKeys PROVE HoldsInv'
  <2>1. \A d \in Dumps : dump'[d].holds = dump[d].holds
    BY <1>9 DEF RestoreKeys, RestoreReports, TypeOK, Files
  <2> QED
    BY <1>2, <1>3, <1>9, <2>1 DEF RestoreKeys, RestoreReports
<1>10. ASSUME RestoreFails PROVE HoldsInv'
  BY <1>2, <1>3, <1>10 DEF RestoreFails
<1>11. ASSUME NEW c \in Containers,
              \/ MigrateBegins(c) \/ Migrates(c) \/ SeedLoads(c) \/ SeedRoles(c) \/ SeedFills(c)
              \/ Serves(c) \/ Fails(c) \/ MigrationsEnd(c) \/ Stops(c)
       PROVE  UNCHANGED <<dump, restore>>
  BY <1>11 DEF MigrateBegins, Migrates, SeedLoads, SeedRoles, SeedFills, Serves, Fails,
     MigrationsEnd, Stops
<1>12. ASSUME BackupFails \/ UNCHANGED vars PROVE UNCHANGED <<dump, restore>>
  BY <1>12 DEF BackupFails, vars
<1>13. UNCHANGED <<dump, restore>> => HoldsInv'
  BY <1>2
<1> QED
  BY Actions, <1>4, <1>5, <1>6, <1>7, <1>8, <1>9, <1>10, <1>11, <1>12, <1>13

(* What has the right sum is whole. *)
LEMMA CheckedStep ==
  ASSUME TypeOK, restore.checked => restore.whole, [Next]_vars
  PROVE  restore'.checked => restore'.whole
<1>1. ASSUME NEW d \in Dumps, NEW zip \in BOOLEAN, NEW whole \in BOOLEAN,
             RestoreChecks(d, zip, whole)
      PROVE  restore'.checked => restore'.whole
  BY <1>1 DEF RestoreChecks
<1>2. ~NoRestore.checked
  BY DEF NoRestore
<1>3. ASSUME RestoreUnzips \/ RestoreDrops \/ RestoreCreates \/ RestoreMakes \/ RestoreStamps
             \/ RestoreCopies
      PROVE  restore'.checked = restore.checked /\ restore'.whole = restore.whole
  BY <1>3 DEF RestoreUnzips, RestoreDrops, RestoreCreates, RestoreMakes, RestoreStamps,
     RestoreCopies, Runs, Restores, TypeOK, Restorations
<1>4. ASSUME RestoreKeys \/ RestoreFails PROVE restore' = NoRestore
  BY <1>4 DEF RestoreKeys, RestoreFails, RestoreReports
<1>5. ASSUME NEW c \in Containers,
             \/ MigrateBegins(c) \/ Migrates(c) \/ SeedLoads(c) \/ SeedRoles(c) \/ SeedFills(c)
             \/ Serves(c) \/ Fails(c) \/ MigrationsEnd(c) \/ Stops(c)
      PROVE  UNCHANGED restore
  BY <1>5 DEF MigrateBegins, Migrates, SeedLoads, SeedRoles, SeedFills, Serves, Fails,
     MigrationsEnd, Stops
<1>6. ASSUME NEW d \in Dumps, NEW zip \in BOOLEAN, BackupStarts(d, zip) PROVE UNCHANGED restore
  BY <1>6 DEF BackupStarts
<1>7. ASSUME \/ BackupDumps \/ BackupZips \/ BackupZipped \/ BackupSums \/ BackupPurges
             \/ BackupFails \/ Day \/ UNCHANGED vars
      PROVE  UNCHANGED restore
  BY <1>7 DEF BackupDumps, BackupZips, BackupZipped, BackupSums, BackupPurges, BackupFails, Day,
     vars
<1> QED
  BY Actions, <1>1, <1>2, <1>3, <1>4, <1>5, <1>6, <1>7

(* Every step keeps the invariant of the database. *)
LEMMA DbStep == TypeOK /\ DbInv /\ [Next]_vars => DbInv'
<1> SUFFICES ASSUME TypeOK, DbInv, [Next]_vars PROVE DbInv'
  OBVIOUS
<1>1. restore'.checked => restore'.whole
  BY CheckedStep DEF DbInv
<1>2. met => met'
  BY Actions DEF MigrateBegins, Migrates, SeedLoads, SeedRoles, SeedFills, Serves, Fails,
     MigrationsEnd, Stops, BackupStarts, BackupDumps, BackupZips, BackupZipped, BackupSums,
     BackupPurges, BackupFails, Day, RestoreChecks, RestoreUnzips, RestoreDrops, RestoreCreates,
     RestoreMakes, RestoreStamps, RestoreCopies, RestoreKeys, RestoreFails, Runs, vars
<1> SUFFICES ASSUME ~met', ~met PROVE WellFormed(db)' /\ HoldsInv' /\ RunInv' /\ LoadInv'
  BY <1>1, <1>2 DEF DbInv
<1> USE DEF DbInv
<1>3. HoldsInv'
  BY HoldsStep
<1>4. ASSUME UNCHANGED <<db, con>>, ~Loading' \/ UNCHANGED restore
      PROVE  WellFormed(db)' /\ RunInv' /\ LoadInv'
  <2>1. WellFormed(db)'
    BY <1>4 DEF WellFormed
  <2>2. Loading' => Loading
    BY <1>4 DEF Loading
  <2>3. RunInv'
    BY <1>4, <2>2 DEF RunInv, Up, Advanced
  <2>4. LoadInv'
    BY <1>4 DEF LoadInv, Loading
  <2> QED
    BY <2>1, <2>3, <2>4
<1>5. ASSUME NEW d \in Dumps, NEW zip \in BOOLEAN,
             BackupStarts(d, zip) \/ \E whole \in BOOLEAN : RestoreChecks(d, zip, whole)
      PROVE  UNCHANGED <<db, con>> /\ (~Loading' \/ UNCHANGED restore)
  BY <1>5 DEF BackupStarts, RestoreChecks, Loading
<1>6. ASSUME \/ BackupDumps \/ BackupZips \/ BackupZipped \/ BackupSums \/ BackupPurges
             \/ BackupFails \/ Day \/ UNCHANGED vars
      PROVE  UNCHANGED <<db, con, restore>>
  BY <1>6 DEF BackupDumps, BackupZips, BackupZipped, BackupSums, BackupPurges, BackupFails, Day,
     vars
<1>7. ASSUME RestoreUnzips \/ RestoreFails PROVE UNCHANGED <<db, con>> /\ ~Loading'
  BY <1>7 DEF RestoreUnzips, RestoreFails, Restores, NoRestore, Loading, TypeOK, Restorations
<1>8. ASSUME NEW c \in Containers,
             \/ MigrateBegins(c) \/ Migrates(c) \/ SeedLoads(c) \/ SeedRoles(c) \/ SeedFills(c)
             \/ Serves(c) \/ Fails(c) \/ MigrationsEnd(c) \/ Stops(c)
      PROVE  WellFormed(db)' /\ RunInv' /\ LoadInv'
  BY <1>8, ContainerStep
<1>9. ASSUME \/ RestoreDrops \/ RestoreCreates \/ RestoreMakes \/ RestoreStamps
             \/ RestoreCopies \/ RestoreKeys
      PROVE  WellFormed(db)' /\ RunInv' /\ LoadInv'
  BY <1>9, RestorationStep
<1> QED
  BY Actions, <1>3, <1>4, <1>5, <1>6, <1>7, <1>8, <1>9

LEMMA Database == Spec => [](TypeOK /\ DbInv)
<1>1. Init => TypeOK /\ DbInv
  BY InitTypes, InitDb
<1>2. TypeOK /\ DbInv /\ [Next]_vars => (TypeOK /\ DbInv)'
  BY TypeStep, DbStep
<1> QED
  BY <1>1, <1>2, PTL DEF Spec

(* Demonstration data is inserted at most once (seed.py). *)
THEOREM Seeded == Spec => []SeededOnce
<1>1. DbInv => SeededOnce
  BY DEF DbInv, WellFormed, SeededOnce
<1> QED
  BY <1>1, Database, PTL

(* What serves has the newest schema with its keys (docker-entrypoint.sh). *)
THEOREM Served == Spec => []ServedIsMigrated
<1>1. TypeOK /\ DbInv => ServedIsMigrated
  <2> SUFFICES ASSUME TypeOK, DbInv, ~met, NEW c \in Containers, con[c].pc \in {"ready", "serving"}
               PROVE  db.exists /\ db.keyed /\ db.version = Head
    BY DEF ServedIsMigrated
  <2> QED
    BY DEF DbInv, RunInv, Up, Advanced
<1> QED
  BY <1>1, Database, PTL

(* What is reported as restored is what was dumped (restore.sh). *)
THEOREM Restored == Spec => ReportedIsRestored
<1>1. ASSUME TypeOK, DbInv, RestoreKeys, restore.checked, ~met
      PROVE  db' = restore.holds
  <2> DEFINE h == restore.holds
  <2>1. /\ db.exists /\ ~db.keyed /\ db.tables = h.tables /\ db.version = h.version
        /\ db.demos = h.demos
    BY <1>1 DEF RestoreKeys, DbInv, LoadInv
  <2>2. h.exists /\ h.demos <= 1 /\ (h.keyed => h.tables) /\ h \in Databases /\ db \in Databases
    BY <1>1 DEF DbInv, HoldsInv, WellFormed, TypeOK, Restorations
  <2>3. db' = IF db.tables /\ h.keyed /\ db.demos < 2 THEN [db EXCEPT !.keyed = TRUE] ELSE db
    BY <1>1 DEF RestoreKeys, DbInv
  <2>4. db.demos < 2
    BY <2>1, <2>2 DEF Databases
  <2>5. CASE h.keyed
    BY <2>1, <2>2, <2>3, <2>4, <2>5 DEF Databases
  <2>6. CASE ~h.keyed
    BY <2>1, <2>2, <2>3, <2>6 DEF Databases
  <2> QED
    BY <2>5, <2>6
<1>2. TypeOK /\ DbInv => (RestoreKeys /\ restore.checked /\ ~met => db' = restore.holds)
  BY <1>1
<1> QED
  BY <1>2, Database, PTL DEF ReportedIsRestored
=============================================================================
