----------------------------- MODULE Deployment -----------------------------
(***************************************************************************)
(* What happens to the database as a whole: containers start on it, it is  *)
(* backed up, dropped and restored.                                        *)
(*   - docker-entrypoint.sh runs "alembic upgrade head", scripts/seed.py   *)
(*     and the API one after the other under set -e, and docker-compose    *)
(*     starts it again whenever it ends; the compose profile "seed" runs   *)
(*     the first two beside it.                                            *)
(*   - backup.sh dumps, compresses, sums and purges, and restore.sh checks, *)
(*     decompresses, drops, creates and loads; both under set -e, and each *)
(*     may be killed after any step.                                       *)
(* PostgreSQL refuses to drop a database that has a connection.  psql runs *)
(* without ON_ERROR_STOP: each statement of the dump commits by itself and *)
(* one that fails is passed over.  pg_dump writes the tables, then their   *)
(* rows (alembic_version long before roles) and then their keys.           *)
(***************************************************************************)
EXTENDS Naturals

CONSTANTS Apis,        \* containers that run docker-entrypoint.sh
          Seeders,     \* containers of the services migrations and seed
          Dumps,       \* bound: names of the dump files
          First,       \* the dump of the first installation
          Retention,   \* RETENTION_DAYS
          MaxStops,    \* bound: containers stopped
          MaxBackups,  \* bound: calls of backup.sh
          MaxRestores  \* bound: calls of restore.sh

Containers == Apis \cup Seeders

ASSUME DeploymentAssumption ==
    /\ Apis \cap Seeders = {}
    /\ First \in Dumps
    /\ "none" \notin Dumps
    /\ {Retention, MaxStops, MaxBackups, MaxRestores} \subseteq Nat

Head == 2    \* revisions of the schema: 0001 and 0002
Both == 12   \* alembic_version has a row for each

Versions == 0..Head \cup {Both}

VARIABLES db,        \* the database
          con,       \* what each container is doing
          dump,      \* the files of each backup
          backup,    \* the run of backup.sh
          restore,   \* the run of restore.sh
          calls,     \* how often a container was stopped and the two called
          met        \* whether a container ever met a database that was being
                     \* restored, or that a restoration left (history)

vars == <<db, con, dump, backup, restore, calls, met>>

(* keyed: the primary and foreign keys are there.  demos counts the        *)
(* demonstration datasets of seed.py, each with the three roles that       *)
(* nothing else makes.                                                     *)
Databases == [exists : BOOLEAN, tables : BOOLEAN, keyed : BOOLEAN,
              version : Versions, demos : Nat]

Empty == [exists |-> TRUE, tables |-> FALSE, keyed |-> FALSE, version |-> 0, demos |-> 0]

Missing == [Empty EXCEPT !.exists = FALSE]

Contents == {"none", "partial", "whole"}

NoDump == [sql |-> "none", gz |-> "none", sum |-> "none", age |-> 0, holds |-> Empty]

(* What purging leaves: a dump is named after the time at which it began,  *)
(* and the name never comes back.                                          *)
Purged == [NoDump EXCEPT !.age = Retention + 1]

Down == [pc |-> "down", saw |-> 0]

NoBackup == [pc |-> "idle", of |-> "none", zip |-> FALSE]

NoRestore == [pc |-> "idle", of |-> "none", zip |-> FALSE, checked |-> FALSE,
              whole |-> FALSE, holds |-> Empty]

(* A container saw the revision that was there when its alembic began. *)
Processes == [pc : {"down", "migrating", "migrated", "seeding", "filling", "ready",
                    "serving"},
              saw : Versions]

Files == [sql : Contents, gz : Contents, sum : {"none", "sql", "gz"},
          age : 0..(Retention + 1), holds : Databases]

Backups == [pc : {"idle", "dumping", "dumped", "zipping", "zipped", "summed"},
            of : Dumps \cup {"none"}, zip : BOOLEAN]

(* checked: the file had a sum, and it was right.  whole and holds: what    *)
(* the file is worth, and of which database it is a dump.                  *)
Restorations == [pc : {"idle", "unzipping", "dropping", "creating", "making", "stamping",
                       "copying", "keying"},
                 of : Dumps \cup {"none"}, zip : BOOLEAN,
                 checked : BOOLEAN, whole : BOOLEAN, holds : Databases]

TypeOK ==
    /\ db \in Databases
    /\ con \in [Containers -> Processes]
    /\ dump \in [Dumps -> Files]
    /\ backup \in Backups
    /\ restore \in Restorations
    /\ calls \in [stop : 0..MaxStops, backup : 0..MaxBackups, restore : 0..MaxRestores]
    /\ met \in BOOLEAN

InUse == [exists |-> TRUE, tables |-> TRUE, keyed |-> TRUE, version |-> 1, demos |-> 1]

(* An installation of the first revision, in use, with one backup.  A new  *)
(* one is what a restoration leaves that is killed before it loads.        *)
Init ==
    /\ db = InUse
    /\ dump = [d \in Dumps |-> IF d # First THEN NoDump
                               ELSE [NoDump EXCEPT !.gz = "whole", !.sum = "gz",
                                                   !.holds = InUse]]
    /\ con = [c \in Containers |-> Down]
    /\ backup = NoBackup /\ restore = NoRestore
    /\ calls = [stop |-> 0, backup |-> 0, restore |-> 0]
    /\ met = FALSE

-----------------------------------------------------------------------------
(* Containers *)

Goes(c, pc) == con' = [con EXCEPT ![c] = [Down EXCEPT !.pc = pc]]

Up == {c \in Containers : con[c].pc # "down"}

(* A pool opens its connections with the first request and keeps them. *)
Connected == \/ \E c \in Containers : con[c].pc \in {"migrating", "seeding", "filling", "serving"}
             \/ backup.pc = "dumping"

Loading == restore.pc \in {"creating", "making", "stamping", "copying", "keying"}

(* restore.sh has not brought this database to its end. *)
Torso == Loading \/ (db.tables /\ ~db.keyed)

(* alembic opens its transaction and reads the revision. *)
MigrateBegins(c) ==
    /\ con[c].pc = "down"
    /\ db.exists
    /\ con' = [con EXCEPT ![c] = [pc |-> "migrating", saw |-> db.version]]
    /\ met' = (met \/ Torso)
    /\ UNCHANGED <<db, dump, backup, restore, calls>>

(* The tables are there with one revision, and no other alembic was        *)
(* faster.                                                                 *)
Migratable(c) == /\ con[c].saw = db.version /\ db.version # Both
                 /\ db.version = 0 => ~db.tables
                 /\ db.version < Head => db.keyed = db.tables

(* Mutant: a revision is applied whatever the database has. *)
MigratesAgain(c) ==
    /\ con[c].pc = "migrating"
    /\ Migratable(c)
    /\ db' = [db EXCEPT !.tables = TRUE, !.keyed = TRUE, !.version = @ + 1]
    /\ Goes(c, "migrated")
    /\ UNCHANGED <<dump, backup, restore, calls, met>>

(* All the revisions are one transaction. *)
Migrates(c) ==
    /\ con[c].pc = "migrating"
    /\ Migratable(c)
    /\ db' = IF db.version = Head THEN db
             ELSE [db EXCEPT !.tables = TRUE, !.keyed = TRUE, !.version = Head]
    /\ Goes(c, "migrated")
    /\ UNCHANGED <<dump, backup, restore, calls, met>>

(* What follows the seed: the API, or the end of a container that has done *)
(* its work.                                                               *)
AfterSeed(c) == IF c \in Apis THEN "ready" ELSE "down"

(* Mutant: seed.py does not look for a role. *)
SeedLoadsBlind(c) ==
    /\ con[c].pc = "migrated"
    /\ db.tables
    /\ Goes(c, "seeding")
    /\ UNCHANGED <<db, dump, backup, restore, calls, met>>

(* seed.py finds a role and does nothing, or goes on in its transaction. *)
SeedLoads(c) ==
    /\ con[c].pc = "migrated"
    /\ db.tables
    /\ Goes(c, IF db.demos > 0 THEN AfterSeed(c) ELSE "seeding")
    /\ UNCHANGED <<db, dump, backup, restore, calls, met>>

(* Mutant: the names of the roles are not unique. *)
SeedableAgain == TRUE

(* The unique names of the roles refuse those of another seed. *)
Seedable == db.keyed => db.demos = 0

(* The roles are flushed, and wait for those of another open transaction. *)
SeedRoles(c) ==
    /\ con[c].pc = "seeding"
    /\ Seedable
    /\ db.keyed => \A d \in Containers : con[d].pc # "filling"
    /\ Goes(c, "filling")
    /\ UNCHANGED <<db, dump, backup, restore, calls, met>>

(* The administrators, students, images, machines, reservations and their  *)
(* history are flushed; one commit ends the transaction.                   *)
SeedFills(c) ==
    /\ con[c].pc = "filling"
    /\ db' = [db EXCEPT !.demos = @ + 1]
    /\ Goes(c, AfterSeed(c))
    /\ UNCHANGED <<dump, backup, restore, calls, met>>

(* The API answers its first request, and keeps the connection. *)
Serves(c) ==
    /\ con[c].pc = "ready"
    /\ db.exists
    /\ Goes(c, "serving")
    /\ UNCHANGED <<db, dump, backup, restore, calls, met>>

(* Mutant: docker-entrypoint.sh without set -e. *)
FailsOn(c) ==
    /\ con[c].pc = "migrating" /\ ~Migratable(c)
    /\ Goes(c, "migrated")
    /\ UNCHANGED <<db, dump, backup, restore, calls, met>>

(* A step cannot succeed any more and set -e ends the script; its          *)
(* transaction is rolled back.                                             *)
Fails(c) ==
    /\ \/ con[c].pc = "migrating" /\ ~Migratable(c)
       \/ con[c].pc = "migrated" /\ ~db.tables
       \/ con[c].pc = "seeding" /\ ~Seedable
    /\ Goes(c, "down")
    /\ UNCHANGED <<db, dump, backup, restore, calls, met>>

(* The service migrations ends before the seed. *)
MigrationsEnd(c) ==
    /\ c \in Seeders /\ con[c].pc = "migrated"
    /\ Goes(c, "down")
    /\ UNCHANGED <<db, dump, backup, restore, calls, met>>

(* The container is stopped, for a new release for instance, or crashes. *)
Stops(c) ==
    /\ con[c].pc # "down"
    /\ calls.stop < MaxStops
    /\ Goes(c, "down")
    /\ calls' = [calls EXCEPT !.stop = @ + 1]
    /\ UNCHANGED <<db, dump, backup, restore, met>>

-----------------------------------------------------------------------------
(* backup.sh *)

Writes(d, r) == dump' = [dump EXCEPT ![d] = r]

Backs(pc) == backup' = [backup EXCEPT !.pc = pc]

(* pg_dump sees one snapshot of the database. *)
BackupStarts(d, zip) ==
    /\ backup = NoBackup
    /\ calls.backup < MaxBackups
    /\ db.exists
    /\ dump[d] = NoDump /\ d # restore.of
    /\ Writes(d, [NoDump EXCEPT !.sql = "partial", !.holds = db])
    /\ backup' = [pc |-> "dumping", of |-> d, zip |-> zip]
    /\ calls' = [calls EXCEPT !.backup = @ + 1]
    /\ UNCHANGED <<db, con, restore, met>>

BackupDumps ==
    /\ backup.pc = "dumping"
    /\ Writes(backup.of, [dump[backup.of] EXCEPT !.sql = "whole"])
    /\ Backs("dumped")
    /\ UNCHANGED <<db, con, restore, calls, met>>

(* gzip -f writes the .gz and then removes the .sql. *)
BackupZips ==
    /\ backup.pc = "dumped" /\ backup.zip
    /\ Writes(backup.of, [dump[backup.of] EXCEPT !.gz = "partial"])
    /\ Backs("zipping")
    /\ UNCHANGED <<db, con, restore, calls, met>>

BackupZipped ==
    /\ backup.pc = "zipping"
    /\ dump[backup.of].sql = "whole"
    /\ Writes(backup.of, [dump[backup.of] EXCEPT !.gz = "whole", !.sql = "none"])
    /\ Backs("zipped")
    /\ UNCHANGED <<db, con, restore, calls, met>>

(* sha256sum, of the file there is now. *)
BackupSums ==
    /\ \/ backup.pc = "zipped"
       \/ backup.pc = "dumped" /\ ~backup.zip
    /\ Writes(backup.of, [dump[backup.of] EXCEPT !.sum = IF backup.zip THEN "gz" ELSE "sql"])
    /\ Backs("summed")
    /\ UNCHANGED <<db, con, restore, calls, met>>

(* Mutant: the last day of the retention is purged as well. *)
OldToday(d) == dump[d].age >= Retention

Old(d) == dump[d].age > Retention

(* find -mtime -delete comes last, after everything that can fail. *)
BackupPurges ==
    /\ backup.pc = "summed"
    /\ dump' = [d \in Dumps |-> IF Old(d) THEN Purged ELSE dump[d]]
    /\ backup' = NoBackup
    /\ UNCHANGED <<db, con, restore, calls, met>>

BackupFails ==
    /\ backup # NoBackup
    /\ backup' = NoBackup
    /\ UNCHANGED <<db, con, dump, restore, calls, met>>

-----------------------------------------------------------------------------
(* restore.sh *)

Restores(pc) == restore' = [restore EXCEPT !.pc = pc]

Content(d, zip) == IF zip THEN dump[d].gz ELSE dump[d].sql

(* Mutant: an invalid sum is a warning. *)
RestoreWarns(d, zip, whole) ==
    /\ restore = NoRestore
    /\ calls.restore < MaxRestores
    /\ Content(d, zip) # "none"
    /\ whole => Content(d, zip) = "whole"
    /\ restore' = [pc |-> IF zip THEN "unzipping" ELSE "dropping", of |-> d, zip |-> zip,
                   checked |-> dump[d].sum = IF zip THEN "gz" ELSE "sql",
                   whole |-> whole, holds |-> dump[d].holds]
    /\ calls' = [calls EXCEPT !.restore = @ + 1]
    /\ dump' = IF zip THEN [dump EXCEPT ![d].sql = "partial"] ELSE dump
    /\ UNCHANGED <<db, con, backup, met>>

(* The sum that belongs to the file, if it has one, and the confirmation.  *)
(* A complete file may have been damaged since.  gunzip -kf begins a new   *)
(* .sql over an old one.                                                   *)
RestoreChecks(d, zip, whole) ==
    /\ restore = NoRestore
    /\ calls.restore < MaxRestores
    /\ Content(d, zip) # "none"
    /\ whole => Content(d, zip) = "whole"
    /\ LET checked == dump[d].sum = IF zip THEN "gz" ELSE "sql"
       IN  /\ checked => whole
           /\ restore' = [pc |-> IF zip THEN "unzipping" ELSE "dropping", of |-> d,
                          zip |-> zip, checked |-> checked, whole |-> whole,
                          holds |-> dump[d].holds]
    /\ calls' = [calls EXCEPT !.restore = @ + 1]
    /\ dump' = IF zip THEN [dump EXCEPT ![d].sql = "partial"] ELSE dump
    /\ UNCHANGED <<db, con, backup, met>>

(* gunzip verifies what it reads. *)
RestoreUnzips ==
    /\ restore.pc = "unzipping"
    /\ restore.whole /\ dump[restore.of].gz = "whole"
    /\ Writes(restore.of, [dump[restore.of] EXCEPT !.sql = "whole"])
    /\ Restores("dropping")
    /\ UNCHANGED <<db, con, backup, calls, met>>

RestoreDrops ==
    /\ restore.pc = "dropping"
    /\ ~Connected
    /\ db' = Missing
    /\ met' = (met \/ Up # {})
    /\ Restores("creating")
    /\ UNCHANGED <<con, dump, backup, calls>>

(* CREATE DATABASE, and psql opens the file. *)
RestoreCreates ==
    /\ restore.pc = "creating"
    /\ db' = Empty
    /\ dump[restore.of].sql # "none"
    /\ Restores("making")
    /\ UNCHANGED <<con, dump, backup, calls, met>>

(* A part of the file that psql runs: it has its effect, or it fails where *)
(* the file is damaged, and psql goes on.                                  *)
Runs(from, to, effect) ==
    /\ restore.pc = from
    /\ db' = effect \/ (~restore.whole /\ db' = db)
    /\ Restores(to)
    /\ UNCHANGED <<con, dump, backup, calls, met>>

(* CREATE TABLE, of the tables that are not there. *)
RestoreMakes ==
    Runs("making", "stamping", [db EXCEPT !.tables = @ \/ restore.holds.tables])

(* COPY alembic_version: a row for another revision stays beside it. *)
RestoreStamps ==
    Runs("stamping", "copying",
         IF ~db.tables \/ restore.holds.version \in {0, db.version} THEN db
         ELSE [db EXCEPT !.version = IF @ = 0 THEN restore.holds.version ELSE Both])

(* COPY of the other tables; keys that are there may refuse the rows. *)
RestoreCopies ==
    \E copied \in IF db.tables /\ ~db.keyed THEN {TRUE} ELSE {db.tables, FALSE} :
        Runs("copying", "keying",
             IF copied THEN [db EXCEPT !.demos = @ + restore.holds.demos] ELSE db)

(* The success is reported, and the decompressed file goes. *)
RestoreReports ==
    /\ restore' = NoRestore
    /\ dump' = IF restore.zip THEN [dump EXCEPT ![restore.of].sql = "none"] ELSE dump

(* ALTER TABLE waits for whoever reads, and fails where roles are double. *)
RestoreKeys ==
    /\ restore.pc = "keying"
    /\ ~(backup.pc = "dumping" \/ \E c \in Containers : con[c].pc \in {"seeding", "filling"})
    /\ \/ db' = IF db.tables /\ restore.holds.keyed /\ db.demos < 2
                THEN [db EXCEPT !.keyed = TRUE] ELSE db
       \/ ~restore.whole /\ db' = db
    /\ RestoreReports
    /\ UNCHANGED <<con, backup, calls, met>>

(* A refused drop, a file that is gone or cannot be decompressed, a kill. *)
RestoreFails ==
    /\ restore # NoRestore
    /\ restore' = NoRestore
    /\ UNCHANGED <<db, con, dump, backup, calls, met>>

-----------------------------------------------------------------------------
(* A day passes.  A backup ends on the day on which it began, and the age  *)
(* of a file matters to later backups only.                                *)
Day ==
    /\ backup = NoBackup /\ calls.backup < MaxBackups
    /\ dump' = [d \in Dumps |-> IF dump[d] = NoDump \/ Old(d) THEN dump[d]
                                ELSE [dump[d] EXCEPT !.age = @ + 1]]
    /\ UNCHANGED <<db, con, backup, restore, calls, met>>

Next ==
    \/ \E c \in Containers : \/ MigrateBegins(c) \/ Migrates(c) \/ SeedLoads(c)
                             \/ SeedRoles(c) \/ SeedFills(c) \/ Serves(c)
                             \/ Fails(c) \/ MigrationsEnd(c) \/ Stops(c)
    \/ \E d \in Dumps, zip \in BOOLEAN :
         BackupStarts(d, zip) \/ \E whole \in BOOLEAN : RestoreChecks(d, zip, whole)
    \/ BackupDumps \/ BackupZips \/ BackupZipped \/ BackupSums \/ BackupPurges
    \/ BackupFails
    \/ RestoreUnzips \/ RestoreDrops \/ RestoreCreates \/ RestoreMakes \/ RestoreStamps
    \/ RestoreCopies \/ RestoreKeys \/ RestoreFails
    \/ Day

Spec == Init /\ [][Next]_vars

(* Docker starts the API again whenever it ended, each script goes on to   *)
(* its end, and after the last stop nothing is stopped any more.           *)
GoesOn(c) == \/ Migrates(c) \/ SeedLoads(c) \/ SeedRoles(c) \/ SeedFills(c)
             \/ Fails(c) \/ MigrationsEnd(c)

Fairness == /\ \A c \in Apis : WF_vars(MigrateBegins(c) \/ GoesOn(c))
            /\ \A c \in Seeders : WF_vars(GoesOn(c))

FairSpec == Spec /\ Fairness

-----------------------------------------------------------------------------
(* A complete dump is kept at any time, however old it grows, however many *)
(* later backups are killed half-way, and although a restoration writes    *)
(* beside a dump that a backup may still be compressing or purging.        *)
DumpIsKept == \E d \in Dumps : "whole" \in {dump[d].sql, dump[d].gz}

(* "Restauration réussie" is true when the file had a sum and no container *)
(* ran meanwhile: the database is what was dumped, no more and no less.    *)
ReportedIsRestored ==
    [][RestoreKeys /\ restore.checked /\ ~met => db' = restore.holds]_vars

(* Unless it met a half-restored database, demonstration data is inserted  *)
(* at most once, by whichever of the containers that seed at once.         *)
SeededOnce == ~met => db.demos <= 1

(* What serves runs on the newest schema with its keys, although several   *)
(* containers migrate at once and the database may have been dropped and   *)
(* restored from an older revision before.                                 *)
ServedIsMigrated ==
    ~met => \A c \in Containers : con[c].pc \in {"ready", "serving"}
                                     => db.exists /\ db.keyed /\ db.version = Head

Sound == ~Loading /\ db.exists /\ (db.tables => db.keyed /\ db.version \in 1..Head)

(* Unless a restoration left the database in pieces, the API comes up for  *)
(* good, although another container's migration or seed may end its own    *)
(* with an error, and it finds the data of an earlier seed.                *)
ApisServe == <>[]Sound => \A c \in Apis : <>[](con[c].pc \in {"ready", "serving"})
=============================================================================
