# Horizon backend: models and proofs

Horizon lends virtual machines to users for a limited time. The program is one
FastAPI process (`horizon/`, one uvicorn worker) over one PostgreSQL database,
with an optional Proxmox cluster that holds the real machines
(`PROXMOX_ENABLED`, off by default). This directory holds TLA+ models of it,
the TLC configurations that check them, and theorems checked by TLAPS.

Contents: [the system](#the-system) · [modules](#modules) ·
[conventions](#conventions-of-the-models) · [runs](#runs) ·
[fairness](#fairness) · [proofs](#proofs) · [what the code does against its
words](#what-the-code-does-against-its-words) · [not modelled](#not-modelled) ·
[plan](#plan)

## The system

Three kinds of activity run at once in the process and share only the database
and the cluster:

- **`async def` routes** (create, stop, delete, refresh of a machine; upload and
  preparation of images) are coroutines of one event loop. They run to the next
  `await` undisturbed by one another, and await the cluster for minutes.
- **`def` routes** (everything else) run in a thread pool, each with a session.
- **Scheduler jobs** (`infrastructure/scheduler.py`) run in threads of the same
  process: they load a batch of rows, work, and commit once.

Sessions are READ COMMITTED without automatic flush. No row is ever locked for
a read, so nearly every operation is "load, decide, write", and what it decided
on may have changed when it writes. An UPDATE writes only the columns that
differ from what was loaded, and the UPDATE of a row that is gone raises
`StaleDataError`, which rolls the whole transaction back.

Around the process, containers migrate and seed the database before they serve
it (`scripts/docker-entrypoint.sh`, `docker-compose.yml`), and two shell scripts
dump it (`backup.sh`) and replace it (`restore.sh`).

| Component | State | Operations | Talks to | Hard because |
| --- | --- | --- | --- | --- |
| provisioning (`vms/service.py`) | rows of `virtual_machines` | create, stop, delete | cluster tasks, jobs | minutes between a check and its commit; timeouts with the task going on; numbers that come back; restarts |
| leases (`vms/service.py`, `vms/router.py`) | lease, reservations, SSH key | extend, download key | expiry job | extensions, expiry and stops overlap |
| quotas (`vms/quota_service.py`, `policies/enforcer.py`) | policies, overrides, sizes | effective quota, enforce, resize, override | accounts, administrators | the limit moves between check and write |
| placement (`admin/service.py`, `vms/service.py`) | node mappings, images, template numbers | map, upload, prepare, name a template, select a node | cluster | one number space for templates and machines; two ways to resolve a node |
| accounts (`accounts/service.py`) | requests, users | submit, approve, reject, create | e-mail | two administrators; unique names; an e-mail with the only copy of a password |
| credentials (`auth/service.py`) | counter, lock, password, flags | login, change, reset, suspend, reactivate | e-mail alert | a slow hash between load and write |
| inactive accounts (`scheduler.py`) | users | warn, suspend, delete | logins, administrators | one batch, one commit, rows that refuse to go |
| scheduler | jobs | six jobs | all of the above | stale batches; all-or-nothing commits |
| Proxmox client | none | clone, start, stop, destroy, wait, upload | cluster | deadlines shorter than tasks |
| deployment (`docker-entrypoint.sh`, migrations, `seed.py`, `backup.sh`, `restore.sh`) | the database as a whole, dump files | start, migrate, seed, serve, back up, purge, restore | PostgreSQL, Docker | containers that start at once; scripts killed between steps; a container restarted into a half-restored database |
| e-mail, audit, tokens, HTTP, ad-hoc scripts | little or none | | | see [not modelled](#not-modelled) |

What makes each correct: a number names one machine and a row is never separated
from its machine; no user exceeds a quota; a session lasts no longer than
allowed and does end; nobody is told what is not so; a lock is earned and an
alert not missed; an account goes only after its suspension; Horizon looks for a
machine where it is; a complete dump is always there, and what is served is the
database it should be.

`PROJECT.json` lists every component, every hazard with its line, and the lines
each definition translates.

## Modules

| Module | Models | Proofs | Runs |
| --- | --- | --- | --- |
| `Provisioning` | create_vm, stop_vm and delete_vm await by await, cluster tasks that end late or fail, machines lost out of band, the expiry, monitor and removal jobs, restarts | `Provisioning_proofs` | `provisioning_proxmox`, `loop_blocks`, `destroys_another` |
| `VMLifecycle` | the abstract life of a row: born once, settles, goes, never comes back | | a property of `provisioning_proxmox` and `lease` |
| `Lease` | extensions, reservations, key downloads and expiry under a clock | `Lease_proofs` | `lease` |
| `Accounts` | requests, decisions, direct creation, usernames, the e-mails of the decisions | `Accounts_proofs` | `accounts` |
| `Directory` | requests and users as if each handler were one step | | a property of `accounts` |
| `Credentials` | one account: logins, lock, password changes and resets, suspension | `Credentials_proofs` | `credentials` |
| `InactiveAccounts` | the daily job with logins and administrators | `InactiveAccounts_proofs` | `inactive`, `inactive_blocked`, `login_ignored` |
| `Quotas` | overrides, policies, effective quotas, creations and resizes | `Quotas_proofs` | `quotas` |
| `Placement` | mappings, images, templates, node selection, where the monitor looks | `Placement_proofs` | `placement` |
| `Deployment` | containers that migrate, seed and serve one database; backup.sh and restore.sh step by step | `Deployment_proofs` | `deployment` |

`MC*.tla` extend these for TLC (`Deployment` needs no definitions of its own).
`Provisioning`, `Lease`, `Quotas` and `Placement` are four details of the same
rows, and each implements `VMLifecycle` through a refinement mapping: the first
two by `row` (the one with the cluster and without time, the other with time and
without the cluster), the others by `Seen` of their proof modules. `Accounts`
implements `Directory`, in which a handler is one step; its variables are among
those of `Accounts`, so the mapping is the identity. Inside a module, an operator marked "Mutant" is a plausible
bug of the definition that follows it; each property is violated when its mutant
takes that definition's place.

### State and code

- **Provisioning.** `status` and `vmid` are the committed row. `create[v]`
  is the program counter of the coroutine of one creation request, `op[h]` that
  of a stop or delete with the row it loaded (`vm`) and the machine the cluster
  acts on (`mach`). `machine` is the cluster's view, with the task that holds a
  machine. `batch` holds what a job has loaded. The cluster knows machines by
  number: `Holder(n)` is whatever machine has number `n` now, which need not be
  the row's own. A creation whose flush meets an uncommitted key is `flushing`:
  it waits in the event loop's own thread, and `LoopFree` guards every step of
  every coroutine.
- **Lease.** `end` is `lease_end`, `slots` the reservations, `call` an extension,
  download or stop between load and commit, `batch` what task_expire_vms loaded.
  `CloneTime` separates the lease's start from the row's commit.
- **Accounts.** Usernames of one base are numbers. `made` and `told` are
  histories: accounts made from a request, news sent. `call` is a request between
  its load, its commit and its e-mail.
- **Credentials.** `count`, `until`, `password`, `must`, `active` are the user
  row; `call` holds what a request loaded, and a commit writes only what differs
  from that. `alerted` and `wrong` are histories.
- **InactiveAccounts.** `job` holds the batches of one run, `login` the logins
  in flight, `owns` the users with rows that block a deletion (a machine or an
  override: `db.delete(user)` makes the ORM write NULL in a NOT NULL column).
- **Quotas.** `base` is the policy a user has, or the defaults, `override` and
  `granted` are the override rows, `creating` the one creation between its check
  and its commit, `call` the grants and resizes in flight; `peak` is a history,
  the most a user was ever allowed. Creations are those without Proxmox, which are
  serial.
- **Placement.** `mapping`, `iso`, `template` are the administrators' tables,
  `node` and `kind` the cluster by number, `todo` and `gone` the monitor's run;
  `moved` is a history, the rows under which a node's meaning was changed. A row is
  `PENDING` while its creation is open and `failed` when that was rolled back.

- **Deployment.** `db` is what matters of the database: whether it, its tables
  and their keys are there, the revision in `alembic_version`, and how many
  demonstration datasets. `con[c].pc` is where the entrypoint of a container is,
  with the revision its alembic read (`saw`). `dump[d]` is one backup: its `.sql`
  and `.gz`, which of them the sum is of, its age, and the database it is of.
  `backup` and `restore` are the two scripts; `restore.whole` says whether the
  file is undamaged. psql runs the dump in four parts, as pg_dump writes it:
  tables, `alembic_version`, the other rows, keys. `met` is a history: some
  container met a database in restoration, or one a restoration left in pieces.

## Conventions of the models

- A request that the code refuses changes nothing and is no step.
- A coroutine is atomic between two awaits; a threaded request is two steps, load
  and commit; a job loads and commits. Reads within one step see one database
  state.
- A restart is always possible (docker-compose restarts the service): open
  transactions are lost, the cluster's tasks go on. It is an action of each model
  (in `Placement`, the joint failures of what is open).
- History variables (named above) are read by properties and by no action's guard.
- Unique keys and foreign keys are those of the migrations.
- In `Deployment` a damaged file is chosen when it is read: then any part of it
  may fail. psql has no ON_ERROR_STOP, so the next part runs all the same. A new
  installation is what a restoration leaves that is killed before it loads.
- Of sizes (vcpu, ram, storage) one stands for all three: the code treats them
  alike. Addresses, wording and logs are left out.
- A personal name carries no digit, so that a username is a base and a number:
  `_generate_username` keeps digits, and the base "dup1" would meet the first
  homonym of "dup". Uniqueness does not depend on it, the bound of `UsernamesFit`
  does.
- In `Provisioning` the node and the template are always found (`Placement` has
  the rest), and nobody starts a machine outside Horizon. The quotas are constant
  in `Provisioning` and `Lease` (`Quotas` moves them). `Provisioning` has
  `PROXMOX_ENABLED=true`. `Quotas` has it false: create_vm does not await, so one
  creation at a time is between its check and its commit.
- `force=True` of stop_vm never happens: the only route that passes it does not
  await the coroutine.
- The monitor takes any error whose text holds "404" for a vanished machine.
  Numbers whose digits contain 404 are excluded: with machine 404, a connection
  error names it and the running machine is marked STOPPED, against
  `StoppedIsOff`.
- `Credentials` has one account, since no operation on an account reads another.

## Runs

| Run | Instance | Checks | States |
| --- | --- | --- | --- |
| `provisioning_proxmox` | 2 requests of 2 users, 1 handler, 3 jobs, cluster, losses, fair | types, `RowOwnsMachine`, `StoppedIsOff`, `DeleteDestroys`, refinement, `CallsReturn`, `VanishedIsNoticed` | 74 thousand |
| `lease` | 2 machines (quotas of 2 and 1 hours), 2 threads, clock to 3, fair | types, `LeaseWithinQuota`, `LeaseIsReserved`, `KeyIsCleared`, refinement, `SessionsEnd` | 246 thousand |
| `accounts` | 2 people of one name, 2 threads | types, `UsernamesFit`, `NewsIsTrue`, refinement of `Directory` | 37 thousand |
| `credentials` | lock at 2 failures, alert at 3, up to 5; 2 threads | types, `AlertIsNotMissed`, `LockIsEarned`, `LiftedWhenSeen` | 457 thousand |
| `inactive` | 2 users, suspension after 2 days, deletion 1 later, 4 days, fair | types, `RemovedWasSuspended`, `UnusedKept`, `IdleIsSuspended` | 92 thousand |
| `quotas` | a user with 2 machines, an administrator with 1, grants and policies up, down and above the ceiling | types, `WithinLimits`, `CountWithinPeak`, `GrantsKeepOthers` | 375 thousand |
| `placement` | 2 creations, 2 physical nodes, 2 cluster nodes, 1 image, 3 numbers | types, `RowFound`, `StoppedIsOff`, `TemplatesKept` | 633 thousand |
| `deployment` | an API container, a seeding one, 2 dumps, a stop, a backup and a restoration, fair | types, `DumpIsKept`, `SeededOnce`, `ServedIsMigrated`, `ReportedIsRestored`, `ApisServe` | 755 thousand |
| `loop_blocks`, `destroys_another`, `inactive_blocked`, `login_ignored` | as above | one property each, violated: [see below](#what-the-code-does-against-its-words) | |

**Why the bounds are enough.** Each conflict the models have is between two
actors on one row or one number, with at most a third that changes it
underneath; two requests and the jobs hold all of them, and three requests are
used where two must first free or pass a number for the third. Two users tell
"one's own" from "another's". Clocks run long enough for a lease to be extended to
its quota and to end, for a lock to lapse and be earned again, for a suspension
and a deletion. Every bound is a constant of a configuration; the theorems have
none of them. `provisioning_proxmox` has one handler
of stops and deletions beside the creations and the jobs: `destroys_another` has
two, and the theorems any number. In `deployment`,
one backup and one restoration overlap at every step with two containers that
start again and again (only stops from outside are bounded); a retention of 0
days makes a day enough for a dump to grow old.

## Fairness

- *Provisioning* (`FairSpec`). Weak fairness of each coroutine's next step and of
  the monitor's load and commit: the loop runs what is ready, wait_for_task has
  a deadline, APScheduler fires the interval job again and again. Strong fairness
  of `MonitorSees`: the cluster does not refuse the polls for ever, and some run
  meets no row removed under it. Nothing is assumed of cluster tasks.
- *Lease*. Weak fairness of the clock and of the job's load; strong fairness of
  its commit, since restarts and removed rows roll single runs back and not all
  of them.
- *InactiveAccounts*. Weak fairness of the job's start and failure and strong of
  its later steps: the daily job runs to its end again and again, so the process
  must not be restarted every day before it (an interval job in memory starts
  its interval anew). Weak fairness of `LosesRow`: users' machines and overrides
  do go in the end. `inactive_blocked` starts from an override, which no route
  removes.

- *Deployment*. Weak fairness of every step of a container that can go on, and of
  the start of an API container: docker-compose says `restart: unless-stopped`,
  and Docker tries for ever. `ApisServe` holds under the condition that the
  database ends whole. Stops from outside are finitely many (`MaxStops`). Nothing
  is assumed of the two shell scripts.

The other runs assume no fairness, and no safety property depends on it.

## Proofs

Every theorem holds for all values of the constants under the named assumptions
of its module: finiteness and types of the parameters (`VMsAssumption`,
`QuotasAssumption`, `PlacementAssumption`, ...), that is, no more than that
users own machines and limits are numbers.

| Module | Theorem | Says |
| --- | --- | --- |
| `Provisioning_proofs` | `TypeCorrect`, `Ownership`, `StoppedMachines`, `DeletedMachines` | the run's invariants |
| | `OverlapBound` | with at most k creations of a user open at a time, at most k - 1 machines above the quota |
| | `Deadlock`, `OneAtATime` | how far `loop_blocks` and `destroys_another` go (below) |
| | `Refinement` | Provisioning implements VMLifecycle |
| `Lease_proofs` | `TypeCorrect`, `SessionsBounded`, `Reserved`, `KeysAreCleared`, `Refinement` | sessions within quota and wholly reserved; a key is found by no request that comes after an answer with it; Lease implements VMLifecycle |
| `Accounts_proofs` | `TypeCorrect`, `Usernames`, `OneAccount`, `TrueNews`, `Refinement` | unique names, one account per request, credentials only for someone who has an account; Accounts implements Directory |
| `Credentials_proofs` | `TypeCorrect`, `Alerted`, `Earned`, `Lifted` | the alert is never jumped over; no lock comes before its failures; a suspension, a lock or a duty that came while a request was served is not lifted by it |
| `InactiveAccounts_proofs` | `TypeCorrect`, `Owners`, `Removals`, `Unused`, `Missed` | rows keep their users; a removal follows a committed suspension; who never came is left alone; of the logins the job ignores only those since its run began (the extent of `login_ignored`) |
| `Quotas_proofs` | `TypeCorrect`, `SizeBound`, `CountBound`, `GrantsStay`, `Refinement` | machines within ceiling and what was allowed; a limit changes only to what the grant being committed names for it; Quotas implements VMLifecycle |
| `Placement_proofs` | `TypeCorrect`, `Located`, `Halted`, `Uploaded`, `Templates`, `Refinement` | machines are where Horizon looks; uploads are stored; templates survive; Placement implements VMLifecycle |
| `Deployment_proofs` | `TypeCorrect`, `Kept`, `Seeded`, `Served`, `Restored` | a complete dump is kept; one seed; the newest schema; what is reported as restored is what was dumped |

The shape is the same everywhere: an inductive invariant, one lemma or step per
action, a temporal step by PTL. The strengthenings, and why they are needed:

- *Provisioning*, `IInv`. That a row owns its machine is not inductive: it must
  be known that an open creation's number is used by no row and no other machine
  (`TakenNumbers`, `UniqueHolder`), that a machine exists only behind a creation
  in a matching state (`Traces`), and what each handler may assume of the machine
  it awaits although its row may be gone (`OpsHold`). For `OverlapBound`: every step
  but an admission leaves the machines of a user, used or being made, a subset of
  what they were (`FewerInUse`), and an admission sees fewer than the quota in use.
  For `Deadlock`: a blocked flush is one, and its blocker stays open
  (`BlockedByOpen`). For `OneAtATime`: the row of a request in flight stays
  (`HeldRows`).
- *Lease*, `LInv`. The end of a lease is the end of some reservation
  (`EndIsSlot`), reservations reach from the start to each of their ends without
  a gap (`SlotsCover`), and an extension in flight carries an end that was one
  (`ExtendsFromSlot`) and stays within the quota (`ExtendsBounded`): so a commit
  that overwrites a later end still leaves a covered lease. Once a key was delivered the
  row has none (`KeysKept`).
- *Accounts*, `AInv`. A username a call has loaded and the rows that took it
  meanwhile are related by `NumbersLoaded` and `ApprovalsClash`: the slower of
  two approvals of one request inserts the same e-mail and is refused. For the
  refinement, a decision in flight has a request behind it (`Decided`).
- *Credentials*, `CInv`. `WrongsHold`: the counter a request loaded is never above
  the number of wrong passwords there have been, and if it is at the alert the alert
  was sent. `Lifted` needs no more than that a commit
  writes what differs from what was loaded (`EndsLifts`).
- *InactiveAccounts*, `AInv`. What the batch holds was idle when the run began or
  has logged in since (`BatchIdle`, `Stamped`), which is all of `Missed`.
- *Quotas*, `QInv`. What a creation, resize or grant in flight has checked is
  below the history (`CreationAllowed`, `UpdatesAllowed`), which only grows and
  covers what holds now (`PeakCovers`).
- *Placement*, `IInv`. Numbers of live rows differ (`Apart`), each has a machine
  of its own kind on the node its physical node stood for (`Found`), and the
  monitor takes only a row whose node moved for gone (`Monitored`).

- *Deployment*. Two independent invariants. `DumpInv`: that some dump is whole is
  not inductive, since a restoration writes beside dumps and a purge removes
  them; that some dump is *complete* (the file its sum is of is whole, and nothing
  can be unzipped over it) is, with the fact that a backup reaches its purge only
  with a complete dump of the same day (`BackupInv`). `DbInv`: as long as `met` is
  false, whoever runs has the database to itself (`RunInv`), the loading database
  agrees part by part with the dump (`LoadInv`), and dumps hold databases that
  could be (`HoldsInv`).

**Model-checked only.** The liveness properties (`CallsReturn`,
`VanishedIsNoticed`, `SessionsEnd`, `IdleIsSuspended`, `ApisServe`), which are out
of the prover's reach. **Proved only.** These are defined in the proof modules and
no run of the project states them; TLC found each true of a small instance:
`OwnersStay` (a machine's or override's user is never removed), `OnlyTheRunIsMissed`,
`UploadedIsStored` (an image known to Horizon is on the storage), `RequestMakesOne`
(it follows from `DirectorySpec`), `Bounded`, `BlockedByOpen`, `OnlyRestartFrees`,
and that `Quotas` and `Placement` implement `VMLifecycle`.

## What the code does against its words

Four runs end in a counterexample on purpose.

- `loop_blocks`. Two creations read the same maximum; the flush of the second
  waits, in the event loop's only thread, for the unique key of the first, which
  only the loop could finish (`vms/service.py:141`). The waits of the client were
  written "pour ne pas bloquer" (`proxmox_client.py:106`). `Deadlock` proves that
  nothing else blocks the loop, so creations that do not overlap never do, and that
  no end of a task, no deadline and no job frees it, only a restart.
- `destroys_another`. delete_vm stops a machine, awaits, and destroys by the
  number it loaded before; the row may have been removed and the number given to
  a new creation (`vms/service.py:264`). `OneAtATime` proves that this needs a second
  stop or delete, or task_delete_old_vms: otherwise the row stays and keeps the
  number.
- `inactive_blocked`. One account with an override cannot be deleted, and rolls
  back the suspension of all the others every day (`scheduler.py:225`).

- `login_ignored`. The daily job suspends from a batch that it loaded before its
  e-mails; a login in between does not keep the account (`scheduler.py:196`),
  although the warning says "si aucune connexion n'est détectée"
  (`email_service.py:138`). `Missed` proves that no older login is ignored.

**Other texts the code departs from.** No run is made of these; the properties
that pass are stated so that they say nothing of them, and `hazards` lists those
that come from overlaps or stale values.

| A text says | The code |
| --- | --- |
| the key is to be had once (`router.py:113`, `:143`, `vms/service.py:138`) | two downloads that overlap both carry it; `KeyIsCleared` speaks of those that come after |
| a temporary password must be changed (`enforcer.py:59-65`, `email_service.py:87`) | a reset loaded while the duty holds does not write it again, and a change that commits in between clears it: the temporary password stays, without a duty |
| the request could not be approved (`email_service.py:120`) | a rejection that overlaps an approval sends this e-mail, and the request may stand approved |
| one may submit a new request after a rejection (`email_service.py:124`) | it is refused with 409, since the old one has the address (`accounts/service.py:31-37`); `Directory` submits from "none" and from "REJECTED", the code uses only the first |
| the ceiling on session hours is absolute (`enforcer.py:132`) | an extension is checked against the quota alone, which an override may put above the ceiling |
| data is kept for a limited time after a suspension (`email_service.py:155`, `DELETION_AFTER_SUSPENSION_DAYS` of `config.py:47`) | no date of the suspension is kept: an account idle for both delays that is suspended on one day is deleted by the next run |
| `HARD_LIMIT_SIMULTANEOUS_VMS` (`config.py:68`) | nothing enforces it |
| `PROXMOX_VLAN_ISOLATION` (`vms/service.py:52-58`) | the VLAN is read at `:105`, awaits follow and the commit is at `:192`: overlapping creations may give one owner two VLANs, or two owners one |
| "Restauration réussie" (`restore.sh:113`) | printed although statements of the dump failed, since psql goes on after errors, as below |

**What no text forbids.** With Proxmox, overlapping creations of one user pass a
limit of one (`OverlapBound` says by how many); rows removed after seven days
leave their machines on the cluster; of two overlapping extensions the later
commit may shorten the lease; a row expires although it was extended between the
job's query and commit; of two decisions on a request the second may reverse the
first; a lost e-mail loses the only copy of a password; a lost update delays a
lock; of two first grants for a user the second ends in an error and is lost, and
of two that name one limit the last stands; an account that was reactivated after
the job's query is deleted by its commit; a mapping patched under running
machines cuts them off and the monitor marks them STOPPED; a template prepared at
the next number stops all creations. A container that
Docker restarts during a restoration finds the tables and the revision but no
keys and no roles yet: it seeds, the rows of the dump come on top, the keys that
would refuse them cannot be made any more, and restore.sh still ends with
"Restauration réussie" (restore.sh:113), since psql goes on after errors; this is
what the condition `~met` of three properties excludes. A restoration killed
between its drop and its end leaves a database that no start repairs: with tables
and no keys, alembic has nothing to do or fails.

## Not modelled

- *Shared spaces*: always empty on machines the program creates, so their purge
  finds nothing.
- *Audit trail, dashboards, lists, summaries, refresh of addresses*: nothing reads
  back what they write.
- *Tokens, hashes, SSH keys*: library cryptography.
- *Connection pool*: a hazard (creations hold connections for minutes), not a
  variable.
- *Administrators' forced stop, deletion and pause*: their coroutines are never
  awaited, so they do nothing.
- *Profile changes* but for the policy: names decide nothing, and roles stay what
  they are in the models.
- *Maintenance scripts* (`clean_db.py`, `reset_db.py`, `setup_proxmox_mappings.py`,
  `scripts/prepare_live_env.py` and others): run by hand on a private database.
- *The rows of the seed*: one dataset in `Deployment`. They break rules that the
  handlers keep (machines without reservations or numbers, filled shared spaces),
  so the other models start without them.
- *Two restorations or two backups at once*: run by hand or one cron line; the
  model has one of each at a time.

## Plan

Done, in this order: `Provisioning` with `VMLifecycle` (the core), `Lease`,
`Accounts`, `Credentials`, `InactiveAccounts`, `Quotas`, `Placement`, then
`Deployment`, `update_user` in `Quotas`, and theorems for every invariant that a
run checks, each module with its runs and proofs; the bound that overlapping
creations respect of the quota (`OverlapBound`) and the extent of three findings
(`Deadlock`, `OneAtATime`, `Missed`); the refinements of `VMLifecycle` by
all four models of its rows, and of `Directory` by `Accounts`.

Next, most valuable first:

1. An abstract cluster client (a task succeeds, fails or is given up while it
   goes on) that `Provisioning` and `Placement` both instantiate, and the
   refinement between them: `Placement` with awaits.
2. Pool of connections with the event loop: when creations exhaust it, and a
   bound on open creations under which no check-out waits, with its proof.
3. The monitor's reading of error texts as a function of number and error, for
   the numbers the models exclude now.
4. Runs for the disagreements that are only listed above: the overlapping
   downloads of a key first, then the false rejection e-mail, the duty a reset
   leaves out and VLANs with Proxmox, each with the theorem of its extent.
5. Session tokens: must_change_pwd and is_active against a token's age.
