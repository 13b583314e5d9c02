# A TLA+ model of pux

pux is a package manager written in C. This directory models the parts of it
that decide what ends up on a machine: the transaction engine, the package
database, the version comparators, the dependency resolver, the repositories with
their indexes, configuration and keys, the making and unpacking of packages, and
the commands that put these together. TLC checks each part on small instances, and
TLAPS proves what matters most about the engine, the resolver, the records of
the database, the update of metadata and the commands by name for installations and
repositories of any size.

Contents: [the system](#the-system), [modules](#modules), [runs](#runs),
[bounds](#bounds), [fairness](#fairness), [proofs](#proofs),
[findings](#findings), [limits](#what-is-not-modelled), [plan](#plan).

## The system

Every `pux` command is a process of its own. Processes share the installation
root, the package database (a directory of records), the caches of the
configured repositories, the configuration and the trusted keys. There is no
lock on any of them, no daemon, and no recovery after a crash.

| Component | State | Operations | Hard to test | What makes it correct |
|---|---|---|---|---|
| Transaction engine, `transaction.c` | the tree below the root; a staging directory and three lists per command | install, remove, upgrade one package | a failure at any step has to be undone; commands interleave; kills | files and records agree, one owner per file, dependencies stay met, a failure changes nothing |
| Package database, `db.c`: the meaning of records | one record per package | register, unregister, owner of a path, dependency and reverse-dependency questions | answers that are stale when they are used | removals and upgrades never leave a dependency unmet |
| Package database: records as files | `<name>` and a temporary file for each writer | write, rename, unlink, read, list all | readers beside writers, failures and kills in the middle of a write | a record is absent or whole; scans see what was there |
| Version comparators, five copies in `db.c`, `transaction.c`, `resolver.c`, `repo.c`, `cli.c` | none | compare | parts, leading zeros, digits next to letters | a total preorder, the same everywhere |
| Resolver, `resolver.c` | candidates, a mark on the selected ones, the plan, a step counter | make a plan for a name | cycles, conflicts in either direction, retracted candidates, the step limit | the search ends; plans are complete, ordered, free of conflicts |
| Repository update, `update.c` | `index.pux` and `index.pux.sig` of a cache, backups, a staging directory | download, verify, replace | the server changes between two downloads; a failure or kill between two renames; two updates at once | old or new metadata, never neither; a verified index keeps its signature |
| Command line, `cli.c` | none of its own | install and upgrade by name over the configured repositories, downloads, and some thirty smaller commands | a plan that fails half way, the fallback on the next repository, an index that is replaced, or taken back, between two looks at it | nothing gets older; what is installed was indexed, and all by one index unless the index goes back |
| Repository index, `repo.c` | `index.pux` | create, load, search, verify a package | packages that do not fit the index any more | only what an index describes gets installed |
| Configuration, `config.c` | one file per repository, one temporary name for it | add, remove, load all | two writers of one temporary file, what a kill leaves | a load fails for a cause; every enabled repository is tried |
| Signatures, `signature.c`; trust store, `trust.c` | a key pair, the index and its signature, one file per trusted key | keygen, sign, add, remove, verify | keys and files that change during a verification; parts after a kill | what is accepted was trusted, and what fits is accepted |
| Builder, `builder.c` | the package file | build | a payload that is edited meanwhile, a kill | a package that validates is what somebody built |
| Archives, `container.c`, `extract.c` | the destination | validate, extract | files and links of others in the destination, a second extraction | nothing that exists is touched; success means all is there |
| Manifest, `package.c`; SHA-256, `sha256.c` | none | parse, print, hash | byte formats | |
| Transport, `transport.c` | none | run curl | time limit | |

How they interact: `pux install NAME` and `pux upgrade NAME` (`cli.c`) try the
enabled repositories in turn; for each they call the resolver on the cached
metadata, download the plan, and call the engine for each member of it. The
engine asks the database before it changes anything and registers the package
last. `pux update` replaces the metadata the resolver reads.

PROJECT.json lists the hazards with their source lines and the properties that
would show each of them going wrong.

## Modules

    Versions  <-  PackageDb  <-  FileTree  <-  Transaction  <-  TransactionProofs
                      ^              (implements PackageStore)    <-  TransactionFileProofs
                      |
                      |---- Resolver  <-  Client  <-  ClientProofs
    RecordStore, RepoConfig  <-  AtomicFilesProofs     (both implement AtomicFiles)
    RepoUpdate  <-  RepoUpdateProofs
    RepoCache, Archive  <-  PackageProofs
    Versions  <-  VersionWalk  <-  VersionProofs
    TrustStore  <-  TrustStoreProofs

**Versions.** The comparators as functions on versions, which are sequences of
characters: a separator, a digit or a letter. `CompareSplit` is
`db_compare_version` (the copy in `repo.c` behaves alike), `CompareWhole` is
`compare_version_local` of the engine (so does the one in `cli.c`),
`CompareResolver` is the resolver's `compare_version` as it runs where `isdigit`
answers a value other than 1. Where the code walks a cursor, the module says where
the parts start (`SplitStarts`, `WholeStarts`) and that a part goes on until the
next separator or start. `VersionWalk` grows triples of versions character by
character and states what the comparators make of them.
The state machines take tables of comparison results (`DbCmp`, `TxCmp`,
`RsCmp`) as constants; `SampleVersions` holds the versions the models use and
checks, by assumptions TLC evaluates, that their tables are what the comparators
say.

**PackageDb.** The database as a function `db` from names to archives, `NoPkg`
where there is no record: a record holds the manifest and the entries of the
archive it was written from, so naming the archive says it all. The questions
`pux_db_dependency_satisfied`, `pux_db_find_reverse_dependency`,
`pux_db_find_owner` and the checks the engine builds from them are operators on
it. Registering and unregistering are one step each, the rename and the unlink
that make them visible; RecordStore shows that they may be.

**RecordStore.** The records as files: `<name>` holds nothing, a part or a whole
record, and `temp[n][p]` is the temporary file of process p for package n.
`pux_db_register_package` creates, writes and renames; `pux_db_unregister_package`
unlinks; `pux_db_read_package` opens and reads; `pux_db_list_packages` and the
scans behind every ownership and dependency question take the names first and
open one record after the other. Any call may fail, any command may be killed, and
a later one may get its process id.

**AtomicFiles.** What both the records and the configurations promise: a file is
absent or whole, a command takes effect in one step between its start and its
end, exactly if it reports success, and a read returns what was there at some
moment of it. `StoreSpec` is the refinement by RecordStore, `ConfigStoreSpec` the one by
RepoConfig. A kill may strike before or after the step.

**FileTree.** The tree below the root: what `mkdir`, `rename`, `unlink`, `rmdir`
do to it, and where `access` ends up when it follows links.

**Transaction.** The engine. `txn[p]` is what process p is doing: its stage
(`pc`), archive, the record it replaces, the paths the current loop has still to
visit, and the lists a rollback works from. One action is one system call that
changes the shared state or one check that reads it, so that commands interleave
where the processes can. The loops visit paths in the order the code sorts them
(`Rank` is `strcmp`) where that matters. The environment may let any step fail
before it has an effect (`Fault`), let the engine run out of memory right after
a rename (`PlaceUntracked`), kill a command (`Crash`) and, between commands, put
or delete files (`Edit`). `deleted` and `missed` are history: what the administrator
deleted, and the links a removal took for missing and left where they were. How the code
corresponds:

| Stage | install | remove | upgrade |
|---|---|---|---|
| begin | name has no record | name has a record | archive is newer than the record |
| depends | `dependency_check` | `pux_db_find_reverse_dependency` | `dependency_check_for_replacement`, `upgrade_plan_dependent_check`, `upgrade_conflict_check` |
| validate | | `validate_removal_paths` | `validate_removal_paths` |
| preflight | `preflight_paths` | | owners, kinds on disk, kinds in the old record |
| stage | | old files to staging, last path first | old files to staging, first path first |
| dirs, files | pass 0, pass 1 | | the same |
| register, unregister | `pux_db_register_package` | `pux_db_unregister_package` | `pux_db_register_package` |
| prune | | empty directories, deepest first | the same |
| undo | `rollback_transaction` | `rollback_remove:` | `upgrade_rollback:` |

**PackageStore.** What the engine promises: every command changes records and
files in one step that leads to a consistent set of records, or changes nothing.
Two weaker steps are in it because the engine takes them (see the findings).
`Transaction!Atomic` is the refinement: the tree a reader sees is the one before
the command that is running, until that commits.

**Resolver.** `pux_resolve_package_plan`. The activations of
`resolve_requirement` are frames on a stack, and an action is one turn of its
two loops: `Choose` tries the best match that is left, `Resolve` calls it for a
dependency, `GoOn` takes the next one, `Retract` undoes a candidate and cuts the
plan back, `Accept` appends it, `GiveUp` runs out of matches. The set of selected
candidates, the plan and the step counter are shared by all activations, as in
`struct solve_state`.

**RepoUpdate.** `pux_repo_update`. The two files are numbers, editions; a
signature fits the index of its own edition. An action is one download, the
look for the old files, or one system call of `replace_metadata`. The server
publishes its index and its signature one after the other.

**Client.** `pux install NAME`, `pux upgrade NAME` and `pux remove`, one command
at a time. It composes two modules: it extends Resolver, whose variables are those
of the search and whose `Next` is a turn of it (`Search`), and installing or upgrading one member of a
plan is one step that passes the engine's checks from PackageDb, which is what
`Atomic` says of the engine.

**RepoConfig.** `<name>.conf` and the one `<name>.tmp` that all adds of a name
write. Two adds can have one file open, and the first may rename it while the
second still writes, so a command's `at` says under which path its open file is
found now, and `Overlay` what a file holds that two have written. The variable
`overlap` says whether adds of one name may run at the same time and never changes;
some properties are about behaviours in which they do not. `Load` is
`pux_repo_config_load_all`; `Visit` is the loop of `pux update` and `pux search`
over what has been loaded.

**TrustStore.** `pux keygen`, `pux trust add` and `remove`, `pux repo sign` and
`verify`. A key is the whole of a pair and its id. The verification looks at
the signature's key id, the store, the index, the key and the signature one
after the other, each a step; the signature is read twice, and the id that is
reported is that of the first time. `keyWatch` is history: the whole keys that have
been in the store under that id since it was read, and the editions of the index since
the verification started.

**RepoCache.** The way of a package from the repository to an installation. The
publisher replaces packages and indexes them. Each `pux update` downloads the index into
a directory of its own (`Fetch`), moves the old one aside (`MoveAside`), puts the new one
in place (`PutInPlace`), and where the rest fails takes it away again (`TakeBack`) and
brings the old one back (`Restore`); updates overlap, so one can put back an index that
is older than the one another has just put in place. Each `pux install` or `pux upgrade`
makes a plan (`Resolve`), looks at each cached package (`Download`), downloads what does
not fit, checks it (`Check`) and renames it, makes a plan again (`ResolveAgain`), verifies
(`Verify`) and executes (`Install`). Each of these reads the index, or the directory
where the index is away, as it is then. Commands share the directory. `watch` is history:
which indexes a lone command has run under, whether each was at least as recent as those
before (`forward`), and whether anything has happened that may make the command fail
(`calm`).

**Archive.** `pux_package_build` collects names, sorts them and writes member after
member, with the size in front of the content; the payload may be edited at any
moment. `pux_package_archive_extract` validates and unpacks, several at once in one
destination where others put files and links; a directory that is not there when the
extraction looks and is there when it makes it is an error, as in the code. An archive is
its members and whether its end has been written.

The `MC` modules give the constants values. Modules that have nothing to do with
each other share some of the MC modules: a variable `part` says at the start which
of them the behaviour is about, and the variables of the others keep their
initial values. MCRemote extends the two modules it is about, Client and RepoUpdate, so
the names of these have an `Update` or a `Client` in front where several would use
one (`UpdateSpec`).
This only saves runs; nothing is composed by it. An operator under a comment that says
"Faulty variant" is a plausible mistake in the definition below it; nothing uses
it, and each is what one of the properties is there to catch.

## Runs

| Run | Question | Result |
|---|---|---|
| transaction | One command at a time, one failing call, one edit by the administrator, in any order: do records, files and dependencies stay consistent, is a failure undone, does the engine implement PackageStore? | holds, 45,371 states |
| crash | The same with a kill at any step or an allocation that fails right after a rename: what survives? | no shipped file is lost, no recorded path changes kind; 204,889 states |
| parallel | Two commands on packages that share only directories, one call may fail | neither disturbs the other's files, both end; 69,621 states |
| resolver | Every repository out of ten candidates, every request | the search ends and plans soundly; 93,143 states |
| remote | Two updates, a server with two editions, one failing call or kill. Any sequence of up to two commands over one or two of four repositories, failing anywhere | failures restore, verified pairs stay pairs, no index is lost; plans are executable in their order, nothing gets older; all end; 448,703 states |
| files | Records, scans, configurations, adds that overlap, verifications and key generations, each beside other commands, one failing call or kill | records and configurations are atomic files, readers fail for a cause, verifications are sound and complete; 1,155,619 states |
| packages | A build with an edit and a fault, two extractions; two installing commands beside a publisher and updates that overtake each other and are rolled back; all triples of versions | what validates was built, nothing that exists is overwritten; what is installed was indexed, by one index unless the index goes back, and undisturbed commands succeed; versions are ordered, those of numbers by value; 1,195,939 states |
| rollback, links, skew, leftover, highest | one sentence of the documents each | violated, see the findings |

Six configurations are not among these runs. MCFilesTypes, MCRemoteTypes and
MCPackagesTypes check the type invariants of the modules in files, remote and
packages. MCOverlap, MCKeyLoss and MCKeyName show the findings 6, 7 and 8.

The properties are stated with comments in the modules. The ones that took
thought:

* `FailureRestoresOwned` (with `NoOrphanFiles` and `NothingInTheWay`): a command
  that fails leaves the tree as it found it, and the package can be installed,
  removed or upgraded again. What may still be in the way is said in `Unclaimed`: a path
  another package owns, a file of the administrator, or a link that a removal has
  taken for missing and left (finding 2).
* `DependenciesClosed`: each check of the engine looks at its target only; that
  they add up over sequences of installs, upgrades and removals is not obvious,
  since an upgrade can change what a package provides.
* `UpgradeKeepsPeace`: conflicts count in both directions.
* `RecordedFilesPresent` with two processes: one prunes a directory the other is
  about to use.
* `SelectionSound`, `PlanSound`: they hold through every retraction, which restores
  only part of the search's state.
* `PlanExecutable`: the resolver's idea of a met dependency (from the catalog)
  and the engine's (from the database) are separate code.
* `VersionsOnlyGrow` across a fallback on another repository after part of a plan
  has been executed.
* `VerifiedPairTaken`: the signature is downloaded after the index, and the
  server may have moved on.
* `IndexKept`: two updates that get into each other's way, and kills.
* `StoreSpec`, `ConfigStoreSpec`: a write is several calls and a reader comes in
  between any two; a failure after the rename must not be reported as one before.
* `ScansFailForRemovals`: every ownership and dependency question reads all
  records, and one that cannot be read fails the question.
* `AcceptedWasTrusted` and `GoodIsAccepted`: five looks at files that may change
  between any two, of which the signature and the file of the key are looked at twice.
* `ValidIsBuilt`: names, sizes and contents are read at three different moments.
* `SuccessIsOneIndex`: a command reads the index at least once per package and
  per check, and yet what it installs fits a single index, as long as each index that
  is put in place meanwhile is as recent as the ones before.
* `CalmSucceeds`: what earlier commands have left in the cache never makes a
  command fail that nothing disturbs.

## Bounds

* **transaction, crash**: three names, seven archives, eight paths. They contain a
  versioned dependency, a capability that the next version drops, a second
  provider, a conflict that one side declares, two packages that want one file, a
  file that becomes a link, a link before its target and after it, and a file
  that comes with an upgrade. Events of the environment are limited to one of
  each kind a run has; a second failure can only strike a command that has
  nothing to do with the first, as the first one's has ended by then. `Crash`
  and `PlaceUntracked` may both happen in a crash run.
* **parallel**: two processes, one for each of two packages with common
  directories. More processes add no new pair of steps.
* **resolver**: all 1,024 subsets of ten candidates, eight requests. Step limit
  9 (the code has 65,536) so that some searches reach it.
* **remote**: two updating processes, two editions, one fault or kill (`Limit`); six
  archives in four repositories, lists of one or two different ones, a step limit of 20
  which is not reached. Faults of the client are not bounded.
* **files**: two processes, two packages with two possible records; two
  repositories, one that is enabled and one that is not, whose texts differ in
  length so that what is left of the longer shows; two keys and two editions of the
  index; one fault or kill in each. Commands are repeated without bound. A third
  process would add no new pair of steps, and each property is about one command
  and what the others do.
* **packages**: a payload of a directory with one entry and an entry beside it, two
  contents of different length and a link, one edit, one fault or kill, one thing
  that somebody puts in the destination, two extractions. Versions: total length at
  most six over {separator, 0, 1, letter}, enough for leading zeros, empty parts, digit
  and letter boundaries. Cache: the wanted package with three versions, the first and
  the last of which need a second package with two, so that two indexes with one plan
  differ in both packages. How many changes of the repository, updates, installing
  commands and faults (failures, kills and broken downloads) a behaviour has is one of
  five `Mixes`: two commands, with two changes or two updates; two changes and two
  updates around one command; one command and three updates of which one is rolled back,
  or four without a fault. The last two are there because `SuccessIsOneIndex` needs its
  condition: with `forward` left out TLC finds, in each of these two, a lone command that
  takes its two packages from two indexes.

## Fairness

Transaction has weak fairness on the steps of a running command (`FairSpec`),
RepoUpdate on those of a running update, Client and Resolver on the one process.
A command is a process that the system schedules and that waits for nobody:
there are no locks, and curl runs with a time limit. RecordStore, RepoConfig,
TrustStore, Archive and RepoCache are checked for safety only, without fairness. Nothing is assumed of the
user, the server, faults or kills. Safety properties are checked without
fairness where it makes no difference.

## Proofs

Each argument has the usual shape: the initial states satisfy a strengthened
invariant, each action preserves it (one step per action), it implies the
property, and PTL puts them together. What a theorem assumes is in its statement;
nothing is assumed beside that and the `ASSUME`s of the component, which TLC
evaluates in every run.

| Theorem | Property | Assumes |
|---|---|---|
| `TypeCorrect` | `TypeOK` of the engine | |
| `OwnersStayUnique` | `UniqueOwner` | `Independent` |
| `DependenciesStayMet` | `DependenciesClosed` | `Alone`, `TxCmp = DbCmp` |
| `UpgradesKeepPeace` | `UpgradeKeepsPeace` | `Alone` |
| `FailuresRestore` | `FailureRestoresOwned` | `Alone`, `AllTracked` |
| `CommandsAreAtomic` | `Atomic`, the refinement of PackageStore | `Alone`, `AllTracked`, `NoKills`, `TxCmp = DbCmp` |
| `FilesStayPresent` | `RecordedFilesPresent` | `Apart`, `OwnPlaces \/ NoEdits`, `NoKills` |
| `ContentsNeverLost` | `NothingLost` | `Apart`, `NoEdits` |
| `NoFilesOrphaned` | `NoOrphanFiles` | `Apart`, `AllTracked`, `NoKills` |
| `KindsStayIntact` | `KindsIntact` | `Apart`, `KindsAgree`, `RegularPlaces \/ NoEdits` |
| `NothingGetsInTheWay` | `NothingInTheWay` | the same, `AllTracked`, `NoKills`, no archive is empty |
| `SearchTypes`, `DescentEnds`, `SelectionStaysSound`, `PlanStaysSound`, `NoLateConflict`, `PlansInOrder` | `TypeOK`, `NoEndlessDescent`, `SelectionSound`, `PlanSound`, `ConflictsFoundInTime`, `PlanInOrder` | |
| `RecordTypes`, `ListSoundAlways`, `ScansFailForRemovalsAlways`, `RecordsAreAtomicFiles` | `TypeOK`, `ListSound`, `ScansFailForRemovals`, `StoreSpec` (the refinement of AtomicFiles) | |
| `RepoTypes`, `LoadsFailForRemovals`, `RepairByAdd`, `EveryOneTried`, `ConfigurationsAreAtomicFiles` | `ConfTypeOK`, `LoadFailsForCause`, `LoneAddInstalls`, `EveryEnabledTried`, `ConfigStoreSpec` (the refinement of AtomicFiles) | `ConfConstants`: names have an order; empty and torn files are told from entries |
| `VersionsGrow`, `SuccessesDeliver` | `VersionsOnlyGrow`, `SuccessDelivers` | `OneOrder` |
| `PlansAreExecutable` | `PlanExecutable` | `OneOrder`, `PublishedOnce` |
| `ArchiveTypes`, `ArchivesAreTrue`, `ExtractionsDeliver`, `NothingIsOverwritten` | `TypeOK`, `ValidIsBuilt`, `SuccessIsWhole`, `ExistingStays` | |
| `CacheTypes`, `OnlyIndexedInstalled`, `SuccessesAreOneIndex`, `UndisturbedSucceed` | `CacheTypeOK`, `InstalledWasIndexed`, `SuccessIsOneIndex`, `CalmSucceeds` | `CacheConstants`: the wanted package is the last of its plan, as `PlanInOrder` wants; packages of one age are the same |
| `TrustTypes`, `AcceptancesAreTrusted`, `GoodOnesAreAccepted`, `KeygenIsAtomic` | `TrustTypeOK`, `AcceptedWasTrusted`, `GoodIsAccepted`, `KeygenAllOrNothing` | for the last, `LoneKeygen` |
| `WalkVersionsAreOrdered` | `VersionsAreOrdered` | `CharAssumption`: characters are integers |
| `UpdateTypes`, `IndexAlwaysKept`, `FailuresKeepMetadata`, `VerifiedPairsTaken` | `UpdateTypeOK`, `IndexKept`, `FailureKeepsMetadata`, `VerifiedPairTaken` | `ConstantsOK`: editions are numbers |

The assumptions are about the surroundings, and each excludes something that the
code does not prevent and that would break the property:

* `Alone`: one process. Two commands on packages that conflict, or of which one needs the other,
  may both pass their checks before either commits; pux has no lock.
* `Independent`, and the stronger `Apart`: different processes work on different
  packages whose archives share no files, `Apart` also wants no file of one to be
  a directory of the other. Directories may be shared, which is what makes the
  concurrent case hard; the run parallel has such an instance.
* `TxCmp = DbCmp`: the engine and the database order versions alike, see finding 3.
* `OneOrder`: the same, and that exchanging two versions changes the sign of their
  comparison, which `AllVersionsAreOrdered` proves of the comparators of the database
  and of the engine.
* `PublishedOnce`: archives of one name, version and release provide the same
  capabilities. `manifests_match_exact` compares name, version and release, so an
  installed package that passes as the planned one could otherwise lack a capability that
  the plan counts on.
* `AllTracked`: `moved_append` does not fail after a rename or a `mkdir`, in other
  words the engine never runs out of memory there. A rollback does not undo what
  is not on its lists. `NoKills`: no command is killed; nothing repairs what one leaves.
  `NoEdits`: the administrator edits nothing between commands.
* `OwnPlaces`: he puts files only where no archive has one; `RegularPlaces`: or where the
  archives that have something have a regular file. He may delete what he likes of `UserPath`; a
  regular file that he then puts where a package has a link is not of the recorded
  kind, and `validate_removal_paths` refuses it, rightly.
* `KindsAgree`: no path is a directory in one archive and a file or a link in
  another. Otherwise an install may make a directory where a killed command has
  left a recorded file missing, and a package whose file lies where others have a
  directory cannot be installed beside them.
* No archive is empty: the preflight refuses one that is, for that reason alone.

The run transaction checks `NothingInTheWay` with one edit and a package whose link lies where
the administrator may put a file: one edit cannot both delete the link and put the
file. The theorem allows any number of edits, hence `RegularPlaces`.

**TransactionProofs.** `TypeCorrect` rests on lemmas that say that the tree
operations keep trees trees and that archives have entries in the tree. `OwnerInv`
adds to `UniqueOwner` that from the preflight on the files of a running command's
archive have no other owner, and that the record it replaces is still the one
in the database. `UniqueOwner` alone is not inductive, because the preflight and the commit are
many steps apart. `DependencyInv` carries the outcome of the dependency checks
from their step to the commit in the same way; `UpgradesKeepPeace` needs its part about conflicts.

For the files, `TreeInv` gives an account of every path while a
command works: at each stage what is there now, together with the lists
`placed`, `created` and `backup`, determines what was there before (`Traced`). It
also says which paths each loop has reached (`Reached`), that trees have no
entry without its parents (`Closed`), and what the checks have found out about
kinds and owners (`Examined`). A rollback that has worked off its lists has then
restored everything but what nobody recorded at a path of the new archive (finding 1).
For the refinement, `CommittedTree` undoes the lists of the running command; the
steps before the commit leave it alone, the commit changes it to what
PackageStore wants, and the steps of a rollback and of pruning leave it alone again.

**TransactionFileProofs.** Several commands beside each other, so what one
relies on must survive the steps of the others. `FileInv` says what the lists of
each command hold, which owners its files have, and that what it moves is not a
directory. `ProcessSteps`, the lemma all else rests on, sorts the steps of a command
into a few kinds, each at one path, or at one path and the parents that are made
for it. On it stand three invariants:

* `KeepInv`: each file of a package is in place, or in the backup of the command
  that works on the package, or it is excused (deleted by the administrator, or
  in the staging directory of a killed command).
* `OrphanInv`: each regular file, and each link that no removal has taken for missing,
  is recorded, or on the list of what a running command has put in place, or the
  administrator's.
* `IntactInv`: what is there of an installed package, and what is in a backup,
  is of the recorded kind, so that the next command's checks pass.

**AtomicFilesProofs.** Of the records, `RecordInv` says what a command has in hand at each stage,
that a live record is never a part, and that the temporary file that is about to be
renamed holds the record to be registered. The last is what makes a rename a
`Put`, and it is inductive because no two commands share a temporary name, also
where one has the process id of a killed one. In the refinement the initial states map to
initial states, and the lemmas for each command map its steps to a step or a
stutter of the store.

Of the configurations, `CommandsInv` says what a command has in hand, that it loads
no repository twice and tries enabled ones only; the one to try next then exists
(`BestOfThem`, by the pigeonhole principle, since a largest element is otherwise a
matter of induction). A step may change the command of another process, since a rename
moves the file the other has open: `Takes` says what of it stays (`Alike`). `LoneInv` follows an
add that has met no other one of its name: its temporary file is where it left it
and nobody else writes there, however many adds have overlapped before, so that it
truncates what they left and installs what it has written. Where no adds overlap every add
is such a one. `QuietInv` adds that a configuration is then complete or absent, and that a name
vanishes from under a load only when a remove, which the load notes, takes it. On these
three the refinement `ConfigStoreSpec` rests: every step maps to one of
the store or to a stutter.

**RepoUpdateProofs.** `UpdateInv` says what an update has downloaded and
verified at each stage and, as long as no two updates have met, that its backup
and the files in place make up what it found (`Tracked`): one lemma for each system
call of `replace_metadata` and of its rollback. `CalmInv` is about updates that
meet: as long as no call fails by itself none of them rolls back past the index,
so where no index is in place somebody holds one.

**ClientProofs.** Of the resolver, `SearchInv` says: the marks on the stack never decrease inwards, so
retracting the top frame cuts nothing off that a frame below has marked; an
answer is for a frame that is trying a candidate, so a retraction always has
one to retract; and everything selected has supported conflicts only. `OrderInv`
adds what the order of the plan needs, for all cycles: each frame is there for a dependency of
the frame below (`Linked`), so what is tried further out needs what is tried further in
(`Chained`); the dependencies a frame has been through are met (`Through`), also after
retractions; and for each dependency of a planned package something that meets it is
planned before it, is left over, or needs it in the end (`Ordered`). That last case
speaks of what is still on the stack below the mark, because a package on a cycle is
planned before the one that is being tried further out.
Of the client, `ClientInv` holds `SearchInv` at every turn of every search, also when
a search is started anew on the next repository; so a plan names a package once.
`DeliveryInv` then says that, while a plan is executed, what it has been through
is delivered: a later member never replaces an earlier one.

**PackageProofs.** First Archive. `ExtractInv` says where each extraction stands: what it has
passed is in place, and the file it writes is there in part, under a path that no
other extraction writes. Types depend on it, because what a step writes is the member
it has reached. `BuildInv` has a part for each phase of a build. While paths are
collected, everything found is below a directory found before, and nothing that was
there throughout is missed in a directory that was found (`CollectInv`); when
nothing is left to look at, nothing is missing at all, since the least name that
was missed would lie in a directory that was found (`AllFound`, by well-founded
induction on the order of the names). While members are written, what is written
and what is to be written make up what was found, in order (`WriteInv`). The parent
of an entry is then always written before it, because its name is less.

Then RepoCache. `FilesInv`: what has been in place, checked or installed was in
an index; `UpdaterIs` sorts the steps of an update into those that leave the index alone, take
it away, or put a whole one in place that the repository had. For `SuccessIsOneIndex`,
`OneIndex` says of the packages that a lone command has verified that each was in an
index it has seen in place (`Seen`). Where the index has gone forward, all of them were in
one such index (`OneOf`): `ForwardInv` says that the last index seen is then the newest
and that nothing in the directory is newer than what it says, so a package that fits a
later index has not changed since the first against which the command verified one, and
has fitted that index, too (`VerifiedToo`). The publisher's replacing packages by newer
ones only is part of the model; with a package that returns to an earlier state the
second part of the property would fail, and so it does without `forward`. `Calm` follows
an undisturbed command through its stages, and `CalmAccepts` needs the order of the plan.

**TrustStoreProofs.** `TrustInv` ties each stage to the command that reaches it and says
what that has read. `VerifyInv` follows a verification: the index it has in hand was in
place since it started, and the key it has read was whole in the store, under the id it
will report, since it read that id; and as long as the repository is steady, what it has
in hand is what fits.
`KeygenAllOrNothing` is proved where one process at a time generates keys
(`LoneKeygen`): two that overlap take each other's files away.

**VersionProofs.** For all versions over any alphabet, also for the comparators on
their own (`AllVersionsAreOrdered`, `NumbersAreOrderedByValue`). Both loops are one
order twice over: the parts of two versions, and the characters of two words, are compared in turn until two
differ, and otherwise the longer one is the larger. `InOrder` is that order for a
comparison of the items given as a function, and `InOrderSwap` and
`InOrderTransitive` show that it is a total preorder whenever that of the items is;
`NotAfter` says "not larger" by the place of the first difference, which is what
makes transitivity a matter of comparing two places. The comparison of parts is
such an order because numbers come after words and, without the zeros in front,
are ordered by length and then as words (`PartsAreOrdered`). `PartListsAreOrdered`
then holds however a version is cut. That the two cuts agree where no part mixes
digits and letters rests on what a part is: a run that goes on to the next
separator or start (`PartIsRun`), so digits that meet letters lie in one part
of `version_part` (`MeetingIsMixed`).

For its part `NumbersByValue`, `Sums` follows the value of a number digit by digit: zeros in
front add nothing (`ZerosDoNotCount`), a number with fewer digits is smaller
(`FewerDigits`), and once one of two numbers of the same length is behind it stays
behind, whatever digits follow (`StaysBehind`).

`Least` chooses the least member of a set; that there is one is proved by counting
the members below each (`BelowGrows`, `LeastIsLeast`), because the library's
theorem is about a predicate that is a parameter. Induction along a sequence is
`SetInduction`, about a set of numbers in the place of a predicate, which
the provers can instantiate.

Only model-checked: liveness (`Terminates`, `Ends`, `CommandsEnd`), which is out of
the prover's reach. Of the versions themselves, the resolver's comparator has no
theorem: as it runs with glibc it compares numbers as text, see finding 5, and is
not a total preorder on all versions.

## Findings

1. **A failed upgrade is not undone completely** (run rollback,
   `transaction.c:1464`). The preflight of an upgrade lets a new file take a path
   where a file lies that no package owns. It is replaced, and the rollback
   removes the new one without bringing it back. `PackageStore!FailedUpgrade`
   allows for it, so that `Atomic` says what holds beside it.
2. **A removal can leave links behind** (run links, `transaction.c:814`).
   `access` follows links, and a link whose target has been staged before it
   counts as missing. The preflight of the next install of the package meets the link
   (`transaction.c:343`) and refuses it, which `NothingInTheWay` leaves out by name.
3. **Two orders of versions** (run skew, `transaction.c:1299`). 1.9b is newer
   than 1.10b to the engine and older to the database, so an upgrade can break a
   dependency. `VersionsAreOrdered` says, and `WalkVersionsAreOrdered` proves for all
   versions, that they agree where no part mixes digits and letters.
4. **A plan can lack a dependency** (run leftover, `resolver.c:763`). What was
   selected for a candidate that is retracted stays selected although it is no
   longer planned; a later requirement counts it as met. The engine then refuses
   the plan half way.
5. **The resolver does not compare numbers** (run highest, `resolver.c:413`).
   `isdigit` is compared with 0 or 1, and its answer may be another value; with
   glibc versions are compared as text.

6. **Overlapping adds expose a partial configuration** (MCOverlap.cfg,
   `NotPartlyExposed`, `config.c:379`). Both write one temporary file; the rename of
   the first installs what the second has truncated. `spec/repository-format.md:87`
   says that a partially written configuration is not exposed. A load fails
   meanwhile, and an add that runs alone repairs it (`LoneAddInstalls`).
7. **A second keygen deletes the key pair** (MCKeyLoss.cfg, `KeypairStays`,
   `signature.c:406`). It is refused, because the private key exists, and then
   unlinks both paths.
8. **A key can get into the store under the id of another** (MCKeyName.cfg,
   `KeysUnderTheirIds`, `trust.c:140`). `trust add` reads the key's file once for the id
   (136) and once more for the copy (140); where the file is replaced in between, the
   store holds a key under an id that, as `README.md:115` says, names it. A
   verification reads the id from the signature, the key under that id, and the
   signature again; where that has been replaced meanwhile by one of the misnamed key,
   it accepts it, also after the key has been removed by its own id, and reports the id
   it read first. `AcceptedWasTrusted` speaks of the id under which a key is stored
   for that reason.

Read in the code while it was modelled, and not shown by a model, as names and
lengths are abstract: `container.c` accepts members `META/` and `payload/`, which
`extract.c` refuses; a link target of more than 100 characters is cut by `readlink`
in `builder.c:203`, whose test for it never holds, and so is its comparison before
the entry is written. In the model Archive: a file that is replaced by a link between
collection and writing is read through the link (`SameKind`), and a build that
fails removes the package that an earlier one has left under the same name.

Seen in the models and contradicted by no document: after a kill,
`NothingInTheWay` and `RecordedFilesPresent` may fail (files without
a record, a link of the new version under the old record); two commands at once on conflicting
packages may break `UniqueOwner` and `DependenciesClosed`; two updates at once may leave
an index beside the signature of another edition; a reader of the metadata may find
neither file while `replace_metadata` runs. An index can go back, where the rollback of
`replace_metadata` (`update.c:245`) restores the old one or where an update that has
downloaded earlier than another puts its index in place later; a command that runs
meanwhile may then install packages of two indexes, each verified.

## What is not modelled

* Byte formats and texts: headers of archives, manifests (`package.c`), records, keys,
  configurations and indexes as text; hashing and Ed25519, which are taken to be
  perfect (`sha256.c`); curl (`transport.c`), which succeeds or fails. They are
  sequential code over bytes that unit tests reach. `main.c` only calls `cli.c`,
  and of that the commands that print or call one library function are left out, as
  is `pux update NAME`, which looks at one package more before it does what
  `pux upgrade NAME` does.
* The transaction engine takes archives to be valid and of the right architecture,
  records to be readable, version parts to fit their buffers; what it does where a
  package is replaced while it reads it is left out, and so is a package that is
  replaced between the validation and the unpacking of an extraction, which opens
  it twice (`extract.c:528` and `535`).
* A check loop of the engine is one step, and so is a check with the system call
  that follows it, and a rename with the making of its parent directories.
* Steps of a rollback do not fail by themselves (the code ignores their errors);
  they can fail because of what is in the way. A kill may strike in a rollback.
* Links lead to paths of the tree; an absolute link that leads out of the root
  is left out.
* Resolver: the order of the dependencies in a manifest is left open; RsCmp is
  taken to order the versions of one catalog totally. With glibc that is not so of
  every catalog: a.b and a..b are equal, and a.1 is between them.
* RepoUpdate: the index is valid whenever it is there, and one that requires a
  signature gets it or fails.
* Client: one command at a time, and the repeated resolution of one catalog by a
  command is one search; RepoCache has several commands and an index that changes,
  and packages whose plan is a constant. Nobody composes the two: the resolver's
  search and the interleaving with updates are independent questions.
* RepoCache: an index is as recent as the packages were at one moment, as `repo
  create` is one step, although it reads the size, the manifest and the digest of a
  package one after the other (`repo.c:244`); such an entry fits no package, and
  every check refuses it. Signatures are the subject of TrustStore. What fails for
  an operation in the engine is left to Transaction.
* Archive: nobody edits while a package is extracted or builds it again, and the end
  marker is one write.
* RepoConfig, TrustStore: permissions, links and directories in the place of files.

## Plan

Done: Versions, PackageDb, FileTree, Transaction with PackageStore and its
theorems; Resolver, Client, RecordStore and RepoConfig with AtomicFiles, RepoUpdate,
RepoCache, Archive and TrustStore, each with its theorems.

The theorems cover every safety property and every refinement that the runs check.
Next, in this order:

1. Resolver: a property for the root of the plan (a provider must not stand in
   for it), and how far a plan may be missed although there is one.
