------------------------------ MODULE RepoCache ------------------------------
(***************************************************************************)
(* From the packages of a repository to what is installed from it: the     *)
(* publisher puts packages into the repository and indexes them with pux   *)
(* repo create (src/src/repo.c); pux update fetches the index into the     *)
(* local directory; pux install and pux upgrade make a plan, download its  *)
(* packages to that directory, check them against the index, make a plan   *)
(* once more, check again and install (src/src/cli.c).  All of these run   *)
(* side by side, and each reads the files anew at every step.              *)
(*                                                                         *)
(* The steps by which an update replaces the index or takes it back are    *)
(* here, for other commands see the directory between them; how it         *)
(* recovers its files is the subject of RepoUpdate, how the database is    *)
(* asked that of Client.                                                   *)
(***************************************************************************)
EXTENDS Naturals, Sequences

CONSTANTS
  File,      \* the names of the package files, one for each package
  Wanted,    \* the package that is asked for
  Package,   \* what a file can hold, a package of an age
  Holds,     \* Holds[f]: what the file f may hold
  First,     \* First[f]: what the file f has at first
  Age,       \* Age[c]: packages are replaced by newer ones only
  PlanOf,    \* PlanOf[c]: the plan for content c of the wanted package, which is its last
  Broken,    \* something else than a package of the repository
  Nothing,   \* no file, no entry, no index
  Command,   \* the installing commands
  Update,    \* the updating commands
  MaxPublish, \* bound: how often packages of the repository are replaced
  MaxFetch,  \* bound: how many commands update
  MaxBegin,  \* bound: how many commands install
  MaxFaults   \* bound: how many of all these fail, are killed or get a broken download

CacheConstantsOK ==
  /\ Wanted \in File /\ Holds \in [File -> SUBSET Package]
  /\ First \in [File -> Package] /\ \A f \in File : First[f] \in Holds[f]
  /\ Age \in [Package -> Nat] /\ \A b, c \in Package : Age[b] = Age[c] => b = c
  /\ PlanOf \in [Package -> Seq(File)]
  /\ \A c \in Package : \A i \in DOMAIN PlanOf[c] : PlanOf[c][i] = Wanted => i = Len(PlanOf[c])
  /\ {Broken, Nothing} \cap Package = {} /\ Broken # Nothing
  /\ MaxPublish \in Nat /\ MaxFetch \in Nat /\ MaxBegin \in Nat /\ MaxFaults \in Nat

ASSUME CacheConstants == CacheConstantsOK

VARIABLES
  server,   \* the packages of the repository
  offer,    \* its index
  index,    \* the index in the local directory
  updates,  \* what each updating command is doing
  cached,   \* the packages in the local directory
  getting,  \* what each installing command is doing
  installed, \* the content that each installed package came from
  indexed,  \* history: what the local index has had for each file
  watch,    \* history: see Watch
  published, fetched, begun, lost  \* how much of the bounds has been used

cacheVars == <<server, offer, index, updates, cached, getting, installed, indexed, watch,
               published, fetched, begun, lost>>
publishing == <<server, offer, published>>
updating == <<index, updates, indexed, fetched>>
installing == <<cached, getting, installed, begun>>

\* The entry of a file stands for its size, its digest and its manifest.
Index == [File -> Package \cup {Nothing}]
NoIndex == [f \in File |-> Nothing]

\* An update has downloaded the index got, and has moved the index aside out of the way
\* (NoIndex where it found none) or taken back what it had put in place.
Updating == [pc : {"idle", "fetched", "moved", "placed", "taken"}, got : Index, aside : Index]
NoUpdate == [pc |-> "idle", got |-> NoIndex, aside |-> NoIndex]

\* A command is to look at plan[pos]; temp is what it has downloaded, took are the
\* packages it has found or put in place as they are in the local directory.
Getting ==
  [pc : {"idle", "resolve", "download", "check", "rename", "verify", "install", "done"},
   job : {"install", "upgrade"}, plan : Seq(File), pos : Nat \ {0},
   temp : Package \cup {Broken, Nothing}, took : SUBSET File]
NotGetting == [pc |-> "idle", job |-> "install", plan |-> <<>>, pos |-> 1,
               temp |-> Nothing, took |-> {}]

\* Since the command began: whether it was the only one that installs; and, if so, whether
\* nothing has happened that could make it fail; the indexes that have been in place; and
\* whether they went forward only, from one that the directory was not ahead of.
Watch == [alone : BOOLEAN, calm : BOOLEAN, forward : BOOLEAN, during : SUBSET Index]
NoWatch == [alone |-> TRUE, calm |-> FALSE, forward |-> FALSE, during |-> {}]
Crowded == [NoWatch EXCEPT !.alone = FALSE]

CacheTypeOK ==
  /\ server \in [File -> Package]
  /\ offer \in Index /\ index \in Index
  /\ updates \in [Update -> Updating]
  /\ cached \in [File -> Package \cup {Nothing}]
  /\ getting \in [Command -> Getting]
  /\ installed \in [File -> Package \cup {Nothing}]
  /\ indexed \in [File -> SUBSET Package]
  /\ watch \in [Command -> Watch]
  /\ published \in 0..MaxPublish /\ fetched \in 0..MaxFetch
  /\ begun \in 0..MaxBegin /\ lost \in 0..MaxFaults

NoFiles == [f \in File |-> Nothing]

\* A command fails for a reason outside of the model or is killed.
Fails == lost < MaxFaults /\ lost' = lost + 1

\* The repository has been published and indexed.
CacheInit ==
  /\ server = First
  /\ offer = First
  /\ index = NoIndex /\ updates = [k \in Update |-> NoUpdate]
  /\ cached = NoFiles /\ installed = NoFiles
  /\ getting = [p \in Command |-> NotGetting] /\ watch = [p \in Command |-> NoWatch]
  /\ indexed = [f \in File |-> {}]
  /\ published = 0 /\ fetched = 0 /\ begun = 0 /\ lost = 0

-----------------------------------------------------------------------------
\* The publisher

\* Every change of the index or the repository disturbs the commands that run.
Disturbed == [p \in Command |-> [watch[p] EXCEPT !.calm = FALSE]]

\* Some of the packages are replaced by newer ones.
Publish ==
  /\ published < MaxPublish /\ published' = published + 1
  /\ server' \in [File -> Package] \ {server}
  /\ \A f \in File : server'[f] \in Holds[f] /\ Age[server[f]] <= Age[server'[f]]
  /\ watch' = Disturbed
  /\ UNCHANGED offer

\* pux repo create, where the packages hold still while it reads them.
CreateIndex ==
  /\ offer # server
  /\ offer' = server
  /\ UNCHANGED <<server, published, watch>>

-----------------------------------------------------------------------------
\* The index in the local directory

\* Index i has every entry of index j, or a newer one.
NotOlder(i, j) == \A f \in File : Age[j[f]] <= Age[i[f]]

\* An index that no package in the directory is ahead of.
NotBehind(i) == \A f \in File : cached[f] # Nothing => Age[cached[f]] <= Age[i[f]]

\* A command that is alone has seen index i in place.
SeenBy(i) == [p \in Command |->
  IF watch[p].during = {} THEN watch[p]
  ELSE [watch[p] EXCEPT !.calm = FALSE, !.during = @ \cup {i},
                        !.forward = @ /\ \A j \in watch[p].during : NotOlder(i, j)]]

Step(k, state) == updates' = [updates EXCEPT ![k] = state]

\* What is downloaded waits in a directory of its own until it has been validated.
Fetch(k) ==
  /\ updates[k].pc = "idle" /\ fetched < MaxFetch /\ fetched' = fetched + 1
  /\ Step(k, [NoUpdate EXCEPT !.pc = "fetched", !.got = offer])
  /\ UNCHANGED <<index, indexed, watch, lost>>

\* replace_metadata moves the old index away, where there is one, before it puts in place
\* what has been downloaded.
MoveAside(k) ==
  /\ updates[k].pc = "fetched"
  /\ Step(k, [updates[k] EXCEPT !.pc = "moved", !.aside = index])
  /\ index' = NoIndex
  /\ watch' = Disturbed
  /\ UNCHANGED <<indexed, fetched, lost>>

PutInPlace(k) ==
  /\ updates[k].pc = "moved"
  /\ Step(k, [updates[k] EXCEPT !.pc = "placed", !.got = NoIndex])
  /\ index' = updates[k].got
  /\ indexed' = [f \in File |-> indexed[f] \cup {index'[f]}]
  /\ watch' = SeenBy(index')
  /\ UNCHANGED <<fetched, lost>>

\* The rest has failed: the index goes again, whoever's it is by now.
TakeBack(k) ==
  /\ updates[k].pc = "placed" /\ Fails
  /\ Step(k, [updates[k] EXCEPT !.pc = "taken"])
  /\ index' = NoIndex
  /\ watch' = Disturbed
  /\ UNCHANGED <<indexed, fetched>>

\* The end of a rollback: the old index comes back, over any that is in place.
Restore(k) ==
  /\ \/ updates[k].pc = "moved" /\ Fails
     \/ updates[k].pc = "taken" /\ UNCHANGED lost
  /\ updates[k].aside # NoIndex
  /\ Step(k, NoUpdate)
  /\ index' = updates[k].aside
  /\ watch' = SeenBy(index')
  /\ UNCHANGED <<indexed, fetched>>

\* It refuses what it has downloaded, is through, or has no index to bring back.
EndUpdate(k) ==
  /\ \/ updates[k].pc \in {"fetched", "placed"}
     \/ updates[k].pc = "taken" /\ updates[k].aside = NoIndex
  /\ Step(k, NoUpdate)
  /\ UNCHANGED <<index, indexed, watch, fetched, lost>>

\* Killed in between, it leaves the old index aside; with none aside, it may fail instead.
KillUpdate(k) ==
  /\ updates[k].pc \in {"moved", "taken"} /\ Fails
  /\ Step(k, NoUpdate)
  /\ UNCHANGED <<index, indexed, watch, fetched>>

-----------------------------------------------------------------------------
\* pux install and pux upgrade

\* What the resolver finds: the manifests of the index, or, where there is no index,
\* those of the packages in the directory (load_repository).
Manifests ==
  IF index # NoIndex THEN index ELSE cached

\* The plan for the wanted package, or none (pux_resolve_package_plan).
Plans == LET m == Manifests IN
  {PlanOf[c] : c \in {c \in Package : m[Wanted] = c
                        /\ \A i \in DOMAIN PlanOf[c] : m[PlanOf[c][i]] # Nothing}}

Set(p, state) == getting' = [getting EXCEPT ![p] = state] /\ UNCHANGED watch
GoTo(p, pc) == Set(p, [getting[p] EXCEPT !.pc = pc])
GoOnTo(p, pc) == Set(p, [getting[p] EXCEPT !.pos = @ + 1, !.pc = pc])
Stop(p) ==
  /\ getting' = [getting EXCEPT ![p] = NotGetting]
  /\ watch' = [watch EXCEPT ![p] = NoWatch]
Planned(p) == getting[p].plan[getting[p].pos]

Alone(p) == \A q \in Command \ {p} : getting[q].pc = "idle"

\* The index describes the repository, and nothing has been installed.
Settled == installed = NoFiles /\ index = server

\* A repository without an index or without a plan is passed over.
Begin(p) ==
  /\ getting[p].pc = "idle" /\ begun < MaxBegin /\ begun' = begun + 1
  /\ index # NoIndex /\ Plans # {}
  /\ \E job \in {"install", "upgrade"} :
       getting' = [getting EXCEPT ![p] = [NotGetting EXCEPT !.pc = "resolve", !.job = job]]
  /\ watch' = IF Alone(p)
                THEN [watch EXCEPT ![p] = [alone |-> TRUE, calm |-> Settled,
                                           forward |-> NotBehind(index), during |-> {index}]]
                ELSE [q \in Command |-> IF q = p \/ getting[q].pc # "idle" THEN Crowded
                                        ELSE NoWatch]
  /\ UNCHANGED <<cached, installed, lost>>

\* Where the index has been moved away meanwhile, the plan comes from the directory.
Resolve(p) ==
  /\ getting[p].pc = "resolve"
  /\ \/ Plans = {} /\ Stop(p)
     \/ \E plan \in Plans : Set(p, [getting[p] EXCEPT !.pc = "download", !.plan = plan])
  /\ UNCHANGED <<cached, installed, begun, lost>>

\* verify_file_against_repository_index, and pux_repo_verify_package, which does
\* without the size.
Fits(f, c) == c # Nothing /\ index[f] = c

\* Faulty variant: a package that is there is taken as it is.
DownloadMissing(p) ==
  /\ getting[p].pc = "download" /\ getting[p].pos <= Len(getting[p].plan)
  /\ LET f == Planned(p) IN
       \/ cached[f] # Nothing /\ GoOnTo(p, "download")
       \/ /\ cached[f] = Nothing
          /\ Set(p, [getting[p] EXCEPT !.temp = server[f], !.pc = "check"])
  /\ UNCHANGED <<cached, installed, begun, lost>>

\* download_remote_package: a package that is there and fits stays.
Download(p) ==
  /\ getting[p].pc = "download" /\ getting[p].pos <= Len(getting[p].plan)
  /\ LET f == Planned(p)
         fits == Fits(f, cached[f])
     IN \/ fits /\ GoOnTo(p, "download")
        \/ ~fits /\ Set(p, [getting[p] EXCEPT !.temp = server[f], !.pc = "check"])
  /\ UNCHANGED <<cached, installed, begun, lost>>

\* Faulty variant: any package will do.
CheckPackage(p) ==
  /\ getting[p].pc = "check"
  /\ IF getting[p].temp # Broken THEN GoTo(p, "rename") ELSE Stop(p)
  /\ UNCHANGED <<cached, installed, begun, lost>>

Check(p) ==
  /\ getting[p].pc = "check"
  /\ IF Fits(Planned(p), getting[p].temp) THEN GoTo(p, "rename") ELSE Stop(p)
  /\ UNCHANGED <<cached, installed, begun, lost>>

Rename(p) ==
  /\ getting[p].pc = "rename"
  /\ cached' = [cached EXCEPT ![Planned(p)] = getting[p].temp]
  /\ Set(p, [getting[p] EXCEPT !.temp = Nothing, !.pos = @ + 1, !.pc = "download"])
  /\ UNCHANGED <<installed, begun, lost>>

\* install_from_repository_policy and upgrade_from_repository_policy make a plan of
\* their own.
ResolveAgain(p) ==
  /\ getting[p].pc = "download" /\ getting[p].pos > Len(getting[p].plan)
  /\ \/ Plans = {} /\ Stop(p)
     \/ \E plan \in Plans :
          Set(p, [getting[p] EXCEPT !.pc = "verify", !.plan = plan, !.pos = 1])
  /\ UNCHANGED <<cached, installed, begun, lost>>

\* Faulty variant: what has been downloaded is not looked at again.
VerifyNothing(p) ==
  /\ getting[p].pc = "verify" /\ getting[p].pos <= Len(getting[p].plan)
  /\ IF getting[p].job = "upgrade" THEN GoTo(p, "install") ELSE GoOnTo(p, "verify")
  /\ UNCHANGED <<cached, installed, begun, lost>>

\* pux_repo_verify_package compares digests.  An install goes through all members,
\* none of which may be installed in another version, before it installs the first;
\* an upgrade verifies and executes them one by one.
Verify(p) ==
  /\ getting[p].pc = "verify" /\ getting[p].pos <= Len(getting[p].plan)
  /\ LET f == Planned(p)
         valid == Fits(f, cached[f])
         other == getting[p].job = "install" /\ installed[f] \notin {Nothing, cached[f]}
     IN \/ valid /\ getting[p].job = "upgrade" /\ GoTo(p, "install")
        \/ valid /\ getting[p].job = "install" /\ ~other /\ GoOnTo(p, "verify")
        \/ (~valid \/ other) /\ Stop(p)
  /\ UNCHANGED <<cached, installed, begun, lost>>

AllVerified(p) ==
  /\ getting[p].pc = "verify" /\ getting[p].job = "install"
  /\ getting[p].pos > Len(getting[p].plan)
  /\ Set(p, [getting[p] EXCEPT !.pc = "install", !.pos = 1])
  /\ UNCHANGED <<cached, installed, begun, lost>>

\* Where a command goes when it is done with a member.
After(p) == IF getting[p].job = "install" THEN "install" ELSE "verify"

\* The dependencies that the package in file f has.
DependsOn(f) ==
  IF f = Wanted THEN {PlanOf[cached[f]][i] : i \in DOMAIN PlanOf[cached[f]]} \ {f} ELSE {}

\* Nothing to be done: the package is installed, in this or in a newer version.
UpToDate(p) == LET f == Planned(p) IN
  /\ installed[f] # Nothing
  /\ IF getting[p].job = "install" THEN installed[f] = cached[f]
     ELSE Age[installed[f]] >= Age[cached[f]]

\* The engine reads the package again, where it lies.
Accepts(p) == LET f == Planned(p) IN
  /\ getting[p].job = "install" => installed[f] = Nothing
  /\ \A g \in DependsOn(f) : installed[g] # Nothing

Install(p) ==
  /\ getting[p].pc = "install" /\ getting[p].pos <= Len(getting[p].plan)
  /\ LET f == Planned(p)
         took == IF UpToDate(p) /\ installed[f] # cached[f] THEN {} ELSE {f}
         onward == Set(p, [getting[p] EXCEPT !.pos = @ + 1, !.pc = After(p),
                                           !.took = @ \cup took])
     IN \/ UpToDate(p) /\ onward /\ UNCHANGED installed
        \/ ~UpToDate(p) /\ Accepts(p) /\ onward
             /\ installed' = [installed EXCEPT ![f] = cached[f]]
        \/ ~UpToDate(p) /\ ~Accepts(p) /\ Stop(p) /\ UNCHANGED installed
  /\ UNCHANGED <<cached, begun, lost>>

Done(p) ==
  /\ getting[p].pc = After(p) /\ getting[p].pos > Len(getting[p].plan)
  /\ GoTo(p, "done")
  /\ UNCHANGED <<cached, installed, begun, lost>>

Report(p) == getting[p].pc = "done" /\ Stop(p) /\ UNCHANGED <<cached, installed, begun, lost>>

-----------------------------------------------------------------------------
\* Faults

\* A download that is left over has a name of its own and is no package.
Fault(p) ==
  /\ getting[p].pc \notin {"idle", "done"} /\ Fails
  /\ Stop(p)
  /\ UNCHANGED <<cached, installed, begun>>

\* The server sends something else.
BadDownload(p) ==
  /\ getting[p].pc = "check" /\ getting[p].temp # Broken /\ Fails
  /\ getting' = [getting EXCEPT ![p].temp = Broken]
  /\ watch' = Disturbed
  /\ UNCHANGED <<cached, installed, begun>>

-----------------------------------------------------------------------------
Publisher == Publish \/ CreateIndex
Updater(k) == Fetch(k) \/ MoveAside(k) \/ PutInPlace(k)
                \/ TakeBack(k) \/ Restore(k) \/ EndUpdate(k) \/ KillUpdate(k)
Work(p) == Resolve(p) \/ Download(p) \/ Check(p) \/ Rename(p) \/ ResolveAgain(p)
             \/ Verify(p) \/ AllVerified(p) \/ Install(p) \/ Done(p) \/ Report(p)
Installer(p) == Begin(p) \/ Work(p) \/ Fault(p) \/ BadDownload(p)

CacheNext ==
  \/ Publisher /\ UNCHANGED <<updating, installing, lost>>
  \/ (\E k \in Update : Updater(k)) /\ UNCHANGED <<publishing, installing>>
  \/ (\E p \in Command : Installer(p)) /\ UNCHANGED <<publishing, updating>>

CacheSpec == CacheInit /\ [][CacheNext]_cacheVars

-----------------------------------------------------------------------------
\* Properties

\* "Package archives [...] must match the cached index size and SHA-256 before
\* installation": whatever is installed has had the digest of its entry in an index in
\* the local directory, also where the directory is shared and a download goes wrong.
InstalledWasIndexed ==
  \A f \in File : installed[f] # Nothing => installed[f] \in indexed[f]

\* Each package that a command takes in a directory of its own when it succeeds is from
\* an index that was in place meanwhile, whatever the publisher and any number of updates
\* do between its many looks at the index and its downloads; and all are from one such
\* index, unless the index went back, by a rollback or an update that another overtook.
SuccessIsOneIndex ==
  \A p \in Command : getting[p].pc = "done" /\ watch[p].alone =>
    /\ \A f \in getting[p].took : \E i \in watch[p].during : installed[f] = i[f]
    /\ watch[p].forward =>
         \E i \in watch[p].during : \A f \in getting[p].took : installed[f] = i[f]

\* Where the index describes the repository and has a plan, a first install or upgrade
\* in a directory of its own succeeds, whatever earlier commands have downloaded.
CalmSucceeds ==
  [][\A p \in Command : getting[p].pc \notin {"idle", "done"} /\ getting'[p].pc = "idle"
         /\ lost' = lost => ~watch[p].calm]_cacheVars
=============================================================================
