------------------------------ MODULE RepoUpdate -----------------------------
(***************************************************************************)
(* pux update: fetching the metadata of a repository into its local        *)
(* directory (src/src/update.c).                                           *)
(*                                                                         *)
(* The metadata are two files, index.pux and index.pux.sig.  An edition of *)
(* them is a number, and a signature fits the index of its own edition; 0  *)
(* stands for a file that is not there.  The server changes its two files  *)
(* one after the other, and so does replace_metadata in the local          *)
(* directory, which nothing locks.  A step is one download, one look or    *)
(* one system call that changes the local directory.                       *)
(***************************************************************************)
EXTENDS Naturals

CONSTANTS
  Proc,        \* the running pux update commands
  Required,    \* those of them that require a signature
  LastEdition, \* bound: the editions the server publishes
  Limit        \* bound: how many calls fail and processes are killed, together

Edition == 0..LastEdition
Event == {"fault", "crash"}

ConstantsOK ==
  /\ LastEdition \in Nat
  /\ Limit \in Nat
  /\ Required \subseteq Proc

VARIABLES
  server,  \* the files of the remote repository
  cache,   \* the files of the local directory
  upd,     \* upd[p]: the update process p is running
  attic,   \* the backups that killed updates left behind
  current, \* history: the edition of the index the last successful update took
  met,     \* history: two updates have run at the same time
  before,  \* history: until then, the local files as the last update found them
  spent    \* how often each event has happened

updateVars == <<server, cache, upd, attic, current, met, before, spent>>

Metadata == [index : Edition, sig : Edition]
NoFiles == [index |-> 0, sig |-> 0]

\* Where an update is: downloading, replacing the files, or rolling back.
Stage == {"idle", "index", "signature", "look", "backup index", "backup signature",
          "commit index", "commit signature", "sync", "drop signature", "drop index",
          "restore index", "restore signature"}

\* stage holds the downloaded files, seen the old files replace_metadata found when
\* it looked, backup what it has moved aside, done what it has put in place.
Update == [pc : Stage, stage : Metadata, seen : SUBSET {"index", "sig"},
           backup : Metadata, done : SUBSET {"index", "sig"}]
NoUpdate == [pc |-> "idle", stage |-> NoFiles, seen |-> {}, backup |-> NoFiles, done |-> {}]

UpdateTypeOK ==
  /\ server \in Metadata /\ cache \in Metadata
  /\ upd \in [Proc -> Update]
  /\ \A p \in Proc : upd[p].pc = "idle" => upd[p] = NoUpdate
  /\ attic \subseteq Edition
  /\ current \in Edition
  /\ met \in BOOLEAN
  /\ before \in Metadata
  /\ spent \in [Event -> Nat]

UpdateInit ==
  /\ server = NoFiles /\ cache = NoFiles
  /\ upd = [p \in Proc |-> NoUpdate]
  /\ attic = {} /\ current = 0 /\ met = FALSE /\ before = NoFiles
  /\ spent = [e \in Event |-> 0]

-----------------------------------------------------------------------------
Idle(p) == upd[p].pc = "idle"
GoTo(p, stage) == upd' = [upd EXCEPT ![p].pc = stage]

EndUpdate(p) == upd' = [upd EXCEPT ![p] = NoUpdate]
Spend(e) == spent["fault"] + spent["crash"] < Limit /\ spent' = [spent EXCEPT ![e] = @ + 1]

\* Faulty variant: the new index stays.
RollBackBackups(p) == GoTo(p, "restore index")

\* The rollback part of replace_metadata.
RollBack(p) == GoTo(p, "drop signature")

-----------------------------------------------------------------------------
\* Downloading into the staging directory

BeginUpdate(p) ==
  /\ Idle(p)
  /\ GoTo(p, "index")
  /\ met' = (met \/ \E q \in Proc \ {p} : ~Idle(q))
  /\ before' = IF met' THEN NoFiles ELSE cache
  /\ UNCHANGED <<server, cache, attic, current, spent>>

FetchIndex(p) ==
  /\ upd[p].pc = "index"
  /\ IF server.index = 0 THEN EndUpdate(p)
     ELSE upd' = [upd EXCEPT ![p].stage.index = server.index, ![p].pc = "signature"]
  /\ UNCHANGED <<server, cache, attic, current, met, before, spent>>

\* Faulty variant: that there is a signature is enough.
FetchAnySignature(p) ==
  /\ upd[p].pc = "signature"
  /\ IF p \in Required /\ server.sig = 0
     THEN EndUpdate(p)
     ELSE upd' = [upd EXCEPT ![p].stage.sig = server.sig, ![p].pc = "look"]
  /\ UNCHANGED <<server, cache, attic, current, met, before, spent>>

\* The signature is verified only where one is required (pux_trust_verify_repository).
FetchSignature(p) ==
  /\ upd[p].pc = "signature"
  /\ IF p \in Required /\ server.sig # upd[p].stage.index
     THEN EndUpdate(p)
     ELSE upd' = [upd EXCEPT ![p].stage.sig = server.sig, ![p].pc = "look"]
  /\ UNCHANGED <<server, cache, attic, current, met, before, spent>>

-----------------------------------------------------------------------------
\* replace_metadata

\* It looks for both old files before it moves the first one.
Look(p) ==
  /\ upd[p].pc = "look"
  /\ upd' = [upd EXCEPT ![p].seen = {f \in {"index", "sig"} : cache[f] # 0}, ![p].pc = "backup index"]
  /\ UNCHANGED <<server, cache, attic, current, met, before, spent>>

\* Faulty variant: the old file is unlinked.
BackUpIndexByUnlink(p) ==
  /\ upd[p].pc = "backup index"
  /\ cache' = [cache EXCEPT !.index = 0]
  /\ GoTo(p, "backup signature")
  /\ UNCHANGED <<server, attic, current, met, before, spent>>

\* rename fails where another update has moved the file away in the meantime.
BackUpIndex(p) ==
  /\ upd[p].pc = "backup index"
  /\ \/ /\ "index" \notin upd[p].seen
        /\ GoTo(p, "backup signature")
        /\ UNCHANGED cache
     \/ /\ "index" \in upd[p].seen /\ cache.index # 0
        /\ upd' = [upd EXCEPT ![p].backup.index = cache.index, ![p].pc = "backup signature"]
        /\ cache' = [cache EXCEPT !.index = 0]
     \/ /\ "index" \in upd[p].seen /\ cache.index = 0
        /\ EndUpdate(p)
        /\ UNCHANGED cache
  /\ UNCHANGED <<server, attic, current, met, before, spent>>

BackUpSignature(p) ==
  /\ upd[p].pc = "backup signature"
  /\ \/ /\ "sig" \notin upd[p].seen
        /\ GoTo(p, "commit index")
        /\ UNCHANGED cache
     \/ /\ "sig" \in upd[p].seen /\ cache.sig # 0
        /\ upd' = [upd EXCEPT ![p].backup.sig = cache.sig, ![p].pc = "commit index"]
        /\ cache' = [cache EXCEPT !.sig = 0]
     \/ /\ "sig" \in upd[p].seen /\ cache.sig = 0
        /\ GoTo(p, "restore index")
        /\ UNCHANGED cache
  /\ UNCHANGED <<server, attic, current, met, before, spent>>

CommitIndex(p) ==
  /\ upd[p].pc = "commit index"
  /\ cache' = [cache EXCEPT !.index = upd[p].stage.index]
  /\ upd' = [upd EXCEPT ![p].done = @ \cup {"index"}, ![p].pc = "commit signature"]
  /\ UNCHANGED <<server, attic, current, met, before, spent>>

\* Without a new signature there is none: the old one has been moved aside.
CommitSignature(p) ==
  /\ upd[p].pc = "commit signature"
  /\ IF upd[p].stage.sig = 0
     THEN GoTo(p, "sync") /\ UNCHANGED cache
     ELSE /\ cache' = [cache EXCEPT !.sig = upd[p].stage.sig]
          /\ upd' = [upd EXCEPT ![p].done = @ \cup {"sig"}, ![p].pc = "sync"]
  /\ UNCHANGED <<server, attic, current, met, before, spent>>

\* fsync_path; then the backups and the staging directory go.
Sync(p) ==
  /\ upd[p].pc = "sync"
  /\ current' = upd[p].stage.index
  /\ EndUpdate(p)
  /\ UNCHANGED <<server, cache, attic, met, before, spent>>

DropSignature(p) ==
  /\ upd[p].pc = "drop signature"
  /\ cache' = IF "sig" \in upd[p].done THEN [cache EXCEPT !.sig = 0] ELSE cache
  /\ GoTo(p, "drop index")
  /\ UNCHANGED <<server, attic, current, met, before, spent>>

DropIndex(p) ==
  /\ upd[p].pc = "drop index"
  /\ cache' = IF "index" \in upd[p].done THEN [cache EXCEPT !.index = 0] ELSE cache
  /\ GoTo(p, "restore index")
  /\ UNCHANGED <<server, attic, current, met, before, spent>>

RestoreIndex(p) ==
  /\ upd[p].pc = "restore index"
  /\ cache' = IF upd[p].backup.index = 0 THEN cache
              ELSE [cache EXCEPT !.index = upd[p].backup.index]
  /\ upd' = [upd EXCEPT ![p].backup.index = 0, ![p].pc = "restore signature"]
  /\ UNCHANGED <<server, attic, current, met, before, spent>>

RestoreSignature(p) ==
  /\ upd[p].pc = "restore signature"
  /\ cache' = IF upd[p].backup.sig = 0 THEN cache ELSE [cache EXCEPT !.sig = upd[p].backup.sig]
  /\ EndUpdate(p)
  /\ UNCHANGED <<server, attic, current, met, before, spent>>

-----------------------------------------------------------------------------
\* The environment

\* A download or a system call fails.  Before the first file has been moved, and
\* when that move fails, the update just ends; a signature that cannot be moved
\* aside brings the old index back; after that the rollback runs.
Fault(p) ==
  /\ \/ upd[p].pc \in {"index", "signature", "look", "backup index"} /\ EndUpdate(p)
     \/ upd[p].pc = "backup signature" /\ "sig" \in upd[p].seen /\ GoTo(p, "restore index")
     \/ upd[p].pc \in {"commit index", "commit signature", "sync"} /\ RollBack(p)
  /\ Spend("fault")
  /\ UNCHANGED <<server, cache, attic, current, met, before>>

\* The process is killed.  Its backups stay under names nothing looks for.
Crash(p) ==
  /\ ~Idle(p)
  /\ attic' = attic \cup ({upd[p].backup.index} \ {0})
  /\ EndUpdate(p)
  /\ Spend("crash")
  /\ UNCHANGED <<server, cache, current, met, before>>

\* The server gets a new index; its old signature stays for the time being, or
\* goes.  The signature for the new index comes later, or never.
Publish ==
  /\ server.index < LastEdition
  /\ \E sig \in {0, server.sig} : server' = [index |-> server.index + 1, sig |-> sig]
  /\ UNCHANGED <<cache, upd, attic, current, met, before, spent>>
Sign ==
  /\ server' = [server EXCEPT !.sig = server.index]
  /\ UNCHANGED <<cache, upd, attic, current, met, before, spent>>

UpdateWork(p) ==
  \/ FetchIndex(p) \/ FetchSignature(p) \/ Look(p) \/ BackUpIndex(p) \/ BackUpSignature(p)
  \/ CommitIndex(p) \/ CommitSignature(p) \/ Sync(p)
  \/ DropSignature(p) \/ DropIndex(p) \/ RestoreIndex(p) \/ RestoreSignature(p)

UpdateNext ==
  \/ \E p \in Proc : BeginUpdate(p) \/ UpdateWork(p) \/ Fault(p) \/ Crash(p)
  \/ Publish \/ Sign

\* A running update goes on: curl has a time limit, the rest is local.
UpdateSpec ==
  /\ UpdateInit /\ [][UpdateNext]_updateVars
  /\ \A p \in Proc : WF_updateVars(UpdateWork(p))

-----------------------------------------------------------------------------
\* Properties

Quiet == \A p \in Proc : Idle(p)

\* The update of p ends in this step, of its own accord.
Succeeds(p) == upd[p].pc = "sync" /\ Idle(p)' /\ spent' = spent
Fails(p) == ~Idle(p) /\ Idle(p)' /\ upd[p].pc # "sync" /\ spent'["crash"] = spent["crash"]

\* An update that fails leaves the local metadata as it found them, whatever
\* fails, as long as no other update runs beside it.
FailureKeepsMetadata ==
  [][\A p \in Proc : Fails(p) /\ ~met => cache' = before]_updateVars

\* An update that requires a signature and succeeds leaves an index with the
\* signature that fits it, also where the server changes between the downloads.
VerifiedPairTaken ==
  [][\A p \in Proc : Succeeds(p) /\ p \in Required /\ ~met =>
       cache'.index # 0 /\ cache'.sig = cache'.index]_updateVars

\* Whenever an update is killed, the index that the last successful one took is
\* in its place or in a backup, unless a later one has taken its place.  Updates that
\* get into each other's way may fail, but as long as no call fails by itself one of
\* their indexes is in place when they have ended.
IndexKept ==
  /\ ~met /\ current # 0 =>
       \/ cache.index >= current
       \/ \E e \in attic \cup {upd[p].backup.index : p \in Proc} : e >= current
  /\ Quiet /\ current # 0 /\ (\A e \in Event : spent[e] = 0) => cache.index # 0

\* Every update ends.
Terminates == \A p \in Proc : ~Idle(p) ~> Idle(p)
=============================================================================
