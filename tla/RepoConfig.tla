------------------------------ MODULE RepoConfig -----------------------------
(***************************************************************************)
(* The configured repositories as files (src/src/config.c), and the        *)
(* commands that go through all of them (src/src/cli.c): how <name>.conf   *)
(* is written, removed and loaded while other commands do the same.        *)
(*                                                                         *)
(* Every add of a name writes the same temporary file <name>.tmp, so two   *)
(* adds may hold one file open, also after one of them has renamed it.  at *)
(* says under which path the file a command has open is found now.  A step *)
(* is one system call, or those that load one file or try one repository.  *)
(***************************************************************************)
EXTENDS Integers, FiniteSets

CONSTANTS
  Repo,      \* repository names
  Rank,      \* their order under strcmp
  Entry,     \* the settings of a repository
  Size,      \* the length of the text of an entry
  Priority,  \* the priority an entry sets
  Enabled,   \* the entries that enable their repository
  Empty,     \* the content of a file that has been opened for writing
  Torn,      \* the content of a file that no load accepts
  NoConf,    \* no file, and no name
  ConfProc,  \* the running commands
  ConfRuns,  \* ConfRuns[p]: what p runs, one after the other
  MaxRepositories,  \* PUX_CONFIG_MAX_REPOSITORIES
  ConfLimit  \* bound: how many calls fail and processes are killed, together

ConfConstantsOK ==
  /\ Rank \in [Repo -> Int] /\ \A m, n \in Repo : Rank[m] = Rank[n] => m = n
  /\ Size \in [Entry -> Nat] /\ Priority \in [Entry -> Nat] /\ Enabled \subseteq Entry
  /\ Cardinality({Empty, Torn, NoConf}) = 3 /\ {Empty, Torn, NoConf} \cap Entry = {}
  /\ ConfRuns \in [ConfProc -> SUBSET {"add", "remove", "list", "update", "search"}]
  /\ MaxRepositories \in Nat /\ ConfLimit \in Nat

ASSUME ConfConstants == ConfConstantsOK

VARIABLES
  conf,      \* conf[n]: the content of <n>.conf, NoConf if there is none
  tmp,       \* tmp[n]: the content of <n>.tmp
  cmd,       \* the command each process is running
  overlap,   \* whether two adds of one name may run at the same time: it never changes
  reported,  \* history: how an add or a remove ended in the step before, if one did
  faults     \* how many calls have failed and processes have been killed

confVars == <<conf, tmp, cmd, overlap, reported, faults>>

Content == Entry \cup {Empty, Torn, NoConf}
CmdJob == {"none", "add", "remove", "list", "update", "search"}
CmdStage == {"idle", "open", "write", "install", "drop", "unlink", "load", "visit", "done"}

\* todo are the files to load, got the repositories loaded; of the enabled ones, won
\* and lost are those tried with success and without.  removed: history, the names
\* somebody has removed during the load; hurt: history, a call has failed; met: history,
\* another add of the name has run at the same time.
Cmd == [job : CmdJob, pc : CmdStage, name : Repo \cup {NoConf}, entry : Entry \cup {NoConf},
        at : {"none", "temp", "live", "gone"}, todo : SUBSET Repo,
        got : SUBSET (Repo \X Entry), won : SUBSET Repo, lost : SUBSET Repo,
        removed : SUBSET Repo, hurt : BOOLEAN, met : BOOLEAN]
NoCmd == [job |-> "none", pc |-> "idle", name |-> NoConf, entry |-> NoConf, at |-> "none",
          todo |-> {}, got |-> {}, won |-> {}, lost |-> {}, removed |-> {}, hurt |-> FALSE,
          met |-> FALSE]

ConfTypeOK ==
  /\ conf \in [Repo -> Content]
  /\ tmp \in [Repo -> Content]
  /\ cmd \in [ConfProc -> Cmd]
  /\ \A p \in ConfProc : cmd[p].pc = "idle" => cmd[p] = NoCmd
  /\ overlap \in BOOLEAN
  /\ reported \in {"none", "ok", "failed", "killed"}
  /\ faults \in Nat

ConfInit ==
  /\ conf = [n \in Repo |-> NoConf]
  /\ tmp = [n \in Repo |-> NoConf]
  /\ cmd = [p \in ConfProc |-> NoCmd]
  /\ overlap \in BOOLEAN
  /\ reported = "none"
  /\ faults = 0

-----------------------------------------------------------------------------
ConfAt(p, job, stage) == cmd[p].job = job /\ cmd[p].pc = stage
ConfGoTo(p, stage) == cmd' = [cmd EXCEPT ![p].pc = stage] /\ reported' = "none"

ConfEnd(p, outcome) ==
  /\ cmd' = [cmd EXCEPT ![p] = NoCmd]
  /\ reported' = IF cmd[p].job \in {"add", "remove"} THEN outcome ELSE "none"

ConfEnter(p, c) ==
  /\ cmd[p].pc = "idle" /\ c.job \in ConfRuns[p]
  /\ cmd' = [cmd EXCEPT ![p] = c]
  /\ reported' = "none"
  /\ UNCHANGED <<conf, tmp, faults>>

\* The open files that path points to, a path of the repository n, are now found at
\* the path to.
Moved(c, n, path, to) ==
  [q \in ConfProc |->
    IF c[q].name = n /\ c[q].at = path THEN [c[q] EXCEPT !.at = to] ELSE c[q]]

\* What is in a file when new is written over old from its beginning.  A longer text
\* sticks out, and what sticks out is a line no load accepts or a setting given twice.
Overlay(old, new) ==
  CASE old = Torn -> {new, Torn}
    [] old \in Entry -> {IF Size[old] > Size[new] + 1 THEN Torn ELSE new}
    [] OTHER -> {new}

\* The file that p has open gets content c.
Fill(p, c) ==
  LET n == cmd[p].name IN
  /\ tmp' = IF cmd[p].at = "temp" THEN [tmp EXCEPT ![n] = c] ELSE tmp
  /\ conf' = IF cmd[p].at = "live" THEN [conf EXCEPT ![n] = c] ELSE conf

-----------------------------------------------------------------------------
\* pux_repo_config_add, write_entry_file

ConfAdd(p) == \E n \in Repo, e \in Entry :
  LET rivals == {q \in ConfProc : cmd[q].job = "add" /\ cmd[q].name = n}
      started == [NoCmd EXCEPT !.job = "add", !.pc = "open", !.name = n, !.entry = e,
                                !.met = rivals # {}]
  IN /\ cmd[p].pc = "idle" /\ "add" \in ConfRuns[p]
     /\ overlap \/ rivals = {}
     /\ cmd' = [q \in ConfProc |-> IF q = p THEN started
                              ELSE [cmd[q] EXCEPT !.met = @ \/ q \in rivals]]
     /\ reported' = "none"
     /\ UNCHANGED <<conf, tmp, faults>>

\* Faulty variants: the settings are written in place; a temporary file that is
\* there already is written over.
OpenInPlace(p) ==
  /\ ConfAt(p, "add", "open")
  /\ conf' = [conf EXCEPT ![cmd[p].name] = Empty]
  /\ cmd' = [cmd EXCEPT ![p].pc = "write", ![p].at = "live"]
  /\ reported' = "none"
  /\ UNCHANGED <<tmp, faults>>
OpenTempToUpdate(p) ==
  /\ ConfAt(p, "add", "open")
  /\ tmp' = [tmp EXCEPT ![cmd[p].name] = IF @ = NoConf THEN Empty ELSE @]
  /\ cmd' = [cmd EXCEPT ![p].pc = "write", ![p].at = "temp"]
  /\ reported' = "none"
  /\ UNCHANGED <<conf, faults>>

\* fopen "wb": a temporary file that is there already is truncated.
OpenTemp(p) ==
  /\ ConfAt(p, "add", "open")
  /\ tmp' = [tmp EXCEPT ![cmd[p].name] = Empty]
  /\ cmd' = [cmd EXCEPT ![p].pc = "write", ![p].at = "temp"]
  /\ reported' = "none"
  /\ UNCHANGED <<conf, faults>>

\* fprintf, fflush, fsync, fclose.
WriteTemp(p) ==
  /\ ConfAt(p, "add", "write")
  /\ LET old == CASE cmd[p].at = "temp" -> tmp[cmd[p].name]
                  [] cmd[p].at = "live" -> conf[cmd[p].name]
                  [] OTHER -> Empty
     IN \E c \in Overlay(old, cmd[p].entry) : Fill(p, c)
  /\ cmd' = [cmd EXCEPT ![p].pc = "install", ![p].at = "none"]
  /\ reported' = "none"
  /\ UNCHANGED faults

\* chmod and rename, which take whatever file has the temporary name by now.
Install(p) ==
  /\ ConfAt(p, "add", "install")
  /\ LET n == cmd[p].name IN
     \/ /\ tmp[n] # NoConf
        /\ conf' = [conf EXCEPT ![n] = tmp[n]]
        /\ tmp' = [tmp EXCEPT ![n] = NoConf]
        /\ cmd' = [Moved(Moved(cmd, n, "live", "gone"), n, "temp", "live")
                      EXCEPT ![p].pc = "done"]
     \/ /\ tmp[n] = NoConf
        /\ cmd' = [cmd EXCEPT ![p].pc = "drop"]
        /\ UNCHANGED <<conf, tmp>>
  /\ reported' = "none"
  /\ UNCHANGED faults

\* unlink(temp) after a failure; p has closed its file.
Drop(p) ==
  /\ ConfAt(p, "add", "drop")
  /\ tmp' = [tmp EXCEPT ![cmd[p].name] = NoConf]
  /\ cmd' = [Moved(cmd, cmd[p].name, "temp", "gone") EXCEPT ![p] = NoCmd]
  /\ reported' = "failed"
  /\ UNCHANGED <<conf, faults>>

-----------------------------------------------------------------------------
\* pux_repo_config_remove

ConfRemove(p) == \E n \in Repo :
  ConfEnter(p, [NoCmd EXCEPT !.job = "remove", !.pc = "unlink", !.name = n])

Unlink(p) ==
  /\ ConfAt(p, "remove", "unlink")
  /\ LET n == cmd[p].name
         noted == [q \in ConfProc |-> IF cmd[q].pc = "load"
                                  THEN [cmd[q] EXCEPT !.removed = @ \cup {n}] ELSE cmd[q]]
     IN IF conf[n] = NoConf
        THEN ConfEnd(p, "failed") /\ UNCHANGED conf
        ELSE /\ conf' = [conf EXCEPT ![n] = NoConf]
             /\ cmd' = [Moved(noted, n, "live", "gone") EXCEPT ![p].pc = "done"]
             /\ reported' = "none"
  /\ UNCHANGED <<tmp, faults>>

-----------------------------------------------------------------------------
\* pux_repo_config_load_all, for the commands that go through the repositories

\* Faulty variant: readdir returns the temporary files too.
LoadAnyFile(p) == \E job \in {"list", "update", "search"} :
  ConfEnter(p, [NoCmd EXCEPT !.job = job, !.pc = "load",
                             !.todo = {n \in Repo : conf[n] # NoConf \/ tmp[n] # NoConf}])

Load(p) == \E job \in {"list", "update", "search"} :
  ConfEnter(p, [NoCmd EXCEPT !.job = job, !.pc = "load",
                             !.todo = {n \in Repo : conf[n] # NoConf}])

LoadNext(p) ==
  /\ cmd[p].pc = "load"
  /\ \E n \in cmd[p].todo :
       /\ conf[n] \in Entry
       /\ Cardinality(cmd[p].got) < MaxRepositories
       /\ cmd' = [cmd EXCEPT ![p].todo = @ \ {n}, ![p].got = @ \cup {<<n, conf[n]>>}]
  /\ reported' = "none"
  /\ UNCHANGED <<conf, tmp, faults>>

\* One file that is gone or unreadable, or one too many, and the command ends.
LoadFails(p) ==
  /\ cmd[p].pc = "load"
  /\ \E n \in cmd[p].todo :
       conf[n] \notin Entry \/ Cardinality(cmd[p].got) >= MaxRepositories
  /\ ConfEnd(p, "failed")
  /\ UNCHANGED <<conf, tmp, faults>>

LoadEnds(p) ==
  /\ cmd[p].pc = "load" /\ cmd[p].todo = {}
  /\ ConfGoTo(p, IF cmd[p].job = "list" THEN "done" ELSE "visit")
  /\ UNCHANGED <<conf, tmp, faults>>

\* The enabled repositories in the order of entry_compare.
Before(x, y) ==
  \/ Priority[x[2]] > Priority[y[2]]
  \/ Priority[x[2]] = Priority[y[2]] /\ Rank[x[1]] < Rank[y[1]]
Waiting(c) == {x \in c.got : x[2] \in Enabled /\ x[1] \notin c.won \cup c.lost}
Best(S) == CHOOSE x \in S : \A y \in S \ {x} : Before(x, y)

\* Faulty variant: the first failure ends the command.
VisitOrEnd(p) ==
  /\ cmd[p].pc = "visit" /\ Waiting(cmd[p]) # {}
  /\ LET n == Best(Waiting(cmd[p]))[1] IN
       \/ cmd' = [cmd EXCEPT ![p].won = @ \cup {n}] /\ reported' = "none"
       \/ ConfEnd(p, "failed")
  /\ UNCHANGED <<conf, tmp, faults>>

\* configured_repo_update, or the search of one index: it succeeds or it fails.
Visit(p) ==
  /\ cmd[p].pc = "visit" /\ Waiting(cmd[p]) # {}
  /\ LET n == Best(Waiting(cmd[p]))[1] IN
       \/ cmd' = [cmd EXCEPT ![p].won = @ \cup {n}]
       \/ cmd' = [cmd EXCEPT ![p].lost = @ \cup {n}]
  /\ reported' = "none"
  /\ UNCHANGED <<conf, tmp, faults>>

\* An update succeeds if every enabled repository was updated, a search if one could
\* be searched; both fail if none is enabled.
Successful(c) == c.won # {} /\ (c.job = "update" => c.lost = {})

VisitEnds(p) ==
  /\ cmd[p].pc = "visit" /\ Waiting(cmd[p]) = {}
  /\ IF Successful(cmd[p]) THEN ConfGoTo(p, "done") ELSE ConfEnd(p, "failed")
  /\ UNCHANGED <<conf, tmp, faults>>

-----------------------------------------------------------------------------
ConfReturn(p) ==
  /\ cmd[p].pc = "done"
  /\ ConfEnd(p, "ok")
  /\ UNCHANGED <<conf, tmp, faults>>

\* A call fails.  Where writing fails, a part of the text may have been written.
ConfFault(p) ==
  /\ faults < ConfLimit /\ faults' = faults + 1
  /\ \/ /\ cmd[p].pc \in {"open", "unlink", "load"}
        /\ ConfEnd(p, "failed") /\ UNCHANGED <<conf, tmp>>
     \/ /\ cmd[p].pc \in {"write", "install"}
        /\ IF cmd[p].pc = "write" THEN Fill(p, Torn) ELSE UNCHANGED <<conf, tmp>>
        /\ cmd' = [cmd EXCEPT ![p].pc = "drop", ![p].at = "none", ![p].hurt = TRUE]
        /\ reported' = "none"

\* The process is killed: the temporary file stays.
ConfCrash(p) ==
  /\ cmd[p].pc # "idle"
  /\ faults < ConfLimit /\ faults' = faults + 1
  /\ ConfEnd(p, "killed")
  /\ UNCHANGED <<conf, tmp>>

ConfWork(p) ==
  \/ OpenTemp(p) \/ WriteTemp(p) \/ Install(p) \/ Drop(p) \/ Unlink(p)
  \/ LoadNext(p) \/ LoadFails(p) \/ LoadEnds(p) \/ Visit(p) \/ VisitEnds(p) \/ ConfReturn(p)

ConfNext == \E p \in ConfProc :
  /\ ConfAdd(p) \/ ConfRemove(p) \/ Load(p) \/ ConfWork(p) \/ ConfFault(p) \/ ConfCrash(p)
  /\ UNCHANGED overlap

ConfSpec == ConfInit /\ [][ConfNext]_confVars

-----------------------------------------------------------------------------
\* Properties

\* What a command is to the store.
ConfPhase(c) == IF c.pc = "done" THEN "done" ELSE "begun"
AsCall(c) ==
  CASE c.job = "add" ->
         [op |-> "put", name |-> c.name, value |-> c.entry, phase |-> ConfPhase(c)]
    [] c.job = "remove" ->
         [op |-> "delete", name |-> c.name, value |-> NoConf, phase |-> ConfPhase(c)]
    [] OTHER ->
         [op |-> "none", name |-> NoConf, value |-> NoConf, phase |-> "none"]
StoreCalls == [p \in ConfProc |-> AsCall(cmd[p])]

ConfStore == INSTANCE AtomicFiles WITH
  file <- conf, call <- StoreCalls, ended <- reported,
  Name <- Repo, Value <- Entry, None <- NoConf, Proc <- ConfProc

\* Where no two adds of one name overlap, the configurations are atomic files: an
\* add or a remove takes effect in one step exactly if it is reported to, whatever
\* fails and whoever is killed.
ConfigStoreSpec ==
  /\ ~overlap => ConfStore!Init
  /\ [][~overlap => [ConfStore!Next]_(ConfStore!vars)]_confVars

\* "Configuration writes use a temporary file followed by rename() so a partially
\* written configuration is not exposed."
NotPartlyExposed == \A n \in Repo : conf[n] \notin {Empty, Torn}

\* Without overlapping adds a load finds a file missing or unreadable only if that
\* repository was removed during the load: no add, complete or not, makes one fail.
LoadFailsForCause ==
  ~overlap => \A p \in ConfProc : cmd[p].pc = "load" =>
    \A n \in cmd[p].todo :
      \/ conf[n] \in Entry \/ n \in cmd[p].removed

\* An add that runs alone is a repair: unless a call of its own fails or it is killed
\* it succeeds, and then the settings are exactly its own, whatever adds that
\* overlapped, failed or were killed before it have left behind.
LoneAddInstalls ==
  [][\A p \in ConfProc : cmd[p].job = "add" /\ ~cmd[p].met =>
       /\ cmd[p].pc = "install" /\ cmd'[p].pc = "done" =>
            conf'[cmd[p].name] = cmd[p].entry
       /\ cmd'[p] = NoCmd /\ reported' = "failed" =>
            cmd[p].hurt \/ faults' # faults]_confVars

\* An update or a search that gets through has tried every repository that was
\* enabled when it loaded them, whether others failed or not, and an update reports
\* success only if every one of them was updated.
EveryEnabledTried ==
  [][\A p \in ConfProc :
       cmd[p].pc = "visit" /\ cmd'[p].pc \in {"done", "idle"} /\ faults' = faults =>
         LET enabled == {x[1] : x \in {y \in cmd[p].got : y[2] \in Enabled}} IN
         /\ enabled = cmd[p].won \cup cmd[p].lost
         /\ cmd[p].job = "update" /\ cmd'[p].pc = "done" => enabled = cmd[p].won]_confVars
=============================================================================
