------------------------------ MODULE PackageDb ------------------------------
(***************************************************************************)
(* The installed-package database of pux (src/src/db.c) and the questions  *)
(* the transaction engine asks of it.                                      *)
(*                                                                         *)
(* The database directory holds one <name>.record file per installed       *)
(* package: its manifest and its list of owned paths.  Both are copied     *)
(* from the package archive, so a record is modelled by the archive it was *)
(* written from and the database by a function from names to archives.     *)
(*                                                                         *)
(* Here and in the other modules a "faulty variant" is a definition the    *)
(* specification does not use: it is its neighbour below with a bug in it, *)
(* and a property that is checked fails when it takes that one's place.    *)
(***************************************************************************)
EXTENDS Integers, FiniteSets

CONSTANTS
  Name,      \* package names
  Pkg,       \* package archives (.pux files)
  NoPkg,     \* "there is no record of this name"
  Path,      \* the paths below the installation root
  Tag,       \* contents of files and targets of links
  NoTag,     \* the tag of what has neither
  Version,   \* versions, in manifests and in constraints
  Cap,       \* what a dependency can name: package names and capabilities
  NameOf, VersionOf, ReleaseOf, Depends, Provides, Conflicts,  \* manifests
  Payload,   \* Payload[a][q]: what archive a holds at path q
  DbCmp,     \* DbCmp[<<v, w>>]: the sign of db_compare_version(v, w)
  TxCmp      \* TxCmp[<<v, w>>]: the sign of compare_version_local(v, w)

\* What a path holds: nothing, a directory, a regular file or a symbolic link.
Kind   == {"none", "d", "f", "l"}
Node   == [kind : Kind, tag : Tag]
Absent == [kind |-> "none", tag |-> NoTag]
Dir    == [kind |-> "d", tag |-> NoTag]

\* A dependency expression: a capability, alone or with a version constraint.
Op  == {"any", "eq", "lt", "le", "gt", "ge"}
Dep == [cap : Cap, op : Op, ver : Version]

ASSUME NamesAssumption ==
  /\ Name \subseteq Cap
  /\ NoPkg \notin Pkg
  /\ NoTag \in Tag

ASSUME ManifestAssumption ==
  /\ NameOf \in [Pkg -> Name]
  /\ VersionOf \in [Pkg -> Version]
  /\ ReleaseOf \in [Pkg -> Nat]
  /\ Depends \in [Pkg -> SUBSET Dep]
  /\ Provides \in [Pkg -> SUBSET Cap]
  /\ Conflicts \in [Pkg -> SUBSET Dep]
  /\ Payload \in [Pkg -> [Path -> Node]]

ASSUME ComparatorAssumption ==
  /\ DbCmp \in [Version \X Version -> {-1, 0, 1}]
  /\ TxCmp \in [Version \X Version -> {-1, 0, 1}]

-----------------------------------------------------------------------------
\* Archives and records

Entries(a) == {q \in Path : Payload[a][q].kind # "none"}
Files(a)   == {q \in Path : Payload[a][q].kind \in {"f", "l"}}
Dirs(a)    == {q \in Path : Payload[a][q].kind = "d"}

Records == [Name -> Pkg \cup {NoPkg}]
Installed(db) == {n \in Name : db[n] # NoPkg}

-----------------------------------------------------------------------------
\* Dependencies

OpHolds(op, c) ==
  \/ op = "eq" /\ c = 0
  \/ op = "lt" /\ c < 0
  \/ op = "le" /\ c <= 0
  \/ op = "gt" /\ c > 0
  \/ op = "ge" /\ c >= 0

\* manifest_has_capability
HasCapability(a, cap) == NameOf[a] = cap \/ cap \in Provides[a]

\* An unversioned dependency is met by a name or a provided capability, a
\* versioned one only by a package of that very name.
Meets(cmp, a, dep) ==
  \/ dep.op = "any" /\ HasCapability(a, dep.cap)
  \/ /\ dep.op # "any"
     /\ NameOf[a] = dep.cap
     /\ OpHolds(dep.op, cmp[<<VersionOf[a], dep.ver>>])

\* db_requirement_matches
RequirementMatches(a, dep) == Meets(DbCmp, a, dep)

\* upgrade_requirement_satisfied_by_manifest: the same with the comparator of
\* the transaction engine.
SatisfiedByManifest(a, dep) == Meets(TxCmp, a, dep)

\* pux_db_dependency_satisfied
DependencySatisfied(db, dep) ==
  \E n \in Installed(db) : RequirementMatches(db[n], dep)

\* Faulty variant: the package that is to go counts as its own substitute.
HasReverseDependencyBesideItself(db, target) ==
  \E n \in Installed(db) \ {NameOf[target]} : \E dep \in Depends[db[n]] :
     /\ RequirementMatches(target, dep)
     /\ ~DependencySatisfied(db, dep)

\* pux_db_find_reverse_dependency: some other package needs the target, and no
\* third one would do instead.
HasReverseDependency(db, target) ==
  LET others == Installed(db) \ {NameOf[target]} IN
  \E n \in others : \E dep \in Depends[db[n]] :
     /\ RequirementMatches(target, dep)
     /\ \A m \in others : ~RequirementMatches(db[m], dep)

-----------------------------------------------------------------------------
\* The checks the transaction engine makes before it installs or upgrades
\* (src/src/transaction.c)

\* dependency_check
DependenciesMet(db, a) == \A dep \in Depends[a] : DependencySatisfied(db, dep)

\* dependency_check_for_replacement: what the new archive needs is met by itself
\* or by the other installed packages; an unversioned need that the old version
\* met has to be met by the new one.
ReplacementMet(db, new, old) ==
  \A dep \in Depends[new] :
    \/ SatisfiedByManifest(new, dep)
    \/ /\ ~(dep.op = "any" /\ HasCapability(old, dep.cap))
       /\ dep.cap # NameOf[new]
       /\ DependencySatisfied(db, dep)

\* upgrade_plan_dependent_check: every other package whose dependency names
\* something of the old version has to be content with the new one.
DependentsMet(db, new, old) ==
  \A n \in Installed(db) \ {NameOf[old]} : \A dep \in Depends[db[n]] :
    HasCapability(old, dep.cap) => SatisfiedByManifest(new, dep)

\* Faulty variant: only the conflicts the new archive declares.
ConflictFreeOneWay(db, new, old) ==
  /\ \A c \in Conflicts[new] : c.op = "any"
  /\ \A n \in Installed(db) \ {NameOf[old]} :
       \A c \in Conflicts[new] : ~HasCapability(db[n], c.cap)

\* upgrade_conflict_check: no conflict in either direction; a conflict with a
\* version constraint makes the check fail.
ConflictFree(db, new, old) ==
  /\ \A c \in Conflicts[new] : c.op = "any"
  /\ \A n \in Installed(db) \ {NameOf[old]} :
       /\ \A c \in Conflicts[new] : ~HasCapability(db[n], c.cap)
       /\ \A c \in Conflicts[db[n]] : c.op = "any" /\ ~HasCapability(new, c.cap)

-----------------------------------------------------------------------------
\* Versions

\* Faulty variant: another version is a newer one.
NewerOrOther(a, b) ==
  VersionOf[a] # VersionOf[b] \/ ReleaseOf[a] > ReleaseOf[b]

\* pux_upgrade_package: an archive is newer by version, or by release at the
\* same version.
Newer(a, b) ==
  LET c == TxCmp[<<VersionOf[a], VersionOf[b]>>]
  IN  c > 0 \/ (c = 0 /\ ReleaseOf[a] > ReleaseOf[b])

-----------------------------------------------------------------------------
\* Ownership

\* The packages that record a path.  db_find_owner_excluding returns the first
\* of them in directory order, which is no order one can rely on.
Owners(db, q) == {n \in Installed(db) : q \in Entries(db[n])}

\* pux_db_find_other_owner
OwnedElsewhere(db, q, name) == Owners(db, q) \ {name} # {}

-----------------------------------------------------------------------------
\* Updates

\* pux_db_register_package: the record is written beside the old one, synced
\* and renamed over it, so that it changes in one step.
Registered(db, a) == [db EXCEPT ![NameOf[a]] = a]

\* Faulty variant: the name is forgotten together with its record.
UnregisteredName(db, name) == [n \in Name \ {name} |-> db[n]]

\* pux_db_unregister_package
Unregistered(db, name) == [db EXCEPT ![name] = NoPkg]
=============================================================================
