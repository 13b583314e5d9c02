-------------------------------- MODULE MCFiles -------------------------------
(***************************************************************************)
(* The small files that commands share: the package records, the           *)
(* configured repositories, and the keys and signatures.  They have        *)
(* nothing to do with each other, so that a behaviour is about one of      *)
(* them, and the variables of the others keep their initial values:        *)
(*                                                                         *)
(*   records   two processes write, unlink and read two records            *)
(*   scans     one writes and unlinks two records, another lists them      *)
(*   config    two processes add and remove two repositories, the adds of  *)
(*             one name not at the same time                               *)
(*   through   one does, while the other goes through the repositories     *)
(*   overlap   two processes add and remove one repository at will         *)
(*   trust     one changes keys and signatures while another verifies      *)
(*   keygen    one generates key pairs while another trusts and revokes    *)
(*                                                                         *)
(* One call fails or one command is killed.                                *)
(***************************************************************************)
EXTENDS RecordStore, RepoConfig, TrustStore

VARIABLE part  \* which of the above

MCProc == {"p1", "p2"}
MCName == {"a", "b"}
MCRecord == {"r1", "r2"}
Writers == [p \in MCProc |-> {"register", "unregister", "info"}]
WriteAndList == [p \in MCProc |-> IF p = "p1" THEN {"register", "unregister"} ELSE {"list"}]
Readers == INSTANCE RecordStore WITH Runs <- Writers
records == <<live, temp, call, ended, watch, spent>>

-----------------------------------------------------------------------------
MCRepo == {"main", "extra"}
MCRank == [n \in MCRepo |-> IF n = "main" THEN 2 ELSE 1]
\* The settings differ in length and in whether they enable their repository.
Settings == {"long", "off"}
MCEnabled == {"long"}
MCSize == [e \in Settings |-> IF e = "long" THEN 90 ELSE 70]
MCPriority == [e \in Settings |-> 100]
Adders == [p \in MCProc |-> {"add", "remove"}]
AddAndUpdate == [p \in MCProc |-> IF p = "p1" THEN {"add", "remove"} ELSE {"update", "search", "list"}]

Through == INSTANCE RepoConfig WITH ConfRuns <- AddAndUpdate
One == INSTANCE RepoConfig WITH Repo <- {"main"}
ASSUME ThroughAssumption == Through!ConfConstantsOK

-----------------------------------------------------------------------------
MCKey == {"k1", "k2"}
ChangeAndVerify == [p \in MCProc |-> IF p = "p1" THEN {"add", "remove", "sign"} ELSE {"verify"}]
GenerateAndTrust == [p \in MCProc |-> IF p = "p1" THEN {"keygen"} ELSE {"add", "remove"}]

Keys == INSTANCE TrustStore WITH KeyRuns <- GenerateAndTrust, LastEdition <- 1
ASSUME KeysAssumption == Keys!TrustConstantsOK

-----------------------------------------------------------------------------
FilesInit ==
  /\ part \in {"records", "scans", "config", "through", "overlap", "trust", "keygen"}
  /\ Init
  /\ ConfInit /\ (overlap <=> part = "overlap")
  /\ TrustInit /\ (part \notin {"trust", "keygen"} => offered = "k1")

FilesNext ==
  /\ \/ part = "records" /\ Readers!Next /\ UNCHANGED <<confVars, trustVars>>
     \/ part = "scans" /\ Next /\ UNCHANGED <<confVars, trustVars>>
     \/ part = "config" /\ ConfNext /\ UNCHANGED <<records, trustVars>>
     \/ part = "through" /\ Through!ConfNext /\ UNCHANGED <<records, trustVars>>
     \/ part = "overlap" /\ One!ConfNext /\ UNCHANGED <<records, trustVars>>
     \/ part = "trust" /\ TrustNext /\ UNCHANGED <<records, confVars>>
     \/ part = "keygen" /\ Keys!TrustNext /\ UNCHANGED <<records, confVars>>
  /\ UNCHANGED part

FilesSpec == FilesInit /\ [][FilesNext]_<<part, records, confVars, trustVars>>

-----------------------------------------------------------------------------
\* The type invariants of the three modules.
TypesOK ==
  /\ TypeOK
  /\ ConfTypeOK
  /\ TrustTypeOK
=============================================================================
