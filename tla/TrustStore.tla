------------------------------ MODULE TrustStore -----------------------------
(***************************************************************************)
(* Signing keys, the store of trusted keys, and the signature of one       *)
(* repository (src/src/signature.c, src/src/trust.c): generating a key     *)
(* pair, trusting and revoking a key, signing the index and verifying it,  *)
(* each by a command of its own, with nothing locked.                      *)
(*                                                                         *)
(* A key stands for its public key, its private key and the key id in both *)
(* files; hashing and Ed25519 are perfect.  A file whose text does not     *)
(* parse is Torn.  A step reads or writes one file.                        *)
(***************************************************************************)
EXTENDS Naturals, FiniteSets

CONSTANTS
  Key,          \* keys
  TornKey,      \* the content of a file no command accepts
  NoKey,        \* no key, and no file
  KeyProc,      \* the running commands
  KeyRuns,      \* KeyRuns[p]: what p runs, one after the other
  LastEdition,  \* bound: the editions of the index
  KeyLimit      \* bound: how many calls fail and processes are killed, together

TrustConstantsOK ==
  /\ TornKey \notin Key /\ NoKey \notin Key /\ TornKey # NoKey
  /\ KeyRuns \in [KeyProc -> SUBSET {"keygen", "add", "remove", "sign", "verify"}]
  /\ LastEdition \in Nat \ {0} /\ KeyLimit \in Nat

ASSUME TrustConstants == TrustConstantsOK

VARIABLES
  private,   \* the file at the private-key path that keygen is given
  public,    \* the file at its public-key path
  offered,   \* the public-key file that trust add is given
  trusted,   \* trusted[k]: the content of <keyid of k>.pub in the store
  index,     \* the edition in index.pux
  sig,       \* the signature in index.pux.sig
  keyCall,   \* the command each process is running
  keyWatch,  \* history: what a verification could have seen since it started
  made,      \* history: the pair that the last successful keygen created
  keySpent   \* how many calls have failed and processes have been killed

trustVars == <<private, public, offered, trusted, index, sig, keyCall, keyWatch, made,
               keySpent>>
repository == <<index, sig>>
keygenFiles == <<private, public, made>>

Edition == 1..LastEdition
KeyFile == Key \cup {TornKey, NoKey}
Signature == [key : Key, edition : Edition]
Unreadable == {[key |-> c, edition |-> 0] : c \in {TornKey, NoKey}}

KeyStage == {"idle", "private", "public", "drop private", "drop public", "identify", "copy",
          "install", "unlink", "read index", "read key", "write signature", "read keyid",
          "find key", "read signature", "done"}
\* key is the key a command is about, held the key it has read from a file, edition
\* the index it has read.
KeyCommand == [job : {"none", "keygen", "add", "remove", "sign", "verify"}, pc : KeyStage,
               key : Key \cup {NoKey}, held : KeyFile, edition : Edition \cup {0}]
NoKeyCommand ==
  [job |-> "none", pc |-> "idle", key |-> NoKey, held |-> NoKey, edition |-> 0]

\* The whole keys that have been in the file of the key id the verification has read, the
\* editions that have been in the repository, and whether the signature, the index and
\* the key have fitted and stayed the same throughout.
KeyWatch == [keys : SUBSET Key, editions : SUBSET Edition, steady : BOOLEAN]
NoKeyWatch == [keys |-> {}, editions |-> {}, steady |-> FALSE]

TrustTypeOK ==
  /\ private \in KeyFile /\ public \in KeyFile /\ offered \in Key
  /\ trusted \in [Key -> KeyFile]
  /\ index \in Edition
  /\ sig \in Signature \cup Unreadable
  /\ keyCall \in [KeyProc -> KeyCommand]
  /\ \A p \in KeyProc : keyCall[p].pc = "idle" => keyCall[p] = NoKeyCommand
  /\ keyWatch \in [KeyProc -> KeyWatch]
  /\ made \in Key \cup {NoKey}
  /\ keySpent \in Nat

TrustInit ==
  /\ private = NoKey /\ public = NoKey
  /\ offered \in Key
  /\ trusted = [k \in Key |-> NoKey]
  /\ index = 1 /\ sig = [key |-> NoKey, edition |-> 0]
  /\ keyCall = [p \in KeyProc |-> NoKeyCommand]
  /\ keyWatch = [p \in KeyProc |-> NoKeyWatch]
  /\ made = NoKey
  /\ keySpent = 0

-----------------------------------------------------------------------------
KeyAt(p, stage) == keyCall[p].pc = stage
KeyGoTo(p, stage) == keyCall' = [keyCall EXCEPT ![p].pc = stage]

KeyEnd(p) == keyCall' = [keyCall EXCEPT ![p] = NoKeyCommand]

KeyEnter(p, job, stage, k) ==
  /\ keyCall[p].pc = "idle" /\ job \in KeyRuns[p]
  /\ keyCall' = [keyCall EXCEPT
                   ![p] = [NoKeyCommand EXCEPT !.job = job, !.pc = stage, !.key = k]]
  /\ UNCHANGED <<private, public, offered, trusted, index, sig, made, keySpent>>

-----------------------------------------------------------------------------
\* pux_signature_keygen

\* The key is new: no file holds it and no other process has it in hand.
Keygen(p) == \E k \in Key :
  /\ k \notin {private, public, made} \cup {keyCall[q].key : q \in KeyProc}
  /\ KeyEnter(p, "keygen", "private", k)

\* write_key_file: O_EXCL.  After any failure both paths are unlinked.
WritePrivate(p) ==
  /\ KeyAt(p, "private")
  /\ IF private = NoKey THEN private' = keyCall[p].key /\ KeyGoTo(p, "public")
                       ELSE KeyGoTo(p, "drop private") /\ UNCHANGED private
  /\ UNCHANGED <<public, offered, trusted, repository, made, keySpent>>

WritePublic(p) ==
  /\ KeyAt(p, "public")
  /\ IF public = NoKey THEN public' = keyCall[p].key /\ KeyGoTo(p, "done")
                      ELSE KeyGoTo(p, "drop private") /\ UNCHANGED public
  /\ UNCHANGED <<private, offered, trusted, repository, made, keySpent>>

DropPrivate(p) ==
  /\ KeyAt(p, "drop private")
  /\ private' = NoKey
  /\ KeyGoTo(p, "drop public")
  /\ UNCHANGED <<public, offered, trusted, repository, made, keySpent>>

\* Faulty variant: only the private key is taken back.
DropNothing(p) ==
  /\ KeyAt(p, "drop public")
  /\ KeyEnd(p)
  /\ UNCHANGED <<private, public, offered, trusted, repository, made, keySpent>>

DropPublic(p) ==
  /\ KeyAt(p, "drop public")
  /\ public' = NoKey
  /\ KeyEnd(p)
  /\ UNCHANGED <<private, offered, trusted, repository, made, keySpent>>

-----------------------------------------------------------------------------
\* pux_trust_add_key, pux_trust_remove_key

TrustAdd(p) == KeyEnter(p, "add", "identify", NoKey)

\* pux_signature_keyid.
Identify(p) ==
  /\ KeyAt(p, "identify")
  /\ keyCall' = [keyCall EXCEPT ![p].pc = "copy", ![p].key = offered]
  /\ UNCHANGED <<keygenFiles, offered, trusted, repository, keySpent>>

\* The file is read a second time for the copy.
Copy(p) ==
  /\ KeyAt(p, "copy")
  /\ keyCall' = [keyCall EXCEPT ![p].pc = "install", ![p].held = offered]
  /\ UNCHANGED <<keygenFiles, offered, trusted, repository, keySpent>>

\* O_EXCL: a key that is there stays.
InstallKey(p) ==
  /\ KeyAt(p, "install")
  /\ IF trusted[keyCall[p].key] = NoKey
     THEN /\ trusted' = [trusted EXCEPT ![keyCall[p].key] = keyCall[p].held]
          /\ KeyGoTo(p, "done")
     ELSE KeyEnd(p) /\ UNCHANGED trusted
  /\ UNCHANGED <<keygenFiles, offered, repository, keySpent>>

TrustRemove(p) == \E k \in Key : KeyEnter(p, "remove", "unlink", k)

UnlinkKey(p) ==
  /\ KeyAt(p, "unlink")
  /\ trusted' = [trusted EXCEPT ![keyCall[p].key] = NoKey]
  /\ IF trusted[keyCall[p].key] = NoKey THEN KeyEnd(p) ELSE KeyGoTo(p, "done")
  /\ UNCHANGED <<keygenFiles, offered, repository, keySpent>>

-----------------------------------------------------------------------------
\* pux_signature_sign_file, with a private key file that is whole

SignIndex(p) == \E k \in Key : KeyEnter(p, "sign", "read index", k)

ReadIndex(p) ==
  /\ KeyAt(p, "read index")
  /\ keyCall' = [keyCall EXCEPT ![p].edition = index,
                   ![p].pc = IF keyCall[p].job = "sign" THEN "write signature"
                                                     ELSE "read key"]
  /\ UNCHANGED <<keygenFiles, offered, trusted, repository, keySpent>>

\* fopen "wb": the old signature is gone before the new one is written.
WriteSignature(p) ==
  /\ KeyAt(p, "write signature")
  /\ sig' = [key |-> keyCall[p].key, edition |-> keyCall[p].edition]
  /\ KeyGoTo(p, "done")
  /\ UNCHANGED <<keygenFiles, offered, trusted, index, keySpent>>

-----------------------------------------------------------------------------
\* pux_trust_verify_repository

Verify(p) == KeyEnter(p, "verify", "read keyid", NoKey)

ReadKeyid(p) ==
  /\ KeyAt(p, "read keyid")
  /\ IF sig \in Signature
     THEN keyCall' = [keyCall EXCEPT ![p].key = sig.key, ![p].pc = "find key"]
     ELSE KeyEnd(p)
  /\ UNCHANGED <<keygenFiles, offered, trusted, repository, keySpent>>

\* Faulty variant: the key is looked for where trust add found the last one.
FindOfferedKey(p) ==
  /\ KeyAt(p, "find key")
  /\ IF offered = keyCall[p].key THEN KeyGoTo(p, "read index") ELSE KeyEnd(p)
  /\ UNCHANGED <<keygenFiles, offered, trusted, repository, keySpent>>

\* access
FindKey(p) ==
  /\ KeyAt(p, "find key")
  /\ IF trusted[keyCall[p].key] # NoKey THEN KeyGoTo(p, "read index") ELSE KeyEnd(p)
  /\ UNCHANGED <<keygenFiles, offered, trusted, repository, keySpent>>

\* load_public_key
ReadKey(p) ==
  /\ KeyAt(p, "read key")
  /\ LET k == trusted[keyCall[p].key] IN
     IF k \in Key
     THEN keyCall' = [keyCall EXCEPT ![p].held = k, ![p].pc = "read signature"]
     ELSE KeyEnd(p)
  /\ UNCHANGED <<keygenFiles, offered, trusted, repository, keySpent>>

\* Faulty variant: the key id has been looked at before and is not compared again.
ReadSignatureAnyKey(p) ==
  /\ KeyAt(p, "read signature")
  /\ IF sig \in Signature /\ sig.edition = keyCall[p].edition
     THEN KeyGoTo(p, "done") ELSE KeyEnd(p)
  /\ UNCHANGED <<keygenFiles, offered, trusted, repository, keySpent>>

\* The signature is read again and has to fit the key and the index that were read.  The
\* id that is reported stays that of the first read.
ReadSignature(p) ==
  /\ KeyAt(p, "read signature")
  /\ IF sig = [key |-> keyCall[p].held, edition |-> keyCall[p].edition]
     THEN KeyGoTo(p, "done") ELSE KeyEnd(p)
  /\ UNCHANGED <<keygenFiles, offered, trusted, repository, keySpent>>

-----------------------------------------------------------------------------
\* The command reports success.
KeyReturn(p) ==
  /\ KeyAt(p, "done")
  /\ made' = IF keyCall[p].job = "keygen" THEN keyCall[p].key ELSE made
  /\ KeyEnd(p)
  /\ UNCHANGED <<private, public, offered, trusted, repository, keySpent>>

\* A call fails: a file that was to be written is unlinked again, and the old signature
\* where it has been opened.  A keygen may fail before it writes anything.
KeyFault(p) ==
  /\ keySpent < KeyLimit /\ keySpent' = keySpent + 1
  /\ \/ /\ keyCall[p].pc \in {"private", "public"}
        /\ KeyGoTo(p, "drop private")
        /\ UNCHANGED sig
     \/ /\ keyCall[p].pc \in {"private", "identify", "copy", "install", "unlink",
                              "read index", "read key", "read keyid", "find key",
                              "read signature", "write signature"}
        /\ KeyEnd(p)
        /\ \/ UNCHANGED sig
           \/ KeyAt(p, "write signature") /\ sig' = [key |-> NoKey, edition |-> 0]
  /\ UNCHANGED <<private, public, offered, trusted, index, made>>

\* The process is killed, and a file it was writing is left in part.
KeyCrash(p) ==
  /\ keyCall[p].pc # "idle"
  /\ keySpent < KeyLimit /\ keySpent' = keySpent + 1
  /\ private' = IF KeyAt(p, "private") /\ private = NoKey THEN TornKey ELSE private
  /\ public' = IF KeyAt(p, "public") /\ public = NoKey THEN TornKey ELSE public
  /\ trusted' = IF KeyAt(p, "install") /\ trusted[keyCall[p].key] = NoKey
                THEN [trusted EXCEPT ![keyCall[p].key] = TornKey] ELSE trusted
  /\ sig' = IF KeyAt(p, "write signature") THEN [key |-> TornKey, edition |-> 0] ELSE sig
  /\ KeyEnd(p)
  /\ UNCHANGED <<offered, index, made>>

\* The administrator puts another key where trust add will look; pux repo create or
\* pux update puts another index in place.
Offer == offered' \in Key \ {offered}
  /\ UNCHANGED <<keygenFiles, trusted, repository, keyCall, keySpent>>
Reindex == index < LastEdition /\ index' = index + 1
  /\ UNCHANGED <<keygenFiles, offered, trusted, sig, keyCall, keySpent>>

KeyStart(p) == Keygen(p) \/ TrustAdd(p) \/ TrustRemove(p) \/ SignIndex(p) \/ Verify(p)
KeyWork(p) ==
  \/ WritePrivate(p) \/ WritePublic(p) \/ DropPrivate(p) \/ DropPublic(p)
  \/ Identify(p) \/ Copy(p) \/ InstallKey(p) \/ UnlinkKey(p)
  \/ ReadIndex(p) \/ WriteSignature(p)
  \/ ReadKeyid(p) \/ FindKey(p) \/ ReadKey(p) \/ ReadSignature(p) \/ KeyReturn(p)

\* keyWatch notes for each verification what is in place before and after each step.
Fits == sig \in Signature /\ sig.edition = index /\ trusted[sig.key] = sig.key
StoredFor(k) == IF k = NoKey THEN {} ELSE {trusted[k], trusted'[k]} \cap Key
KeyObserve ==
  LET before(q) == IF keyCall[q].job = "verify" THEN keyWatch[q]
                   ELSE [NoKeyWatch EXCEPT !.steady = Fits]
  IN keyWatch' = [q \in KeyProc |->
       IF keyCall'[q].job # "verify" THEN NoKeyWatch
       ELSE [keys |-> before(q).keys \cup StoredFor(keyCall'[q].key),
             editions |-> before(q).editions \cup {index, index'},
             steady |-> before(q).steady /\ UNCHANGED <<trusted, repository>>]]

TrustNext ==
  /\ \/ \E p \in KeyProc : KeyStart(p) \/ KeyWork(p) \/ KeyFault(p) \/ KeyCrash(p)
     \/ Offer \/ Reindex
  /\ KeyObserve

TrustSpec == TrustInit /\ [][TrustNext]_trustVars

-----------------------------------------------------------------------------
\* Properties

\* The signature that a verification accepts is of an index that was in place since it
\* started, and by a key that was whole in the file of the key id it reports, since it
\* read this id: what was revoked before, or left in part by a killed trust add, is never
\* used.  The key has that id unless the file given to trust add was replaced between the
\* two reads of it (KeysUnderTheirIds).
AcceptedWasTrusted ==
  [][\A p \in KeyProc :
       keyCall[p].job = "verify" /\ keyCall[p].pc # "done" /\ keyCall'[p].pc = "done" =>
         /\ keyCall'[p].key = keyCall[p].key
         /\ sig.key \in keyWatch[p].keys /\ sig.edition \in keyWatch[p].editions]_trustVars

\* A verification of a repository whose signature, index and key fit and stay the same
\* while it runs does not fail, as long as no call fails.
GoodIsAccepted ==
  [][\A p \in KeyProc :
       keyCall[p].job = "verify" /\ keyCall[p].pc # "done" /\ keyCall'[p].pc = "idle" =>
         ~keyWatch[p].steady \/ keySpent' # keySpent]_trustVars

\* A keygen beside which no other runs leaves both files or none: the pair where it
\* succeeds, nothing where one of the two cannot be written, also of what a killed one
\* left before it.
KeygenAllOrNothing ==
  [][\A p \in KeyProc :
       keyCall[p].job = "keygen" /\ keyCall'[p].pc = "idle" /\ keySpent' = keySpent =>
         LET result == IF KeyAt(p, "done") THEN keyCall[p].key ELSE NoKey
         IN private' = result /\ public' = result]_trustVars

\* "validates and installs a key named by its 64-character SHA-256 keyid": a whole key in
\* the store is the one of the id it is stored under.
KeysUnderTheirIds == \A k \in Key : trusted[k] \in {k, TornKey, NoKey}

\* "pux keygen <private-key> <public-key> creates a keypair": the pair that a successful
\* keygen created is there, since nobody but pux touches the two files.
KeypairStays == made # NoKey => private = made /\ public = made
=============================================================================
