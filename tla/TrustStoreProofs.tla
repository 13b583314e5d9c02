--------------------------- MODULE TrustStoreProofs ---------------------------
(***************************************************************************)
(* Theorems about the keys, the trust store and the signature of a         *)
(* repository, for any keys, processes, editions and faults.               *)
(***************************************************************************)
EXTENDS TrustStore, TLAPS

-----------------------------------------------------------------------------
\* Types and stages

\* Each stage belongs to one job, apart from those that two of them share, and has
\* read what it works with.
StageFits(c) ==
  /\ c.pc = "idle" => c = NoKeyCommand
  /\ c.job = "none" => c.pc = "idle"
  /\ c.job = "keygen" => c.pc \in {"private", "public", "drop private", "drop public", "done"}
  /\ c.job = "add" => c.pc \in {"identify", "copy", "install", "done"}
  /\ c.job = "remove" => c.pc \in {"unlink", "done"}
  /\ c.job = "sign" => c.pc \in {"read index", "write signature", "done"} /\ c.key \in Key
  /\ c.job = "verify" => c.pc \in {"read keyid", "find key", "read index", "read key",
                                   "read signature", "done"}
  /\ c.pc \in {"write signature", "read key", "read signature"} => c.edition \in Edition
  /\ c.pc = "read signature" => c.held \in Key
  /\ c.pc \in {"copy", "install", "unlink", "find key", "read index", "read key"} =>
       c.key \in Key

TrustInv ==
  /\ TrustTypeOK
  /\ \A p \in KeyProc : StageFits(keyCall[p])

\* What a step of p makes of the commands when it makes c of its own.
LEMMA OneMoves ==
  ASSUME keyCall \in [KeyProc -> KeyCommand], \A q \in KeyProc : StageFits(keyCall[q]),
         NEW p \in KeyProc, NEW c \in KeyCommand, StageFits(c),
         keyCall' = [keyCall EXCEPT ![p] = c]
  PROVE  /\ keyCall' \in [KeyProc -> KeyCommand]
         /\ \A q \in KeyProc : StageFits(keyCall'[q])
         /\ \A q \in KeyProc : keyCall'[q].pc = "idle" => keyCall'[q] = NoKeyCommand
<1>1. keyCall'[p] = c /\ \A q \in KeyProc \ {p} : keyCall'[q] = keyCall[q]
  OBVIOUS
<1>2. keyCall' \in [KeyProc -> KeyCommand]
  OBVIOUS
<1>3. ASSUME NEW q \in KeyProc PROVE StageFits(keyCall'[q])
  BY <1>1, Zenon
<1> QED
  BY <1>2, <1>3 DEF StageFits

\* The watches keep their type whatever the files are.
LEMMA WatchesKept ==
  ASSUME keyWatch \in [KeyProc -> KeyWatch], index \in Edition, index' \in Edition, KeyObserve
  PROVE  keyWatch' \in [KeyProc -> KeyWatch]
<1> DEFINE before(q) == IF keyCall[q].job = "verify" THEN keyWatch[q]
                        ELSE [NoKeyWatch EXCEPT !.steady = Fits]
<1>1. ASSUME NEW q \in KeyProc PROVE before(q) \in KeyWatch
  BY DEF KeyWatch, NoKeyWatch, Fits
<1>2. \A k : StoredFor(k) \subseteq Key
  BY DEF StoredFor
<1>3. ASSUME NEW q \in KeyProc
      PROVE  [keys |-> before(q).keys \cup StoredFor(keyCall'[q].key),
              editions |-> before(q).editions \cup {index, index'},
              steady |-> before(q).steady /\ UNCHANGED <<trusted, repository>>] \in KeyWatch
  <2>1. before(q).keys \subseteq Key /\ before(q).editions \subseteq Edition
    BY <1>1 DEF KeyWatch
  <2>2. before(q).keys \cup StoredFor(keyCall'[q].key) \subseteq Key
    BY <2>1, <1>2
  <2>3. before(q).editions \cup {index, index'} \subseteq Edition
    BY <2>1
  <2> HIDE DEF before
  <2> QED
    BY <2>2, <2>3 DEF KeyWatch
<1>4. NoKeyWatch \in KeyWatch
  BY DEF NoKeyWatch, KeyWatch
<1> QED
  BY <1>3, <1>4 DEF KeyObserve

\* Ending a command, and taking one to its next stage.
LEMMA Ends ==
  ASSUME TrustInv, NEW p \in KeyProc, KeyEnd(p)
  PROVE  /\ keyCall' \in [KeyProc -> KeyCommand]
         /\ \A q \in KeyProc : StageFits(keyCall'[q])
         /\ \A q \in KeyProc : keyCall'[q].pc = "idle" => keyCall'[q] = NoKeyCommand
<1>1. NoKeyCommand \in KeyCommand /\ StageFits(NoKeyCommand)
  BY DEF NoKeyCommand, KeyCommand, KeyStage, KeyFile, StageFits
<1> QED
  BY <1>1, OneMoves DEF TrustInv, TrustTypeOK, KeyEnd

LEMMA Goes ==
  ASSUME TrustInv, NEW p \in KeyProc, NEW stage \in KeyStage, KeyGoTo(p, stage),
         StageFits([keyCall[p] EXCEPT !.pc = stage])
  PROVE  /\ keyCall' \in [KeyProc -> KeyCommand]
         /\ \A q \in KeyProc : StageFits(keyCall'[q])
         /\ \A q \in KeyProc : keyCall'[q].pc = "idle" => keyCall'[q] = NoKeyCommand
<1> DEFINE c == [keyCall[p] EXCEPT !.pc = stage]
<1>1. keyCall[p] \in KeyCommand
  BY DEF TrustInv, TrustTypeOK
<1>2. c \in KeyCommand
  BY <1>1 DEF KeyCommand
<1>3. keyCall' = [keyCall EXCEPT ![p] = c]
  BY DEF KeyGoTo
<1> HIDE DEF c
<1> QED
  BY <1>2, <1>3, OneMoves DEF TrustInv, TrustTypeOK, c

LEMMA Enters ==
  ASSUME TrustInv, NEW p \in KeyProc, NEW job \in {"keygen", "add", "remove", "sign", "verify"},
         NEW stage \in KeyStage, NEW k \in Key \cup {NoKey}, KeyEnter(p, job, stage, k),
         StageFits([NoKeyCommand EXCEPT !.job = job, !.pc = stage, !.key = k]), KeyObserve
  PROVE  TrustInv'
<1> DEFINE c == [NoKeyCommand EXCEPT !.job = job, !.pc = stage, !.key = k]
<1>1. c \in KeyCommand
  BY DEF NoKeyCommand, KeyCommand, KeyFile
<1>2. keyCall' = [keyCall EXCEPT ![p] = c]
  BY DEF KeyEnter
<1> HIDE DEF c
<1>3. /\ keyCall' \in [KeyProc -> KeyCommand]
      /\ \A q \in KeyProc : StageFits(keyCall'[q])
      /\ \A q \in KeyProc : keyCall'[q].pc = "idle" => keyCall'[q] = NoKeyCommand
  BY <1>1, <1>2, OneMoves DEF TrustInv, TrustTypeOK, c
<1>4. keyWatch' \in [KeyProc -> KeyWatch]
  BY WatchesKept DEF TrustInv, TrustTypeOK, KeyEnter
<1> QED
  BY <1>3, <1>4 DEF TrustInv, TrustTypeOK, KeyEnter

\* The steps of a command, each with what it makes of the files and of the command.
LEMMA WorkTypes ==
  ASSUME TrustInv, NEW p \in KeyProc, KeyWork(p), KeyObserve
  PROVE  TrustInv'
<1> DEFINE CommandsFit ==
             /\ keyCall' \in [KeyProc -> KeyCommand]
             /\ \A q \in KeyProc : StageFits(keyCall'[q])
             /\ \A q \in KeyProc : keyCall'[q].pc = "idle" => keyCall'[q] = NoKeyCommand
<1> DEFINE FilesFit ==
             /\ private' \in KeyFile /\ public' \in KeyFile /\ offered' \in Key
             /\ trusted' \in [Key -> KeyFile]
             /\ index' \in Edition
             /\ sig' \in Signature \cup Unreadable
             /\ made' \in Key \cup {NoKey}
             /\ keySpent' \in Nat
<1> USE DEF KeyAt, keygenFiles, repository
<1>0. /\ private \in KeyFile /\ public \in KeyFile /\ offered \in Key
      /\ trusted \in [Key -> KeyFile]
      /\ index \in Edition
      /\ sig \in Signature \cup Unreadable
      /\ made \in Key \cup {NoKey}
      /\ keySpent \in Nat
      /\ keyCall[p] \in KeyCommand /\ StageFits(keyCall[p])
  BY DEF TrustInv, TrustTypeOK
<1> DEFINE d == keyCall[p]
<1>a. /\ d.pc \in KeyStage /\ d.key \in Key \cup {NoKey} /\ d.held \in KeyFile
      /\ d.job \in {"none", "keygen", "add", "remove", "sign", "verify"}
      /\ d.edition \in Edition \cup {0}
      /\ NoKey \in KeyFile /\ Key \subseteq KeyFile
  BY <1>0 DEF KeyCommand, KeyFile
<1>1. ASSUME NEW stage \in {"public", "drop private", "drop public", "done", "read index"},
             KeyGoTo(p, stage),
             StageFits([keyCall[p] EXCEPT !.pc = stage])
      PROVE  CommandsFit
  BY <1>1, Goes DEF KeyStage
<1>2. ASSUME KeyEnd(p) PROVE CommandsFit
  BY <1>2, Ends
<1>3. ASSUME NEW c \in KeyCommand, StageFits(c), keyCall' = [keyCall EXCEPT ![p] = c]
      PROVE  CommandsFit
  BY <1>3, OneMoves DEF TrustInv, TrustTypeOK
<1> SUFFICES FilesFit /\ CommandsFit
  <2>1. ASSUME FilesFit PROVE keyWatch' \in [KeyProc -> KeyWatch]
    BY <1>0, <2>1, WatchesKept DEF TrustInv, TrustTypeOK
  <2> QED
    BY <2>1 DEF TrustInv, TrustTypeOK
<1> HIDE DEF CommandsFit
<1>4. CASE WritePrivate(p)
  <2>1. FilesFit
    BY <1>4, <1>0, <1>a DEF WritePrivate, KeyFile
  <2>2. CommandsFit
    <3>1. StageFits([d EXCEPT !.pc = "public"]) /\ StageFits([d EXCEPT !.pc = "drop private"])
      BY <1>4, <1>0, <1>a DEF WritePrivate, StageFits, KeyCommand
    <3> QED
      BY <1>4, <1>1, <3>1 DEF WritePrivate
  <2> QED
    BY <2>1, <2>2
<1>5. CASE WritePublic(p)
  <2>1. FilesFit
    BY <1>5, <1>0, <1>a DEF WritePublic, KeyFile
  <2>2. CommandsFit
    <3>1. StageFits([d EXCEPT !.pc = "done"]) /\ StageFits([d EXCEPT !.pc = "drop private"])
      BY <1>5, <1>0, <1>a DEF WritePublic, StageFits, KeyCommand
    <3> QED
      BY <1>5, <1>1, <3>1 DEF WritePublic
  <2> QED
    BY <2>1, <2>2
<1>6. CASE DropPrivate(p)
  <2>1. FilesFit
    BY <1>6, <1>0, <1>a DEF DropPrivate
  <2>2. StageFits([d EXCEPT !.pc = "drop public"])
    BY <1>6, <1>0, <1>a DEF DropPrivate, StageFits, KeyCommand
  <2> QED
    BY <1>6, <1>1, <2>1, <2>2 DEF DropPrivate
<1>7. CASE DropPublic(p)
  BY <1>7, <1>0, <1>2, <1>a DEF DropPublic
<1>8. CASE Identify(p)
  <2> DEFINE c == [d EXCEPT !.pc = "copy", !.key = offered]
  <2>1. c \in KeyCommand /\ StageFits(c)
    BY <1>8, <1>0, <1>a DEF Identify, StageFits, KeyCommand, KeyStage
  <2>2. keyCall' = [keyCall EXCEPT ![p] = c]
    BY <1>8 DEF Identify
  <2> QED
    BY <1>8, <1>0, <1>3, <2>1, <2>2 DEF Identify
<1>9. CASE Copy(p)
  <2> DEFINE c == [d EXCEPT !.pc = "install", !.held = offered]
  <2>1. c \in KeyCommand /\ StageFits(c)
    BY <1>9, <1>0, <1>a DEF Copy, StageFits, KeyCommand, KeyStage
  <2>2. keyCall' = [keyCall EXCEPT ![p] = c]
    BY <1>9 DEF Copy
  <2> QED
    BY <1>9, <1>0, <1>3, <2>1, <2>2 DEF Copy
<1>10. CASE InstallKey(p)
  <2>1. FilesFit
    BY <1>10, <1>0, <1>a DEF InstallKey
  <2>2. StageFits([d EXCEPT !.pc = "done"])
    BY <1>10, <1>0, <1>a DEF InstallKey, StageFits, KeyCommand
  <2> QED
    BY <1>10, <1>1, <1>2, <2>1, <2>2 DEF InstallKey
<1>11. CASE UnlinkKey(p)
  <2>1. FilesFit
    BY <1>11, <1>0, <1>a DEF UnlinkKey
  <2>2. StageFits([d EXCEPT !.pc = "done"])
    BY <1>11, <1>0, <1>a DEF UnlinkKey, StageFits, KeyCommand
  <2> QED
    BY <1>11, <1>1, <1>2, <2>1, <2>2 DEF UnlinkKey
<1>12. CASE ReadIndex(p)
  <2> DEFINE stage == IF d.job = "sign" THEN "write signature" ELSE "read key"
             c == [d EXCEPT !.edition = index, !.pc = stage]
  <2>1. c \in KeyCommand /\ StageFits(c)
    BY <1>12, <1>0, <1>a DEF ReadIndex, StageFits, KeyCommand, KeyStage
  <2>2. keyCall' = [keyCall EXCEPT ![p] = c]
    BY <1>12 DEF ReadIndex
  <2> QED
    BY <1>12, <1>0, <1>3, <2>1, <2>2 DEF ReadIndex
<1>13. CASE WriteSignature(p)
  <2>1. d.key \in Key /\ d.edition \in Edition
    BY <1>13, <1>0, <1>a DEF WriteSignature, StageFits
  <2>2. FilesFit
    BY <1>13, <1>0, <2>1 DEF WriteSignature, Signature
  <2>3. StageFits([d EXCEPT !.pc = "done"])
    BY <1>13, <1>0, <1>a DEF WriteSignature, StageFits, KeyCommand
  <2> QED
    BY <1>13, <1>1, <2>2, <2>3 DEF WriteSignature
<1>14. CASE ReadKeyid(p)
  <2>1. CASE sig \in Signature
    <3> DEFINE c == [d EXCEPT !.key = sig.key, !.pc = "find key"]
    <3>1. c \in KeyCommand /\ StageFits(c)
      BY <1>14, <1>0, <1>a, <2>1 DEF ReadKeyid, StageFits, KeyCommand, KeyStage, Signature
    <3>2. keyCall' = [keyCall EXCEPT ![p] = c]
      BY <1>14, <2>1 DEF ReadKeyid
    <3> QED
      BY <1>14, <1>0, <1>3, <3>1, <3>2 DEF ReadKeyid
  <2> QED
    BY <1>14, <1>0, <1>2, <2>1 DEF ReadKeyid
<1>15. CASE FindKey(p)
  <2>1. StageFits([d EXCEPT !.pc = "read index"])
    BY <1>15, <1>0, <1>a DEF FindKey, StageFits, KeyCommand
  <2> QED
    BY <1>15, <1>0, <1>1, <1>2, <2>1 DEF FindKey
<1>16. CASE ReadKey(p)
  <2> DEFINE k == trusted[d.key]
  <2>1. CASE k \in Key
    <3> DEFINE c == [d EXCEPT !.held = k, !.pc = "read signature"]
    <3>1. c \in KeyCommand /\ StageFits(c)
      BY <1>16, <1>0, <1>a, <2>1 DEF ReadKey, StageFits, KeyCommand, KeyStage
    <3>2. keyCall' = [keyCall EXCEPT ![p] = c]
      BY <1>16, <2>1 DEF ReadKey
    <3> QED
      BY <1>16, <1>0, <1>3, <3>1, <3>2 DEF ReadKey
  <2> QED
    BY <1>16, <1>0, <1>2, <2>1 DEF ReadKey
<1>17. CASE ReadSignature(p)
  <2>1. StageFits([d EXCEPT !.pc = "done"])
    BY <1>17, <1>0, <1>a DEF ReadSignature, StageFits, KeyCommand
  <2> QED
    BY <1>17, <1>0, <1>1, <1>2, <2>1 DEF ReadSignature
<1>18. CASE KeyReturn(p)
  BY <1>18, <1>0, <1>2, <1>a DEF KeyReturn
<1> QED
  BY <1>4, <1>5, <1>6, <1>7, <1>8, <1>9, <1>10, <1>11, <1>12, <1>13, <1>14, <1>15, <1>16,
     <1>17, <1>18 DEF KeyWork

LEMMA StartTypes ==
  ASSUME TrustInv, NEW p \in KeyProc, KeyStart(p), KeyObserve
  PROVE  TrustInv'
<1>1. \A job \in {"keygen", "add", "remove", "sign", "verify"}, stage \in KeyStage,
         k \in Key \cup {NoKey} :
        /\ KeyEnter(p, job, stage, k)
        /\ StageFits([NoKeyCommand EXCEPT !.job = job, !.pc = stage, !.key = k])
        => TrustInv'
  BY Enters
<1>2. \A k \in Key : StageFits([NoKeyCommand EXCEPT !.job = "keygen", !.pc = "private", !.key = k])
  BY DEF StageFits, NoKeyCommand
<1>3. StageFits([NoKeyCommand EXCEPT !.job = "add", !.pc = "identify", !.key = NoKey])
  BY DEF StageFits, NoKeyCommand
<1>4. \A k \in Key : StageFits([NoKeyCommand EXCEPT !.job = "remove", !.pc = "unlink", !.key = k])
  BY DEF StageFits, NoKeyCommand
<1>5. \A k \in Key : StageFits([NoKeyCommand EXCEPT !.job = "sign", !.pc = "read index", !.key = k])
  BY DEF StageFits, NoKeyCommand
<1>6. StageFits([NoKeyCommand EXCEPT !.job = "verify", !.pc = "read keyid", !.key = NoKey])
  BY DEF StageFits, NoKeyCommand
<1>7. {"private", "identify", "unlink", "read index", "read keyid"} \subseteq KeyStage
  BY DEF KeyStage
<1> QED
  BY <1>1, <1>2, <1>3, <1>4, <1>5, <1>6, <1>7
  DEF KeyStart, Keygen, TrustAdd, TrustRemove, SignIndex, Verify

LEMMA FaultTypes ==
  ASSUME TrustInv, NEW p \in KeyProc, KeyFault(p) \/ KeyCrash(p), KeyObserve
  PROVE  TrustInv'
<1>0. /\ private \in KeyFile /\ public \in KeyFile /\ offered \in Key
      /\ trusted \in [Key -> KeyFile]
      /\ index \in Edition
      /\ sig \in Signature \cup Unreadable
      /\ made \in Key \cup {NoKey}
      /\ keySpent \in Nat
      /\ keyCall[p] \in KeyCommand /\ StageFits(keyCall[p])
  BY DEF TrustInv, TrustTypeOK
<1>1. /\ keyCall' \in [KeyProc -> KeyCommand]
      /\ \A q \in KeyProc : StageFits(keyCall'[q])
      /\ \A q \in KeyProc : keyCall'[q].pc = "idle" => keyCall'[q] = NoKeyCommand
  <2>1. CASE KeyEnd(p)
    BY <2>1, Ends
  <2>2. CASE keyCall[p].pc \in {"private", "public"} /\ KeyGoTo(p, "drop private")
    <3>1. StageFits([keyCall[p] EXCEPT !.pc = "drop private"])
      BY <1>0, <2>2 DEF StageFits, KeyCommand
    <3> QED
      BY <2>2, <3>1, Goes DEF KeyStage
  <2> QED
    BY <2>1, <2>2 DEF KeyFault, KeyCrash
<1>2. TornKey \in KeyFile /\ \A c \in {TornKey, NoKey} : [key |-> c, edition |-> 0] \in Unreadable
  BY DEF KeyFile, Unreadable
<1>3. /\ private' \in KeyFile /\ public' \in KeyFile /\ offered' \in Key
      /\ trusted' \in [Key -> KeyFile]
      /\ index' \in Edition
      /\ sig' \in Signature \cup Unreadable
      /\ made' \in Key \cup {NoKey}
      /\ keySpent' \in Nat
  <2>1. CASE KeyFault(p)
    <3>1. sig' \in Signature \cup Unreadable
      BY <1>0, <1>2, <2>1 DEF KeyFault
    <3>2. keySpent' = keySpent + 1
      BY <2>1 DEF KeyFault
    <3>3. UNCHANGED <<private, public, offered, trusted, index, made>>
      BY <2>1 DEF KeyFault
    <3> QED
      BY <1>0, <3>1, <3>2, <3>3
  <2>2. CASE KeyCrash(p)
    <3>1. sig' \in Signature \cup Unreadable
      BY <1>0, <1>2, <2>2 DEF KeyCrash
    <3>2. trusted' \in [Key -> KeyFile]
      BY <1>0, <1>2, <2>2 DEF KeyCrash
    <3>3. private' \in KeyFile /\ public' \in KeyFile
      BY <1>0, <1>2, <2>2 DEF KeyCrash
    <3>4. keySpent' = keySpent + 1
      BY <2>2 DEF KeyCrash
    <3>5. UNCHANGED <<offered, index, made>>
      BY <2>2 DEF KeyCrash
    <3> QED
      BY <1>0, <3>1, <3>2, <3>3, <3>4, <3>5
  <2> QED
    BY <2>1, <2>2
<1>4. keyWatch' \in [KeyProc -> KeyWatch]
  BY <1>0, <1>3, WatchesKept DEF TrustInv, TrustTypeOK
<1> QED
  BY <1>1, <1>3, <1>4 DEF TrustInv, TrustTypeOK

LEMMA TypesStart == TrustInit => TrustInv
<1> SUFFICES ASSUME TrustInit PROVE TrustInv
  OBVIOUS
<1>1. NoKeyCommand \in KeyCommand /\ StageFits(NoKeyCommand) /\ NoKeyWatch \in KeyWatch
  BY DEF NoKeyCommand, KeyCommand, KeyStage, KeyFile, StageFits, NoKeyWatch, KeyWatch
<1>2. 1 \in Edition
  BY TrustConstants DEF TrustConstantsOK, Edition
<1>3. [key |-> NoKey, edition |-> 0] \in Unreadable /\ NoKey \in KeyFile
  BY DEF Unreadable, KeyFile
<1> QED
  BY <1>1, <1>2, <1>3 DEF TrustInit, TrustInv, TrustTypeOK

LEMMA TypesKept == TrustInv /\ [TrustNext]_trustVars => TrustInv'
<1> SUFFICES ASSUME TrustInv, [TrustNext]_trustVars PROVE TrustInv'
  OBVIOUS
<1>1. CASE UNCHANGED trustVars
  BY <1>1 DEF trustVars, TrustInv, TrustTypeOK
<1>2. CASE TrustNext
  <2>1. ASSUME NEW p \in KeyProc, KeyStart(p) \/ KeyWork(p) \/ KeyFault(p) \/ KeyCrash(p)
        PROVE  TrustInv'
    BY <1>2, <2>1, StartTypes, WorkTypes, FaultTypes DEF TrustNext
  <2>2. ASSUME Offer \/ Reindex PROVE TrustInv'
    <3>1. index \in Edition /\ index' \in Edition
      BY <2>2, TrustConstants
      DEF Offer, Reindex, repository, Edition, TrustInv, TrustTypeOK, TrustConstantsOK
    <3>2. keyWatch' \in [KeyProc -> KeyWatch]
      BY <1>2, <3>1, WatchesKept DEF TrustNext, TrustInv, TrustTypeOK
    <3> QED
      BY <2>2, <3>1, <3>2 DEF Offer, Reindex, repository, keygenFiles, TrustInv, TrustTypeOK
  <2> QED
    BY <1>2, <2>1, <2>2 DEF TrustNext
<1> QED
  BY <1>1, <1>2

\* Every file and command keeps its type: no command acts on a key or an index that it
\* has not read, and no signature is written that is not one.
THEOREM TrustTypes == TrustSpec => []TrustTypeOK
<1>1. TrustInv => TrustTypeOK
  BY DEF TrustInv
<1> QED
  BY <1>1, TypesStart, TypesKept, PTL DEF TrustSpec

-----------------------------------------------------------------------------
\* What a step leaves alone

\* A step of p is about the command of p, which keeps its job or ends.
LEMMA OthersStay ==
  ASSUME TrustInv, NEW p \in KeyProc,
         KeyStart(p) \/ KeyWork(p) \/ KeyFault(p) \/ KeyCrash(p)
  PROVE  \A q \in KeyProc \ {p} : keyCall'[q] = keyCall[q]
<1>0. keyCall \in [KeyProc -> KeyCommand]
  BY DEF TrustInv, TrustTypeOK
<1>1. \A stage : KeyGoTo(p, stage) => \A q \in KeyProc \ {p} : keyCall'[q] = keyCall[q]
  BY <1>0 DEF KeyGoTo
<1>2. KeyEnd(p) => \A q \in KeyProc \ {p} : keyCall'[q] = keyCall[q]
  BY <1>0 DEF KeyEnd
<1>3. CASE KeyStart(p)
  BY <1>0, <1>3 DEF KeyStart, KeyEnter, Keygen, TrustAdd, TrustRemove, SignIndex, Verify
<1>4. CASE KeyFault(p) \/ KeyCrash(p)
  BY <1>1, <1>2, <1>4 DEF KeyFault, KeyCrash
<1>5. CASE WritePrivate(p) \/ WritePublic(p) \/ DropPrivate(p) \/ DropPublic(p)
  BY <1>1, <1>2, <1>5 DEF WritePrivate, WritePublic, DropPrivate, DropPublic
<1>6. CASE Identify(p) \/ Copy(p) \/ ReadIndex(p)
  BY <1>0, <1>6 DEF Identify, Copy, ReadIndex
<1>7. CASE InstallKey(p) \/ UnlinkKey(p) \/ WriteSignature(p) \/ FindKey(p) \/ ReadSignature(p)
             \/ KeyReturn(p)
  BY <1>1, <1>2, <1>7 DEF InstallKey, UnlinkKey, WriteSignature, FindKey, ReadSignature, KeyReturn
<1>8. CASE ReadKeyid(p) \/ ReadKey(p)
  BY <1>0, <1>2, <1>8 DEF ReadKeyid, ReadKey
<1> QED
  BY <1>3, <1>4, <1>5, <1>6, <1>7, <1>8 DEF KeyWork

LEMMA JobStays ==
  ASSUME TrustInv, NEW p \in KeyProc, KeyWork(p) \/ KeyFault(p) \/ KeyCrash(p)
  PROVE  keyCall'[p] = NoKeyCommand \/ keyCall'[p].job = keyCall[p].job
<1>0. keyCall \in [KeyProc -> KeyCommand] /\ keyCall[p] \in KeyCommand
  BY DEF TrustInv, TrustTypeOK
<1>1. \A stage : KeyGoTo(p, stage) => keyCall'[p].job = keyCall[p].job
  BY <1>0 DEF KeyGoTo, KeyCommand
<1>2. KeyEnd(p) => keyCall'[p] = NoKeyCommand
  BY <1>0 DEF KeyEnd
<1>4. CASE KeyFault(p) \/ KeyCrash(p)
  BY <1>1, <1>2, <1>4 DEF KeyFault, KeyCrash
<1>5. CASE WritePrivate(p) \/ WritePublic(p) \/ DropPrivate(p) \/ DropPublic(p)
  BY <1>1, <1>2, <1>5 DEF WritePrivate, WritePublic, DropPrivate, DropPublic
<1>6. CASE Identify(p) \/ Copy(p) \/ ReadIndex(p)
  <2>1. CASE Identify(p)
    BY <1>0, <2>1 DEF Identify, KeyCommand
  <2>2. CASE Copy(p)
    BY <1>0, <2>2 DEF Copy, KeyCommand
  <2>3. CASE ReadIndex(p)
    BY <1>0, <2>3 DEF ReadIndex, KeyCommand
  <2> QED
    BY <1>6, <2>1, <2>2, <2>3
<1>7. CASE InstallKey(p) \/ UnlinkKey(p) \/ WriteSignature(p) \/ FindKey(p) \/ KeyReturn(p)
  BY <1>1, <1>2, <1>7 DEF InstallKey, UnlinkKey, WriteSignature, FindKey, KeyReturn
<1>8. CASE ReadKeyid(p)
  <2>1. KeyEnd(p) \/ keyCall'[p] = [keyCall[p] EXCEPT !.key = sig.key, !.pc = "find key"]
    BY <1>0, <1>8 DEF ReadKeyid
  <2> QED
    BY <1>0, <1>2, <2>1 DEF KeyCommand
<1>9. CASE ReadKey(p)
  BY <1>0, <1>2, <1>9 DEF ReadKey, KeyCommand
<1>10. CASE ReadSignature(p)
  BY <1>1, <1>2, <1>10 DEF ReadSignature
<1> QED
  BY <1>4, <1>5, <1>6, <1>7, <1>8, <1>9, <1>10 DEF KeyWork

-----------------------------------------------------------------------------
\* Verification

\* A verification that is under way took what it has in hand from what was there since
\* it started, the key from the file of the key id it has read; and where nothing has
\* changed, it has the parts that fit.
VerificationFits(c, w) ==
  c.job = "verify" =>
    /\ c.pc \in {"read key", "read signature"} => c.edition \in w.editions
    /\ c.pc = "read signature" => c.held \in w.keys
    /\ w.steady =>
         /\ Fits
         /\ c.pc \in {"find key", "read index", "read key", "read signature"} => c.key = sig.key
         /\ c.pc \in {"read key", "read signature"} => c.edition = index
         /\ c.pc = "read signature" => c.held = sig.key

VerifyInv == \A p \in KeyProc : VerificationFits(keyCall[p], keyWatch[p])

\* What the watch of a command that verifies after a step notes of it.
LEMMA Noted ==
  ASSUME TrustInv, TrustInv', KeyObserve, NEW q \in KeyProc, keyCall'[q].job = "verify"
  PROVE  LET w == keyWatch'[q] IN
         /\ keyCall'[q].key \in Key => {trusted[keyCall'[q].key]} \cap Key \subseteq w.keys
         /\ {index, index'} \subseteq w.editions
         /\ w.steady => UNCHANGED <<trusted, repository>>
         /\ keyCall[q].job = "verify" =>
              /\ keyWatch[q].keys \subseteq w.keys
              /\ keyWatch[q].editions \subseteq w.editions
              /\ w.steady => keyWatch[q].steady
         /\ keyCall[q].job # "verify" => (w.steady => Fits)
<1> DEFINE before == IF keyCall[q].job = "verify" THEN keyWatch[q]
                     ELSE [NoKeyWatch EXCEPT !.steady = Fits]
<1>1. keyWatch'[q] =
        [keys |-> before.keys \cup StoredFor(keyCall'[q].key),
         editions |-> before.editions \cup {index, index'},
         steady |-> before.steady /\ UNCHANGED <<trusted, repository>>]
  BY DEF KeyObserve
<1>2. keyCall[q].job # "verify" => (before.steady => Fits)
  BY DEF NoKeyWatch
<1>3. keyCall[q].job = "verify" => before = keyWatch[q]
  OBVIOUS
<1> HIDE DEF before
<1>4. /\ keyWatch'[q].keys = before.keys \cup StoredFor(keyCall'[q].key)
      /\ keyWatch'[q].editions = before.editions \cup {index, index'}
  BY <1>1
<1>5. keyWatch'[q].steady => before.steady /\ UNCHANGED <<trusted, repository>>
  <2> DEFINE steady == before.steady /\ UNCHANGED <<trusted, repository>>
  <2>1. keyWatch'[q].steady = steady
    <3> HIDE DEF steady
    <3> QED
      BY <1>1 DEF steady
  <2> QED
    BY <2>1
<1>6. keyCall'[q].key \in Key => {trusted[keyCall'[q].key]} \cap Key \subseteq StoredFor(keyCall'[q].key)
  BY TrustConstants DEF StoredFor, TrustConstantsOK
<1> QED
  BY <1>2, <1>3, <1>4, <1>5, <1>6

\* What fits still does where nothing changes.
LEMMA StillFits ==
  ASSUME Fits, UNCHANGED <<trusted, repository>>
  PROVE  Fits' /\ sig' = sig /\ index' = index
BY DEF Fits, repository

\* A command that a step leaves alone keeps what it has.
LEMMA Undisturbed ==
  ASSUME TrustInv, TrustInv', KeyObserve, NEW q \in KeyProc, keyCall'[q] = keyCall[q],
         VerificationFits(keyCall[q], keyWatch[q])
  PROVE  VerificationFits(keyCall[q], keyWatch[q])'
<1>1. CASE keyCall'[q].job # "verify"
  BY <1>1 DEF VerificationFits
<1>2. CASE keyCall'[q].job = "verify"
  <2> DEFINE c == keyCall[q]
             v == keyWatch[q]
             w == keyWatch'[q]
  <2>1. /\ v.keys \subseteq w.keys /\ v.editions \subseteq w.editions
        /\ w.steady => v.steady /\ UNCHANGED <<trusted, repository>>
    BY <1>2, Noted
  <2>2. /\ c.pc \in {"read key", "read signature"} => c.edition \in v.editions
        /\ c.pc = "read signature" => c.held \in v.keys
        /\ v.steady =>
             /\ Fits
             /\ c.pc \in {"find key", "read index", "read key", "read signature"} =>
                  c.key = sig.key
             /\ c.pc \in {"read key", "read signature"} => c.edition = index
             /\ c.pc = "read signature" => c.held = sig.key
    BY <1>2 DEF VerificationFits
  <2>3. w.steady => Fits' /\ sig' = sig /\ index' = index
    BY <2>1, <2>2, StillFits
  <2> QED
    BY <2>1, <2>2, <2>3 DEF VerificationFits
<1> QED
  BY <1>1, <1>2

\* A verification that starts: what fits at this moment is what the watch says.
LEMMA VerifyStarts ==
  ASSUME TrustInv, TrustInv', KeyObserve, NEW p \in KeyProc, KeyStart(p)
  PROVE  VerificationFits(keyCall[p], keyWatch[p])'
<1>0. keyCall \in [KeyProc -> KeyCommand] /\ (keyCall[p].pc = "idle" => keyCall[p] = NoKeyCommand)
  BY DEF TrustInv, TrustTypeOK
<1>1. ASSUME NEW job, NEW stage, NEW k, KeyEnter(p, job, stage, k)
      PROVE  keyCall[p].job = "none"
  BY <1>0, <1>1 DEF KeyEnter, NoKeyCommand
<1>2. ASSUME NEW job, NEW stage, NEW k, KeyEnter(p, job, stage, k)
      PROVE  keyCall'[p].job = job /\ keyCall'[p].pc = stage
  <2>1. keyCall'[p] = [NoKeyCommand EXCEPT !.job = job, !.pc = stage, !.key = k]
    BY <1>0, <1>2 DEF KeyEnter
  <2> QED
    BY <2>1 DEF NoKeyCommand
<1>3. CASE Verify(p)
  <2>1. /\ keyCall[p].job = "none" /\ keyCall'[p].job = "verify"
        /\ keyCall'[p].pc = "read keyid"
    BY <1>1, <1>2, <1>3 DEF Verify
  <2>2. keyWatch'[p].steady => Fits /\ UNCHANGED <<trusted, repository>>
    BY <2>1, Noted
  <2>3. keyWatch'[p].steady => Fits'
    BY <2>2, StillFits
  <2> QED
    BY <2>1, <2>3 DEF VerificationFits
<1>4. CASE Keygen(p) \/ TrustAdd(p) \/ TrustRemove(p) \/ SignIndex(p)
  <2>1. keyCall'[p].job # "verify"
    BY <1>2, <1>4 DEF Keygen, TrustAdd, TrustRemove, SignIndex
  <2> QED
    BY <2>1 DEF VerificationFits
<1> QED
  BY <1>3, <1>4 DEF KeyStart

\* What a verification can do next.
LEMMA VerifySteps ==
  ASSUME TrustInv, NEW p \in KeyProc, keyCall[p].job = "verify", KeyWork(p)
  PROVE  \/ ReadKeyid(p) \/ FindKey(p) \/ ReadIndex(p) \/ ReadKey(p) \/ ReadSignature(p)
         \/ KeyReturn(p)
<1>1. keyCall[p].pc \in {"read keyid", "find key", "read index", "read key",
                         "read signature", "done"}
  BY DEF TrustInv, StageFits
<1>2. ~WritePrivate(p) /\ ~WritePublic(p) /\ ~DropPrivate(p) /\ ~DropPublic(p)
  BY <1>1 DEF WritePrivate, WritePublic, DropPrivate, DropPublic, KeyAt
<1>3. ~Identify(p) /\ ~Copy(p) /\ ~InstallKey(p) /\ ~UnlinkKey(p) /\ ~WriteSignature(p)
  BY <1>1 DEF Identify, Copy, InstallKey, UnlinkKey, WriteSignature, KeyAt
<1> QED
  BY <1>2, <1>3 DEF KeyWork

LEMMA VerifyWorks ==
  ASSUME TrustInv, TrustInv', KeyObserve, NEW p \in KeyProc, KeyWork(p),
         VerificationFits(keyCall[p], keyWatch[p])
  PROVE  VerificationFits(keyCall[p], keyWatch[p])'
<1> DEFINE c == keyCall[p]
           d == keyCall'[p]
           v == keyWatch[p]
           w == keyWatch'[p]
<1>0. /\ keyCall \in [KeyProc -> KeyCommand] /\ c \in KeyCommand /\ StageFits(c)
      /\ trusted \in [Key -> KeyFile]
  BY DEF TrustInv, TrustTypeOK
<1>1. CASE d.job # "verify"
  BY <1>1 DEF VerificationFits
<1>2. CASE d.job = "verify"
  <2>1. c.job = "verify"
    BY <1>2, JobStays DEF NoKeyCommand
  <2>2. /\ v.keys \subseteq w.keys /\ v.editions \subseteq w.editions
        /\ d.key \in Key => {trusted[d.key]} \cap Key \subseteq w.keys
        /\ index \in w.editions
        /\ w.steady => v.steady /\ UNCHANGED <<trusted, repository>>
    BY <1>2, <2>1, Noted
  <2>3. /\ c.pc \in {"read key", "read signature"} => c.edition \in v.editions
        /\ c.pc = "read signature" => c.held \in v.keys
        /\ v.steady =>
             /\ Fits
             /\ c.pc \in {"find key", "read index", "read key", "read signature"} =>
                  c.key = sig.key
             /\ c.pc \in {"read key", "read signature"} => c.edition = index
             /\ c.pc = "read signature" => c.held = sig.key
    BY <2>1 DEF VerificationFits
  <2>4. w.steady => v.steady /\ Fits' /\ sig' = sig /\ index' = index
    BY <2>2, <2>3, StillFits
  <2>5. ~KeyEnd(p)
    BY <1>0, <1>2 DEF KeyEnd, NoKeyCommand
  <2>6. CASE ReadKeyid(p)
    <3>1. d = [c EXCEPT !.key = sig.key, !.pc = "find key"]
      BY <1>0, <2>5, <2>6 DEF ReadKeyid
    <3>2. d.key = sig.key /\ d.pc = "find key"
      BY <1>0, <3>1 DEF KeyCommand
    <3> QED
      BY <2>4, <3>2 DEF VerificationFits
  <2>7. CASE FindKey(p)
    <3>1. d = [c EXCEPT !.pc = "read index"] /\ c.pc = "find key"
      BY <1>0, <2>5, <2>7 DEF FindKey, KeyGoTo, KeyAt
    <3>2. d.key = c.key /\ d.pc = "read index"
      BY <1>0, <3>1 DEF KeyCommand
    <3> QED
      BY <2>3, <2>4, <3>1, <3>2 DEF VerificationFits
  <2>8. CASE ReadIndex(p)
    <3>1. d = [c EXCEPT !.edition = index, !.pc = "read key"] /\ c.pc = "read index"
      BY <1>0, <2>1, <2>8 DEF ReadIndex, KeyAt
    <3>2. d.key = c.key /\ d.edition = index /\ d.pc = "read key"
      BY <1>0, <3>1 DEF KeyCommand
    <3> QED
      BY <2>2, <2>3, <2>4, <3>1, <3>2 DEF VerificationFits
  <2>9. CASE ReadKey(p)
    <3>1. /\ d = [c EXCEPT !.held = trusted[c.key], !.pc = "read signature"]
          /\ c.pc = "read key" /\ trusted[c.key] \in Key
      BY <1>0, <2>5, <2>9 DEF ReadKey, KeyAt
    <3>2. d.key = c.key /\ d.held = trusted[c.key] /\ d.edition = c.edition
          /\ d.pc = "read signature"
      BY <1>0, <3>1 DEF KeyCommand
    <3>3. d.held \in w.keys
      <4>1. c.key \in Key
        BY <1>0, <3>1 DEF StageFits
      <4> QED
        BY <2>2, <3>1, <3>2, <4>1
    <3>4. v.steady => trusted[c.key] = sig.key
      BY <2>3, <3>1 DEF Fits
    <3> QED
      BY <2>2, <2>3, <2>4, <3>1, <3>2, <3>3, <3>4 DEF VerificationFits
  <2>10. CASE ReadSignature(p)
    <3>1. d = [c EXCEPT !.pc = "done"]
      BY <1>0, <2>5, <2>10 DEF ReadSignature, KeyGoTo
    <3>2. d.pc = "done"
      BY <1>0, <3>1 DEF KeyCommand
    <3> QED
      BY <2>3, <2>4, <3>2 DEF VerificationFits
  <2>11. CASE KeyReturn(p)
    BY <2>5, <2>11 DEF KeyReturn
  <2> QED
    BY <2>1, <2>6, <2>7, <2>8, <2>9, <2>10, <2>11, VerifySteps
<1> QED
  BY <1>1, <1>2

LEMMA VerifyFails ==
  ASSUME TrustInv, NEW p \in KeyProc, KeyFault(p) \/ KeyCrash(p)
  PROVE  keyCall'[p].job # "verify"
<1>1. keyCall \in [KeyProc -> KeyCommand] /\ StageFits(keyCall[p])
  BY DEF TrustInv, TrustTypeOK
<1>2. KeyEnd(p) => keyCall'[p].job = "none"
  BY <1>1 DEF KeyEnd, NoKeyCommand
<1>3. KeyGoTo(p, "drop private") => keyCall'[p].job = keyCall[p].job
  BY <1>1 DEF KeyGoTo, KeyCommand
<1>4. keyCall[p].pc \in {"private", "public"} => keyCall[p].job # "verify"
  BY <1>1 DEF StageFits
<1> QED
  BY <1>2, <1>3, <1>4 DEF KeyFault, KeyCrash

LEMMA VerifyKept ==
  TrustInv /\ TrustInv' /\ VerifyInv /\ [TrustNext]_trustVars => VerifyInv'
<1> SUFFICES ASSUME TrustInv, TrustInv', VerifyInv, [TrustNext]_trustVars, NEW q \in KeyProc
             PROVE  VerificationFits(keyCall[q], keyWatch[q])'
  BY DEF VerifyInv
<1>0. VerificationFits(keyCall[q], keyWatch[q])
  BY DEF VerifyInv
<1>1. CASE UNCHANGED trustVars
  BY <1>0, <1>1 DEF trustVars, VerificationFits, Fits
<1>2. CASE TrustNext
  <2>1. KeyObserve
    BY <1>2 DEF TrustNext
  <2>2. CASE keyCall'[q] = keyCall[q]
    BY <1>0, <2>1, <2>2, Undisturbed
  <2>3. CASE KeyStart(q)
    BY <2>1, <2>3, VerifyStarts
  <2>4. CASE KeyWork(q)
    BY <1>0, <2>1, <2>4, VerifyWorks
  <2>5. CASE KeyFault(q) \/ KeyCrash(q)
    BY <2>5, VerifyFails DEF VerificationFits
  <2>6. Offer \/ Reindex => keyCall'[q] = keyCall[q]
    BY DEF Offer, Reindex
  <2>7. ASSUME NEW p \in KeyProc \ {q},
               KeyStart(p) \/ KeyWork(p) \/ KeyFault(p) \/ KeyCrash(p)
        PROVE  keyCall'[q] = keyCall[q]
    BY <2>7, OthersStay
  <2> QED
    BY <1>2, <2>2, <2>3, <2>4, <2>5, <2>6, <2>7 DEF TrustNext
<1> QED
  BY <1>1, <1>2

LEMMA VerifyInits == TrustInit => VerifyInv
<1>1. NoKeyCommand.job # "verify"
  BY DEF NoKeyCommand
<1> QED
  BY <1>1 DEF TrustInit, VerifyInv, VerificationFits

LEMMA VerifyAlways == TrustSpec => [](TrustInv /\ VerifyInv)
BY TypesStart, TypesKept, VerifyInits, VerifyKept, PTL DEF TrustSpec

\* A verification that succeeds has used a key that was whole in the file of the key id
\* it reports, and an index that was in place, both since it started, however the two and
\* the signature were exchanged meanwhile and whoever was killed.
THEOREM AcceptancesAreTrusted == TrustSpec => AcceptedWasTrusted
<1>1. ASSUME TrustInv, VerifyInv, [TrustNext]_trustVars, NEW q \in KeyProc,
             keyCall[q].job = "verify", keyCall[q].pc # "done", keyCall'[q].pc = "done"
      PROVE  /\ keyCall'[q].key = keyCall[q].key
             /\ sig.key \in keyWatch[q].keys /\ sig.edition \in keyWatch[q].editions
  <2> DEFINE c == keyCall[q]
  <2>0. /\ keyCall \in [KeyProc -> KeyCommand] /\ c \in KeyCommand /\ c.pc # "idle"
        /\ VerificationFits(c, keyWatch[q])
    BY <1>1 DEF TrustInv, TrustTypeOK, StageFits, VerifyInv, NoKeyCommand
  <2>1. KeyEnd(q) => keyCall'[q].pc = "idle"
    BY <2>0 DEF KeyEnd, NoKeyCommand
  <2>2. CASE KeyStart(q)
    BY <2>0, <2>2 DEF KeyStart, KeyEnter, Keygen, TrustAdd, TrustRemove, SignIndex, Verify
  <2>3. CASE KeyWork(q)
    <3>1. \A stage : KeyGoTo(q, stage) => keyCall'[q] = [c EXCEPT !.pc = stage]
      BY <2>0 DEF KeyGoTo
    <3>2. CASE ReadSignature(q)
      <4>1. /\ c.pc = "read signature" /\ sig = [key |-> c.held, edition |-> c.edition]
            /\ keyCall'[q] = [c EXCEPT !.pc = "done"]
        BY <1>1, <2>1, <3>1, <3>2 DEF ReadSignature, KeyAt
      <4>2. sig.key = c.held /\ sig.edition = c.edition /\ keyCall'[q].key = c.key
        BY <2>0, <4>1 DEF KeyCommand
      <4> QED
        BY <1>1, <2>0, <4>1, <4>2 DEF VerificationFits
    <3>3. ~ReadKeyid(q)
      <4>1. ASSUME ReadKeyid(q), ~KeyEnd(q) PROVE keyCall'[q].pc = "find key"
        <5>1. keyCall'[q] = [c EXCEPT !.key = sig.key, !.pc = "find key"]
          BY <2>0, <4>1 DEF ReadKeyid
        <5> QED
          BY <2>0, <5>1 DEF KeyCommand
      <4> QED
        BY <1>1, <2>1, <4>1
    <3>4. ~FindKey(q)
      <4>1. KeyGoTo(q, "read index") => keyCall'[q].pc = "read index"
        BY <2>0 DEF KeyGoTo, KeyCommand
      <4> QED
        BY <1>1, <2>1, <4>1 DEF FindKey
    <3>5. ~ReadIndex(q)
      BY <1>1, <2>0 DEF ReadIndex, KeyCommand
    <3>6. ~ReadKey(q)
      <4>1. ASSUME ReadKey(q), ~KeyEnd(q) PROVE keyCall'[q].pc = "read signature"
        <5>1. keyCall'[q] = [c EXCEPT !.held = trusted[c.key], !.pc = "read signature"]
          BY <2>0, <4>1 DEF ReadKey
        <5> QED
          BY <2>0, <5>1 DEF KeyCommand
      <4> QED
        BY <1>1, <2>1, <4>1
    <3>7. ~KeyReturn(q)
      BY <1>1 DEF KeyReturn, KeyAt
    <3> QED
      BY <1>1, <2>3, <3>2, <3>3, <3>4, <3>5, <3>6, <3>7, VerifySteps
  <2>4. ~KeyFault(q) /\ ~KeyCrash(q)
    BY <1>1, <2>0, <2>1 DEF KeyFault, KeyCrash, KeyGoTo, KeyCommand
  <2>5. keyCall'[q] # keyCall[q]
    BY <1>1
  <2>6. ~UNCHANGED trustVars /\ ~Offer /\ ~Reindex
    BY <2>5 DEF trustVars, Offer, Reindex
  <2>7. ASSUME NEW p \in KeyProc \ {q},
               KeyStart(p) \/ KeyWork(p) \/ KeyFault(p) \/ KeyCrash(p)
        PROVE  FALSE
    BY <1>1, <2>5, <2>7, OthersStay
  <2> QED
    BY <1>1, <2>2, <2>3, <2>4, <2>6, <2>7 DEF TrustNext
<1>2. TrustInv /\ VerifyInv /\ [TrustNext]_trustVars =>
        [\A p \in KeyProc :
           keyCall[p].job = "verify" /\ keyCall[p].pc # "done" /\ keyCall'[p].pc = "done" =>
             /\ keyCall'[p].key = keyCall[p].key
             /\ sig.key \in keyWatch[p].keys /\ sig.edition \in keyWatch[p].editions]_trustVars
  BY <1>1
<1> QED
  BY <1>2, VerifyAlways, PTL DEF TrustSpec, AcceptedWasTrusted

\* As long as what fits stays as it is, no look of the verification goes wrong.
LEMMA GoodGoesOn ==
  ASSUME TrustInv, NEW p \in KeyProc, VerificationFits(keyCall[p], keyWatch[p]),
         KeyWork(p), keyCall[p].job = "verify", keyCall[p].pc # "done", keyWatch[p].steady
  PROVE  keyCall'[p].pc # "idle"
<1> DEFINE c == keyCall[p]
<1>0. keyCall \in [KeyProc -> KeyCommand] /\ c \in KeyCommand /\ StageFits(c)
  BY DEF TrustInv, TrustTypeOK
<1>1. /\ sig \in Signature /\ sig.edition = index /\ trusted[sig.key] = sig.key
      /\ c.pc \in {"find key", "read index", "read key", "read signature"} => c.key = sig.key
      /\ c.pc \in {"read key", "read signature"} => c.edition = index
      /\ c.pc = "read signature" => c.held = sig.key
  BY DEF VerificationFits, Fits
<1>2. sig.key \in Key /\ sig = [key |-> sig.key, edition |-> sig.edition]
  BY <1>1 DEF Signature
<1>3. NoKey \notin Key
  BY TrustConstants DEF TrustConstantsOK
<1>4. CASE ReadKeyid(p)
  BY <1>0, <1>1, <1>4 DEF ReadKeyid, KeyCommand
<1>5. CASE FindKey(p)
  BY <1>0, <1>1, <1>2, <1>3, <1>5 DEF FindKey, KeyAt, KeyGoTo, KeyCommand
<1>6. CASE ReadIndex(p)
  BY <1>0, <1>6 DEF ReadIndex, KeyCommand
<1>7. CASE ReadKey(p)
  BY <1>0, <1>1, <1>2, <1>7 DEF ReadKey, KeyAt, KeyCommand
<1>8. CASE ReadSignature(p)
  <2>1. sig = [key |-> c.held, edition |-> c.edition]
    BY <1>1, <1>2, <1>8 DEF ReadSignature, KeyAt
  <2>2. KeyGoTo(p, "done")
    BY <1>8, <2>1 DEF ReadSignature
  <2> QED
    BY <1>0, <2>2 DEF KeyGoTo, KeyCommand
<1>9. ~KeyReturn(p)
  BY DEF KeyReturn, KeyAt
<1> QED
  BY <1>4, <1>5, <1>6, <1>7, <1>8, <1>9, VerifySteps

\* A verification of a repository that fits and stays as it is fails for a failing call
\* or a kill only, whatever other commands do to other files.
THEOREM GoodOnesAreAccepted == TrustSpec => GoodIsAccepted
<1>1. ASSUME TrustInv, VerifyInv, [TrustNext]_trustVars, NEW q \in KeyProc,
             keyCall[q].job = "verify", keyCall[q].pc # "done", keyCall'[q].pc = "idle",
             keyWatch[q].steady
      PROVE  keySpent' # keySpent
  <2>0. keyCall[q].pc # "idle"
    BY <1>1 DEF TrustInv, StageFits
  <2>1. keyCall'[q] # keyCall[q]
    BY <1>1, <2>0
  <2>2. CASE KeyStart(q)
    BY <2>0, <2>2 DEF KeyStart, KeyEnter, Keygen, TrustAdd, TrustRemove, SignIndex, Verify
  <2>3. CASE KeyWork(q)
    BY <1>1, <2>3, GoodGoesOn DEF VerifyInv
  <2>4. CASE KeyFault(q) \/ KeyCrash(q)
    <3>1. keySpent \in Nat
      BY <1>1 DEF TrustInv, TrustTypeOK
    <3>2. keySpent' = keySpent + 1
      BY <2>4 DEF KeyFault, KeyCrash
    <3> QED
      BY <3>1, <3>2
  <2>5. ~UNCHANGED trustVars /\ ~Offer /\ ~Reindex
    BY <2>1 DEF trustVars, Offer, Reindex
  <2>6. ASSUME NEW p \in KeyProc \ {q},
               KeyStart(p) \/ KeyWork(p) \/ KeyFault(p) \/ KeyCrash(p)
        PROVE  FALSE
    BY <1>1, <2>1, <2>6, OthersStay
  <2> QED
    BY <1>1, <2>2, <2>3, <2>4, <2>5, <2>6 DEF TrustNext
<1>2. TrustInv /\ VerifyInv /\ [TrustNext]_trustVars =>
        [\A p \in KeyProc :
           keyCall[p].job = "verify" /\ keyCall[p].pc # "done" /\ keyCall'[p].pc = "idle" =>
             ~keyWatch[p].steady \/ keySpent' # keySpent]_trustVars
  BY <1>1
<1> QED
  BY <1>2, VerifyAlways, PTL DEF TrustSpec, GoodIsAccepted

-----------------------------------------------------------------------------
\* Key pairs

\* One process generates keys, as many pairs as it likes.
LoneKeygen == \A p, q \in KeyProc : "keygen" \in KeyRuns[p] \cap KeyRuns[q] => p = q

\* What a keygen has done so far.
KeygenFits(c) ==
  c.job = "keygen" =>
    /\ c.pc = "public" => private = c.key
    /\ c.pc = "drop public" => private = NoKey
    /\ c.pc = "done" => private = c.key /\ public = c.key

KeygenInv == \A p \in KeyProc :
  /\ keyCall[p].job = "keygen" => "keygen" \in KeyRuns[p]
  /\ KeygenFits(keyCall[p])

\* Nobody else touches the two files.
LEMMA KeyFilesStay ==
  ASSUME TrustInv, NEW p \in KeyProc, keyCall[p].job # "keygen",
         KeyStart(p) \/ KeyWork(p) \/ KeyFault(p) \/ KeyCrash(p)
  PROVE  private' = private /\ public' = public
<1>0. /\ keyCall[p].pc \notin {"private", "public", "drop private", "drop public"}
      /\ keyCall[p].job \in {"none", "keygen", "add", "remove", "sign", "verify"}
  BY DEF TrustInv, TrustTypeOK, StageFits, KeyCommand, NoKeyCommand
<1>1. CASE KeyStart(p)
  BY <1>1 DEF KeyStart, KeyEnter, Keygen, TrustAdd, TrustRemove, SignIndex, Verify
<1>2. CASE KeyFault(p) \/ KeyCrash(p)
  BY <1>0, <1>2 DEF KeyFault, KeyCrash, KeyAt
<1>3. ~WritePrivate(p) /\ ~WritePublic(p) /\ ~DropPrivate(p) /\ ~DropPublic(p)
  BY <1>0 DEF WritePrivate, WritePublic, DropPrivate, DropPublic, KeyAt
<1>4. CASE Identify(p) \/ Copy(p) \/ ReadIndex(p) \/ InstallKey(p) \/ UnlinkKey(p)
  BY <1>4 DEF Identify, Copy, ReadIndex, InstallKey, UnlinkKey, keygenFiles
<1>5. CASE WriteSignature(p) \/ ReadKeyid(p) \/ FindKey(p) \/ ReadKey(p) \/ ReadSignature(p)
  BY <1>5 DEF WriteSignature, ReadKeyid, FindKey, ReadKey, ReadSignature, keygenFiles
<1>6. CASE KeyReturn(p)
  BY <1>6 DEF KeyReturn
<1> QED
  BY <1>1, <1>2, <1>3, <1>4, <1>5, <1>6 DEF KeyWork

\* What a keygen can do next.
LEMMA KeygenSteps ==
  ASSUME TrustInv, NEW p \in KeyProc, keyCall[p].job = "keygen", KeyWork(p)
  PROVE  WritePrivate(p) \/ WritePublic(p) \/ DropPrivate(p) \/ DropPublic(p) \/ KeyReturn(p)
<1>1. keyCall[p].pc \in {"private", "public", "drop private", "drop public", "done"}
  BY DEF TrustInv, StageFits
<1>2. ~Identify(p) /\ ~Copy(p) /\ ~InstallKey(p) /\ ~UnlinkKey(p) /\ ~WriteSignature(p)
  BY <1>1 DEF Identify, Copy, InstallKey, UnlinkKey, WriteSignature, KeyAt
<1>3. ~ReadKeyid(p) /\ ~FindKey(p) /\ ~ReadIndex(p) /\ ~ReadKey(p) /\ ~ReadSignature(p)
  BY <1>1 DEF ReadKeyid, FindKey, ReadIndex, ReadKey, ReadSignature, KeyAt
<1> QED
  BY <1>2, <1>3 DEF KeyWork

LEMMA KeygenWorks ==
  ASSUME TrustInv, NEW p \in KeyProc, KeyWork(p), keyCall[p].job = "keygen",
         KeygenFits(keyCall[p])
  PROVE  KeygenFits(keyCall[p])'
<1> DEFINE c == keyCall[p]
           d == keyCall'[p]
<1>0. keyCall \in [KeyProc -> KeyCommand] /\ c \in KeyCommand /\ StageFits(c)
  BY DEF TrustInv, TrustTypeOK
<1>1. KeyEnd(p) => d.job = "none"
  BY <1>0 DEF KeyEnd, NoKeyCommand
<1>2. \A stage : KeyGoTo(p, stage) => d.pc = stage /\ d.key = c.key
  BY <1>0 DEF KeyGoTo, KeyCommand
<1>3. CASE WritePrivate(p)
  <2>1. CASE private = NoKey
    <3>1. private' = c.key /\ d.key = c.key /\ d.pc = "public"
      BY <1>2, <1>3, <2>1 DEF WritePrivate
    <3> QED
      BY <3>1 DEF KeygenFits
  <2>2. CASE private # NoKey
    <3>1. d.pc = "drop private"
      BY <1>2, <1>3, <2>2 DEF WritePrivate
    <3> QED
      BY <3>1 DEF KeygenFits
  <2> QED
    BY <2>1, <2>2
<1>4. CASE WritePublic(p)
  <2>1. private = c.key /\ private' = private
    BY <1>4 DEF WritePublic, KeygenFits, KeyAt
  <2>2. CASE public = NoKey
    <3>1. public' = c.key /\ d.key = c.key /\ d.pc = "done"
      BY <1>2, <1>4, <2>2 DEF WritePublic
    <3> QED
      BY <2>1, <3>1 DEF KeygenFits
  <2>3. CASE public # NoKey
    <3>1. d.pc = "drop private"
      BY <1>2, <1>4, <2>3 DEF WritePublic
    <3> QED
      BY <3>1 DEF KeygenFits
  <2> QED
    BY <2>2, <2>3
<1>5. CASE DropPrivate(p)
  <2>1. private' = NoKey /\ d.pc = "drop public"
    BY <1>2, <1>5 DEF DropPrivate
  <2> QED
    BY <2>1 DEF KeygenFits
<1>6. CASE DropPublic(p) \/ KeyReturn(p)
  BY <1>1, <1>6 DEF DropPublic, KeyReturn, KeygenFits
<1> QED
  BY <1>3, <1>4, <1>5, <1>6, KeygenSteps

LEMMA KeygenStarts ==
  ASSUME TrustInv, NEW p \in KeyProc, KeyStart(p)
  PROVE  /\ keyCall'[p].job \in KeyRuns[p]
         /\ keyCall'[p].pc \notin {"public", "drop public", "done"}
<1>0. keyCall \in [KeyProc -> KeyCommand]
  BY DEF TrustInv, TrustTypeOK
<1>1. ASSUME NEW job, NEW stage, NEW k, KeyEnter(p, job, stage, k)
      PROVE  keyCall'[p].job = job /\ keyCall'[p].pc = stage /\ job \in KeyRuns[p]
  <2>1. keyCall'[p] = [NoKeyCommand EXCEPT !.job = job, !.pc = stage, !.key = k]
    BY <1>0, <1>1 DEF KeyEnter
  <2>2. job \in KeyRuns[p]
    BY <1>1 DEF KeyEnter
  <2> QED
    BY <2>1, <2>2 DEF NoKeyCommand
<1>2. \E job \in KeyRuns[p],
         stage \in {"private", "identify", "unlink", "read index", "read keyid"} :
        keyCall'[p].job = job /\ keyCall'[p].pc = stage
  <2>1. CASE Keygen(p)
    BY <1>1, <2>1 DEF Keygen
  <2>2. CASE TrustAdd(p)
    BY <1>1, <2>2 DEF TrustAdd
  <2>3. CASE TrustRemove(p)
    BY <1>1, <2>3 DEF TrustRemove
  <2>4. CASE SignIndex(p)
    BY <1>1, <2>4 DEF SignIndex
  <2>5. CASE Verify(p)
    BY <1>1, <2>5 DEF Verify
  <2> QED
    BY <2>1, <2>2, <2>3, <2>4, <2>5 DEF KeyStart
<1> QED
  BY <1>2

LEMMA KeygenFails ==
  ASSUME TrustInv, NEW p \in KeyProc, KeyFault(p) \/ KeyCrash(p)
  PROVE  KeygenFits(keyCall[p])'
<1>0. keyCall \in [KeyProc -> KeyCommand] /\ keyCall[p] \in KeyCommand
  BY DEF TrustInv, TrustTypeOK
<1>1. KeyEnd(p) => keyCall'[p].job = "none"
  BY <1>0 DEF KeyEnd, NoKeyCommand
<1>2. ASSUME KeyGoTo(p, "drop private") PROVE keyCall'[p].pc = "drop private"
  <2>1. keyCall'[p] = [keyCall[p] EXCEPT !.pc = "drop private"]
    BY <1>0, <1>2 DEF KeyGoTo
  <2> QED
    BY <1>0, <2>1 DEF KeyCommand
<1> QED
  BY <1>1, <1>2 DEF KeyFault, KeyCrash, KeygenFits

LEMMA KeygenKept ==
  ASSUME LoneKeygen
  PROVE  TrustInv /\ TrustInv' /\ KeygenInv /\ [TrustNext]_trustVars => KeygenInv'
<1> SUFFICES ASSUME TrustInv, TrustInv', KeygenInv, [TrustNext]_trustVars, NEW q \in KeyProc
             PROVE  /\ keyCall'[q].job = "keygen" => "keygen" \in KeyRuns[q]
                    /\ KeygenFits(keyCall[q])'
  BY DEF KeygenInv
<1>0. (keyCall[q].job = "keygen" => "keygen" \in KeyRuns[q]) /\ KeygenFits(keyCall[q])
  BY DEF KeygenInv
<1>1. CASE keyCall'[q] = keyCall[q] /\ private' = private /\ public' = public
  BY <1>0, <1>1 DEF KeygenFits
<1>2. CASE KeyStart(q)
  BY <1>2, KeygenStarts DEF KeygenFits
<1>3. CASE KeyWork(q)
  <2>1. keyCall'[q].job = "keygen" => keyCall[q].job = "keygen"
    BY <1>3, JobStays DEF NoKeyCommand
  <2>2. keyCall[q].job = "keygen" => KeygenFits(keyCall[q])'
    BY <1>0, <1>3, KeygenWorks
  <2> QED
    BY <1>0, <2>1, <2>2 DEF KeygenFits
<1>4. CASE KeyFault(q) \/ KeyCrash(q)
  <2>1. keyCall'[q].job = "keygen" => keyCall[q].job = "keygen"
    BY <1>4, JobStays DEF NoKeyCommand
  <2> QED
    BY <1>0, <1>4, <2>1, KeygenFails
<1>5. ASSUME NEW p \in KeyProc \ {q},
             KeyStart(p) \/ KeyWork(p) \/ KeyFault(p) \/ KeyCrash(p)
      PROVE  /\ keyCall'[q].job = "keygen" => "keygen" \in KeyRuns[q]
             /\ KeygenFits(keyCall[q])'
  <2>1. keyCall'[q] = keyCall[q]
    BY <1>5, OthersStay
  <2>2. CASE keyCall[q].job = "keygen"
    <3>1. keyCall[p].job # "keygen"
      BY <1>0, <2>2 DEF KeygenInv, LoneKeygen
    <3> QED
      BY <1>1, <1>5, <2>1, <3>1, KeyFilesStay
  <2>3. CASE keyCall[q].job # "keygen"
    BY <2>1, <2>3 DEF KeygenFits
  <2> QED
    BY <2>2, <2>3
<1>6. UNCHANGED trustVars \/ Offer \/ Reindex =>
        keyCall'[q] = keyCall[q] /\ private' = private /\ public' = public
  BY DEF trustVars, Offer, Reindex, keygenFiles
<1> QED
  BY <1>1, <1>2, <1>3, <1>4, <1>5, <1>6 DEF TrustNext

\* Where one process at a time generates keys, a keygen leaves the pair where it
\* succeeds and neither file where it fails, also after killed ones, and whatever the
\* commands about other files do.
THEOREM KeygenIsAtomic ==
  ASSUME LoneKeygen
  PROVE  TrustSpec => KeygenAllOrNothing
<1> DEFINE Result(p) == IF KeyAt(p, "done") THEN keyCall[p].key ELSE NoKey
<1>1. TrustInit => KeygenInv
  <2>1. NoKeyCommand.job = "none"
    BY DEF NoKeyCommand
  <2> QED
    BY <2>1 DEF TrustInit, KeygenInv, KeygenFits
<1>2. ASSUME TrustInv, KeygenInv, [TrustNext]_trustVars, NEW q \in KeyProc,
             keyCall[q].job = "keygen", keyCall'[q].pc = "idle", keySpent' = keySpent
      PROVE  private' = Result(q) /\ public' = Result(q)
  <2>0. /\ keyCall \in [KeyProc -> KeyCommand] /\ StageFits(keyCall[q]) /\ keySpent \in Nat
        /\ KeygenFits(keyCall[q])
    BY <1>2 DEF TrustInv, TrustTypeOK, KeygenInv
  <2>1. keyCall[q].pc # "idle" /\ keyCall'[q] # keyCall[q]
    BY <1>2, <2>0 DEF StageFits
  <2>2. \A stage \in {"public", "drop private", "drop public", "done"} : ~KeyGoTo(q, stage)
    BY <1>2, <2>0 DEF KeyGoTo, KeyCommand
  <2>3. CASE KeyStart(q)
    BY <2>1, <2>3 DEF KeyStart, KeyEnter, Keygen, TrustAdd, TrustRemove, SignIndex, Verify
  <2>4. CASE KeyWork(q)
    <3>1. ~WritePrivate(q) /\ ~WritePublic(q) /\ ~DropPrivate(q)
      BY <2>2 DEF WritePrivate, WritePublic, DropPrivate
    <3>2. CASE DropPublic(q)
      BY <1>2, <2>0, <3>2 DEF DropPublic, KeygenFits, KeyAt
    <3>3. CASE KeyReturn(q)
      BY <1>2, <2>0, <3>3 DEF KeyReturn, KeygenFits, KeyAt
    <3> QED
      BY <1>2, <2>4, <3>1, <3>2, <3>3, KeygenSteps
  <2>5. ~KeyFault(q) /\ ~KeyCrash(q)
    <3>1. KeyFault(q) \/ KeyCrash(q) => keySpent' = keySpent + 1
      BY DEF KeyFault, KeyCrash
    <3> QED
      BY <1>2, <2>0, <3>1
  <2>6. ~UNCHANGED trustVars /\ ~Offer /\ ~Reindex
    BY <2>1 DEF trustVars, Offer, Reindex
  <2>7. ASSUME NEW p \in KeyProc \ {q},
               KeyStart(p) \/ KeyWork(p) \/ KeyFault(p) \/ KeyCrash(p)
        PROVE  FALSE
    BY <1>2, <2>1, <2>7, OthersStay
  <2> QED
    BY <1>2, <2>3, <2>4, <2>5, <2>6, <2>7 DEF TrustNext
<1>3. TrustInv /\ KeygenInv /\ [TrustNext]_trustVars =>
        [\A p \in KeyProc :
           keyCall[p].job = "keygen" /\ keyCall'[p].pc = "idle" /\ keySpent' = keySpent =>
             private' = Result(p) /\ public' = Result(p)]_trustVars
  BY <1>2
<1> QED
  BY <1>1, <1>3, TypesStart, TypesKept, KeygenKept, PTL DEF TrustSpec, KeygenAllOrNothing
===============================================================================
