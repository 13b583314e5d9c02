--------------------------- MODULE RepoUpdateProofs --------------------------
(***************************************************************************)
(* Theorems about pux update, for any number of updates beside each other, *)
(* any number of editions and any number of failures and kills.            *)
(***************************************************************************)
EXTENDS RepoUpdate, TLAPS

-----------------------------------------------------------------------------
\* The inductive invariant

\* What an update of p has downloaded: an index that was there, and the signature
\* for it where one is required.
Downloaded(p, u) ==
  /\ u.pc \notin {"idle", "index"} => u.stage.index # 0
  /\ p \in Required /\ u.pc \notin {"idle", "index", "signature"} =>
       u.stage.sig = u.stage.index

\* Which of the files b replace_metadata would see.
There(b) == {f \in {"index", "sig"} : b[f] # 0}

\* Where an update that runs alone has the old files b, when the local directory
\* holds c: in their places at first, then in its backup, and on the way back at last.
InPlace(u, c, b) ==
  u.pc \in {"index", "signature", "look", "backup index"} =>
    /\ c = b /\ u.backup = NoFiles /\ u.done = {}
    /\ u.pc = "backup index" => u.seen = There(b)

HalfMoved(u, c, b) ==
  u.pc = "backup signature" =>
    /\ c.index = 0 /\ u.backup.index = b.index
    /\ c.sig = b.sig /\ u.backup.sig = 0
    /\ u.done = {} /\ u.seen = There(b)

\* From then on the directory holds new files only, those the update has put there.
Moved(u, c, b) ==
  /\ u.pc \in {"commit index", "commit signature", "sync", "drop signature", "drop index"} =>
       /\ u.backup = b
       /\ "index" \notin u.done => c.index = 0
       /\ "sig" \notin u.done \/ u.pc = "drop index" => c.sig = 0
  /\ u.pc = "commit index" => u.done = {}
  /\ u.pc = "commit signature" => u.done = {"index"}
  /\ u.pc \in {"commit signature", "sync"} => c.index = u.stage.index
  /\ u.pc = "sync" => c.sig = u.stage.sig

ComingBack(u, c, b) ==
  /\ u.pc = "restore index" => c.index = 0 /\ u.backup.index = b.index
  /\ u.pc = "restore signature" => c.index = b.index
  /\ u.pc \in {"restore index", "restore signature"} =>
       \/ c.sig = 0 /\ u.backup.sig = b.sig
       \/ c.sig = b.sig /\ u.backup.sig = 0

Tracked(u, c, b) ==
  InPlace(u, c, b) /\ HalfMoved(u, c, b) /\ Moved(u, c, b) /\ ComingBack(u, c, b)

\* Index e, or one that a killed update left, is as new as edition n.
AsNew(e, left, n) == n # 0 => e >= n \/ \E l \in left : l >= n

\* As long as no two updates have met: at most one runs, it has the old files, and the
\* index the last successful one took is among these, or else in place.
Alone ==
  /\ \A p, q \in Proc : ~Idle(p) /\ ~Idle(q) => p = q
  /\ \A p \in Proc : ~Idle(p) => /\ Tracked(upd[p], cache, before)
                                /\ AsNew(before.index, attic, current)
  /\ Quiet => AsNew(cache.index, attic, current)

UpdateInv ==
  /\ UpdateTypeOK
  /\ \A p \in Proc : Downloaded(p, upd[p])
  /\ ~met => Alone

\* p keeps an old index that it is going to put back or to replace.
Holding(p) ==
  /\ upd[p].pc \in {"backup signature", "commit index", "restore index"}
  /\ upd[p].backup.index # 0

Calm == \A e \in Event : spent[e] = 0

\* As long as nothing fails by itself no update takes its index back, and the place of
\* an index that was put there is empty only while some update holds an old one.
CalmInv ==
  Calm =>
    /\ \A p \in Proc : upd[p].pc \notin {"drop signature", "drop index"}
    /\ (current # 0 \/ \E p \in Proc : upd[p].pc \in {"commit signature", "sync"}) =>
         cache.index # 0 \/ \E p \in Proc : Holding(p)

-----------------------------------------------------------------------------
\* Lemmas

\* Where every edition is a number, the record of no files is one of files.
LEMMA NoFilesTyped ==
  ASSUME ConstantsOK
  PROVE  NoFiles \in Metadata /\ NoUpdate \in Update /\ Edition \subseteq Nat /\ 0 \in Edition
<1>1. Edition \subseteq Nat /\ 0 \in Edition
  BY DEF ConstantsOK, Edition
<1> QED
  BY <1>1 DEF NoFiles, Metadata, NoUpdate, Update, Stage

LEMMA SameFiles ==
  ASSUME NEW x \in Metadata, NEW y \in Metadata, x.index = y.index, x.sig = y.sig
  PROVE  x = y
BY DEF Metadata

\* No update runs and no file is there to begin with.
LEMMA UpdateStarts ==
  ASSUME ConstantsOK
  PROVE  UpdateInit => UpdateInv /\ CalmInv
<1> SUFFICES ASSUME UpdateInit PROVE UpdateInv /\ CalmInv
  OBVIOUS
<1>1. UpdateTypeOK
  BY NoFilesTyped DEF UpdateInit, UpdateTypeOK
<1>2. \A p \in Proc : upd[p] = NoUpdate /\ upd[p].pc = "idle"
  BY DEF UpdateInit, NoUpdate
<1>3. \A p \in Proc : Downloaded(p, upd[p])
  BY <1>2 DEF Downloaded
<1>4. Alone /\ CalmInv
  BY <1>2 DEF UpdateInit, Alone, AsNew, CalmInv, Idle
<1> QED
  BY <1>1, <1>3, <1>4 DEF UpdateInv

\* A step of a running update of p, which becomes u, keeps the invariant when u has
\* downloaded what it should have and still has the old files or, when it ends here,
\* has put them back, left them behind or taken new ones.
LEMMA Moves ==
  ASSUME ConstantsOK, UpdateInv, NEW p \in Proc, ~Idle(p),
         NEW u \in Update, upd' = [upd EXCEPT ![p] = u],
         u.pc = "idle" => u = NoUpdate, Downloaded(p, u),
         cache' \in Metadata, attic' \in SUBSET Edition, attic \subseteq attic',
         current' \in Edition, spent' \in [Event -> Nat], UNCHANGED <<server, met, before>>,
         ~met /\ u.pc # "idle" => Tracked(u, cache', before) /\ current' = current,
         ~met /\ u.pc = "idle" =>
           \/ current' = cache'.index
           \/ /\ current' = current
              /\ \/ before.index = 0 \/ cache'.index = before.index
                 \/ before.index \in attic'
  PROVE  UpdateInv'
<1>ty. /\ upd \in [Proc -> Update] /\ current \in Nat /\ before \in Metadata
       /\ \A q \in Proc : upd[q].pc = "idle" => upd[q] = NoUpdate
       /\ cache \in Metadata /\ attic \subseteq Edition /\ server \in Metadata /\ met \in BOOLEAN
  BY NoFilesTyped DEF UpdateInv, UpdateTypeOK
<1>1. \A q \in Proc : upd'[q] = IF q = p THEN u ELSE upd[q]
  BY <1>ty
<1>2. UpdateTypeOK'
  BY <1>ty, <1>1 DEF UpdateTypeOK
<1>3. \A q \in Proc : Downloaded(q, upd'[q])
  BY <1>1 DEF UpdateInv
<1>4. ASSUME ~met' PROVE Alone'
  <2>1. ~met /\ Alone /\ before' = before
    BY <1>4 DEF UpdateInv
  <2>2. \A q \in Proc : q # p => Idle(q) /\ Idle(q)'
    BY <2>1, <1>1 DEF Alone, Idle
  <2>3. AsNew(before.index, attic, current)
    BY <2>1 DEF Alone
  <2>4. current \in Nat /\ before.index \in Nat /\ cache'.index \in Nat /\ attic' \subseteq Nat
    BY <1>ty, NoFilesTyped DEF Metadata
  <2>5. CASE u.pc # "idle"
    <3>1. AsNew(before.index, attic', current')
      BY <2>1, <2>3, <2>5 DEF AsNew
    <3>2. upd'[p] = u /\ Tracked(u, cache', before)
      BY <2>1, <2>5, <1>1
    <3>3. ~Idle(p)'
      BY <2>5, <3>2 DEF Idle
    <3> QED
      BY <2>1, <2>2, <3>1, <3>2, <3>3 DEF Alone, Quiet
  <2>6. CASE u.pc = "idle"
    <3>1. \A q \in Proc : Idle(q)'
      BY <2>2, <2>6, <1>1 DEF Idle
    <3>2. AsNew(cache'.index, attic', current')
      BY <2>1, <2>3, <2>4, <2>6 DEF AsNew
    <3> QED
      BY <3>1, <3>2 DEF Alone
  <2> QED
    BY <2>5, <2>6
<1> QED
  BY <1>2, <1>3, <1>4 DEF UpdateInv

\* Every step of an update, and of the server, keeps the invariant.
LEMMA UpdateStep ==
  ASSUME ConstantsOK
  PROVE  UpdateInv /\ [UpdateNext]_updateVars => UpdateInv'
<1> SUFFICES ASSUME UpdateInv, [UpdateNext]_updateVars PROVE UpdateInv'
  OBVIOUS
<1>ty. /\ upd \in [Proc -> Update] /\ current \in Edition /\ before \in Metadata
       /\ \A q \in Proc : upd[q].pc = "idle" => upd[q] = NoUpdate
       /\ cache \in Metadata /\ attic \in SUBSET Edition /\ server \in Metadata /\ met \in BOOLEAN
       /\ spent \in [Event -> Nat]
  BY DEF UpdateInv, UpdateTypeOK
<1>no. NoFiles \in Metadata /\ NoUpdate \in Update /\ Edition \subseteq Nat /\ 0 \in Edition
       /\ NoUpdate.pc = "idle" /\ NoUpdate.stage = NoFiles
  BY NoFilesTyped DEF NoUpdate
<1>nf. NoFiles.index = 0 /\ NoFiles.sig = 0
  BY DEF NoFiles
<1>al. ASSUME ~met, NEW p \in Proc, ~Idle(p) PROVE Tracked(upd[p], cache, before)
  BY <1>al DEF UpdateInv, Alone
<1>ni. \A p : Downloaded(p, NoUpdate)
  BY <1>no DEF Downloaded
\* An update that ends before it has moved anything, or has put everything back.
<1>en. ASSUME NEW p \in Proc, ~Idle(p), EndUpdate(p), UNCHANGED <<server, attic, met, before, current>>,
              spent' \in [Event -> Nat], cache' \in Metadata,
              ~met => cache'.index = before.index
       PROVE  UpdateInv'
  BY <1>en, <1>ty, <1>no, <1>ni, Moves DEF EndUpdate
\* An update that goes on.
<1>go. ASSUME NEW p \in Proc, ~Idle(p), NEW u \in Update, upd' = [upd EXCEPT ![p] = u],
              u.pc # "idle", Downloaded(p, u), cache' \in Metadata,
              UNCHANGED <<server, attic, met, before, current>>, spent' \in [Event -> Nat],
              ~met => Tracked(u, cache', before)
       PROVE  UpdateInv'
  BY <1>go, <1>ty, Moves
<1>1. CASE UNCHANGED updateVars
  <2>1. \A p \in Proc : Idle(p)' <=> Idle(p)
    BY <1>1 DEF updateVars, Idle
  <2>2. Quiet' <=> Quiet
    BY <2>1 DEF Quiet
  <2>3. Alone => Alone'
    BY <1>1, <2>1, <2>2 DEF Alone, updateVars
  <2> QED
    BY <1>1, <2>3 DEF updateVars, UpdateInv, UpdateTypeOK
<1>2. CASE Publish \/ Sign
  <2>1. server' \in Metadata /\ UNCHANGED <<cache, upd, attic, current, met, before, spent>>
    <3>1. CASE Publish
      <4>1. server.index + 1 \in Edition
        BY <1>ty, <1>no, <3>1 DEF Publish, Metadata, Edition, ConstantsOK
      <4> QED
        BY <1>ty, <1>no, <3>1, <4>1 DEF Publish, Metadata
    <3>2. CASE Sign
      BY <1>ty, <3>2 DEF Sign, Metadata
    <3> QED
      BY <1>2, <3>1, <3>2
  <2>2. \A p \in Proc : Idle(p)' <=> Idle(p)
    BY <2>1 DEF Idle
  <2>3. Quiet' <=> Quiet
    BY <2>2 DEF Quiet
  <2>4. Alone => Alone'
    BY <2>1, <2>2, <2>3 DEF Alone
  <2> QED
    BY <2>1, <2>4 DEF UpdateInv, UpdateTypeOK
<1>3. ASSUME NEW p \in Proc, BeginUpdate(p) PROVE UpdateInv'
  <2> DEFINE u == [upd[p] EXCEPT !.pc = "index"]
  <2>1. upd[p] = NoUpdate
    BY <1>3, <1>ty DEF BeginUpdate, Idle
  <2>2. /\ u \in Update /\ u.pc = "index" /\ u.backup = NoFiles /\ u.done = {}
    <3>1. NoUpdate \in Update /\ NoUpdate.backup = NoFiles /\ NoUpdate.done = {}
      BY <1>no DEF NoUpdate
    <3> QED
      BY <2>1, <3>1 DEF Update, Stage
  <2>3. \A q \in Proc : upd'[q] = IF q = p THEN u ELSE upd[q]
    BY <1>3, <1>ty DEF BeginUpdate, GoTo
  <2>4. /\ met' \in BOOLEAN /\ before' \in Metadata
        /\ UNCHANGED <<server, cache, attic, current, spent>>
    BY <1>3, <1>ty, <1>no DEF BeginUpdate
  <2>5. UpdateTypeOK'
    <3>1. upd' \in [Proc -> Update]
      BY <1>3, <1>ty, <2>2 DEF BeginUpdate, GoTo
    <3>2. \A q \in Proc : upd'[q].pc = "idle" => upd'[q] = NoUpdate
      BY <2>3, <2>2, <1>ty
    <3> QED
      BY <2>4, <1>ty, <3>1, <3>2 DEF UpdateTypeOK
  <2>6. \A q \in Proc : Downloaded(q, upd'[q])
    <3>1. Downloaded(p, u)
      BY <2>2 DEF Downloaded
    <3> QED
      BY <3>1, <2>3 DEF UpdateInv
  <2>7. ASSUME ~met' PROVE Alone'
    <3>1. ~met /\ Alone /\ before' = cache /\ \A q \in Proc : Idle(q)
      BY <1>3, <2>7 DEF BeginUpdate, UpdateInv
    <3>2. AsNew(cache.index, attic, current)
      BY <3>1 DEF Alone, Quiet
    <3>3. Tracked(u, cache', before')
      BY <2>2, <2>4, <3>1 DEF Tracked, InPlace, HalfMoved, Moved, ComingBack
    <3>4. \A q \in Proc : q # p => Idle(q)'
      BY <2>3, <3>1 DEF Idle
    <3>5. ~Idle(p)' /\ upd'[p] = u
      BY <2>2, <2>3 DEF Idle
    <3>6. AsNew(before'.index, attic', current')
      BY <2>4, <3>1, <3>2
    <3> QED
      BY <3>3, <3>4, <3>5, <3>6 DEF Alone, Quiet
  <2> QED
    BY <2>5, <2>6, <2>7 DEF UpdateInv
<1>4. ASSUME NEW p \in Proc, FetchIndex(p) PROVE UpdateInv'
  <2> DEFINE u == [upd[p] EXCEPT !.stage.index = server.index, !.pc = "signature"]
  <2>0. ~Idle(p)
    BY <1>4 DEF FetchIndex, Idle
  <2>1. ~met => InPlace(upd[p], cache, before)
    BY <2>0, <1>al DEF Tracked
  <2>2. CASE server.index = 0
    BY <1>4, <1>en, <1>ty, <2>0, <2>1, <2>2 DEF FetchIndex, InPlace
  <2>3. CASE server.index # 0
    <3>1. u \in Update /\ u.pc = "signature" /\ u.stage.index = server.index
          /\ u.backup = upd[p].backup /\ u.done = upd[p].done
      BY <1>ty, <1>no DEF Update, Stage, Metadata
    <3>2. upd' = [upd EXCEPT ![p] = u]
      BY <1>4, <1>ty, <2>3 DEF FetchIndex, Update
    <3>3. Downloaded(p, u)
      BY <2>3, <3>1 DEF Downloaded
    <3>4. ~met => Tracked(u, cache', before)
      BY <1>4, <2>1, <3>1 DEF FetchIndex, Tracked, InPlace, HalfMoved, Moved, ComingBack
    <3> HIDE DEF u
    <3> QED
      BY <1>4, <1>go, <1>ty, <2>0, <3>1, <3>2, <3>3, <3>4 DEF FetchIndex
  <2> QED
    BY <2>2, <2>3
<1>5. ASSUME NEW p \in Proc, FetchSignature(p) PROVE UpdateInv'
  <2> DEFINE u == [upd[p] EXCEPT !.stage.sig = server.sig, !.pc = "look"]
  <2>0. ~Idle(p) /\ upd[p].pc = "signature"
    BY <1>5 DEF FetchSignature, Idle
  <2>1. ~met => InPlace(upd[p], cache, before)
    BY <2>0, <1>al DEF Tracked
  <2>2. CASE p \in Required /\ server.sig # upd[p].stage.index
    BY <1>5, <1>en, <1>ty, <2>0, <2>1, <2>2 DEF FetchSignature, InPlace
  <2>3. CASE ~(p \in Required /\ server.sig # upd[p].stage.index)
    <3>1. u \in Update /\ u.pc = "look" /\ u.stage.sig = server.sig
          /\ u.stage.index = upd[p].stage.index
          /\ u.backup = upd[p].backup /\ u.done = upd[p].done
      BY <1>ty, <1>no DEF Update, Stage, Metadata
    <3>2. upd' = [upd EXCEPT ![p] = u]
      BY <1>5, <1>ty, <2>3 DEF FetchSignature, Update
    <3>3. Downloaded(p, u)
      BY <2>0, <2>3, <3>1 DEF Downloaded, UpdateInv
    <3>4. ~met => Tracked(u, cache', before)
      BY <1>5, <2>0, <2>1, <3>1 DEF FetchSignature, Tracked, InPlace, HalfMoved, Moved, ComingBack
    <3> HIDE DEF u
    <3> QED
      BY <1>5, <1>go, <1>ty, <2>0, <3>1, <3>2, <3>3, <3>4 DEF FetchSignature
  <2> QED
    BY <2>2, <2>3
<1>6. ASSUME NEW p \in Proc, Look(p) PROVE UpdateInv'
  <2> DEFINE u == [upd[p] EXCEPT !.seen = There(cache), !.pc = "backup index"]
  <2>0. ~Idle(p) /\ upd[p].pc = "look"
    BY <1>6 DEF Look, Idle
  <2>1. ~met => InPlace(upd[p], cache, before)
    BY <2>0, <1>al DEF Tracked
  <2>2. u \in Update /\ u.pc = "backup index" /\ u.seen = There(cache)
        /\ u.stage = upd[p].stage /\ u.backup = upd[p].backup /\ u.done = upd[p].done
    BY <1>ty DEF Update, Stage, There
  <2>3. upd' = [upd EXCEPT ![p] = u] /\ UNCHANGED <<server, cache, attic, current, met, before, spent>>
    BY <1>6, <1>ty DEF Look, Update, There
  <2>4. Downloaded(p, u)
    BY <2>0, <2>2 DEF Downloaded, UpdateInv
  <2>5. ~met => Tracked(u, cache', before)
    BY <2>0, <2>1, <2>2, <2>3 DEF Tracked, InPlace, HalfMoved, Moved, ComingBack
  <2> HIDE DEF u
  <2> QED
    BY <1>go, <1>ty, <2>0, <2>2, <2>3, <2>4, <2>5
<1>7. ASSUME NEW p \in Proc, BackUpIndex(p) PROVE UpdateInv'
  <2>0. ~Idle(p) /\ upd[p].pc = "backup index"
        /\ UNCHANGED <<server, attic, current, met, before, spent>>
    BY <1>7 DEF BackUpIndex, Idle
  <2>1. ~met => /\ cache = before /\ upd[p].backup = NoFiles /\ upd[p].done = {}
                /\ upd[p].seen = There(before)
    BY <2>0, <1>al DEF Tracked, InPlace
  <2>in. "index" \in There(before) <=> before.index # 0
    BY <1>ty DEF There, Metadata
  <2>2. CASE "index" \notin upd[p].seen
    <3> DEFINE u == [upd[p] EXCEPT !.pc = "backup signature"]
    <3>1. u \in Update /\ u.pc = "backup signature" /\ u.stage = upd[p].stage
          /\ u.backup = upd[p].backup /\ u.done = upd[p].done /\ u.seen = upd[p].seen
      BY <1>ty DEF Update, Stage
    <3>2. upd' = [upd EXCEPT ![p] = u] /\ cache' = cache
      BY <1>7, <2>2, <1>ty DEF BackUpIndex, GoTo, Update
    <3>3. Downloaded(p, u)
      BY <2>0, <3>1 DEF Downloaded, UpdateInv
    <3>4. ~met => Tracked(u, cache', before)
      BY <2>0, <2>1, <2>2, <2>in, <3>1, <3>2, <1>nf
      DEF Tracked, InPlace, HalfMoved, Moved, ComingBack
    <3> HIDE DEF u
    <3> QED
      BY <1>go, <1>ty, <2>0, <3>1, <3>2, <3>3, <3>4
  <2>3. CASE "index" \in upd[p].seen /\ cache.index # 0
    <3> DEFINE u == [upd[p] EXCEPT !.backup.index = cache.index, !.pc = "backup signature"]
    <3>1. u \in Update /\ u.pc = "backup signature" /\ u.stage = upd[p].stage
          /\ u.backup.index = cache.index /\ u.backup.sig = upd[p].backup.sig
          /\ u.done = upd[p].done /\ u.seen = upd[p].seen
      BY ZenonT(60), <1>ty DEF Update, Stage, Metadata
    <3>2. upd' = [upd EXCEPT ![p] = u] /\ cache' = [cache EXCEPT !.index = 0]
      BY <1>7, <2>3, <1>ty DEF BackUpIndex, Update
    <3>3. cache' \in Metadata /\ cache'.index = 0 /\ cache'.sig = cache.sig
      BY <3>2, <1>ty, <1>no DEF Metadata
    <3>4. Downloaded(p, u)
      BY <2>0, <3>1 DEF Downloaded, UpdateInv
    <3>5. ~met => Tracked(u, cache', before)
      BY <2>0, <2>1, <2>3, <3>1, <3>3, <1>nf
      DEF Tracked, InPlace, HalfMoved, Moved, ComingBack
    <3> HIDE DEF u
    <3> QED
      BY <1>go, <1>ty, <2>0, <3>1, <3>2, <3>3, <3>4, <3>5
  <2>4. CASE "index" \in upd[p].seen /\ cache.index = 0
    <3>1. EndUpdate(p) /\ cache' = cache
      BY <1>7, <2>4 DEF BackUpIndex
    <3>2. met
      BY <2>1, <2>4, <2>in
    <3> QED
      BY <1>en, <1>ty, <2>0, <3>1, <3>2
  <2> QED
    BY <1>7, <2>2, <2>3, <2>4 DEF BackUpIndex
<1>8. ASSUME NEW p \in Proc, BackUpSignature(p) PROVE UpdateInv'
  <2>0. ~Idle(p) /\ upd[p].pc = "backup signature"
        /\ UNCHANGED <<server, attic, current, met, before, spent>>
    BY <1>8 DEF BackUpSignature, Idle
  <2>1. ~met => /\ cache.index = 0 /\ upd[p].backup.index = before.index
                /\ cache.sig = before.sig /\ upd[p].backup.sig = 0
                /\ upd[p].done = {} /\ upd[p].seen = There(before)
    BY <2>0, <1>al DEF Tracked, HalfMoved
  <2>in. "sig" \in There(before) <=> before.sig # 0
    BY <1>ty DEF There, Metadata
  <2>2. CASE "sig" \notin upd[p].seen
    <3> DEFINE u == [upd[p] EXCEPT !.pc = "commit index"]
    <3>1. u \in Update /\ u.pc = "commit index" /\ u.stage = upd[p].stage
          /\ u.backup = upd[p].backup /\ u.backup \in Metadata /\ u.done = upd[p].done
      BY <1>ty DEF Update, Stage
    <3>2. upd' = [upd EXCEPT ![p] = u] /\ cache' = cache
      BY <1>8, <2>2, <1>ty DEF BackUpSignature, GoTo, Update
    <3>3. Downloaded(p, u)
      BY <2>0, <3>1 DEF Downloaded, UpdateInv
    <3>4. ~met => u.backup = before
      BY <1>ty, <2>1, <2>2, <2>in, <3>1, SameFiles
    <3>5. ~met => Tracked(u, cache', before)
      BY <2>0, <2>1, <2>2, <2>in, <3>1, <3>2, <3>4
      DEF Tracked, InPlace, HalfMoved, Moved, ComingBack
    <3> HIDE DEF u
    <3> QED
      BY <1>go, <1>ty, <2>0, <3>1, <3>2, <3>3, <3>5
  <2>3. CASE "sig" \in upd[p].seen /\ cache.sig # 0
    <3> DEFINE u == [upd[p] EXCEPT !.backup.sig = cache.sig, !.pc = "commit index"]
    <3>1. u \in Update /\ u.pc = "commit index" /\ u.stage = upd[p].stage
          /\ u.backup \in Metadata
          /\ u.backup.index = upd[p].backup.index /\ u.backup.sig = cache.sig
          /\ u.done = upd[p].done
      BY ZenonT(60), <1>ty DEF Update, Stage, Metadata
    <3>2. upd' = [upd EXCEPT ![p] = u] /\ cache' = [cache EXCEPT !.sig = 0]
      BY <1>8, <2>3, <1>ty DEF BackUpSignature, Update
    <3>3. cache' \in Metadata /\ cache'.sig = 0 /\ cache'.index = cache.index
      BY <3>2, <1>ty, <1>no DEF Metadata
    <3>4. Downloaded(p, u)
      BY <2>0, <3>1 DEF Downloaded, UpdateInv
    <3>5. ~met => u.backup = before
      BY <1>ty, <2>1, <3>1, SameFiles
    <3>6. ~met => Tracked(u, cache', before)
      BY <2>0, <2>1, <3>1, <3>3, <3>5 DEF Tracked, InPlace, HalfMoved, Moved, ComingBack
    <3> HIDE DEF u
    <3> QED
      BY <1>go, <1>ty, <2>0, <3>1, <3>2, <3>3, <3>4, <3>6
  <2>4. CASE "sig" \in upd[p].seen /\ cache.sig = 0
    <3> DEFINE u == [upd[p] EXCEPT !.pc = "restore index"]
    <3>1. u \in Update /\ u.pc = "restore index" /\ u.stage = upd[p].stage
      BY <1>ty DEF Update, Stage
    <3>2. upd' = [upd EXCEPT ![p] = u] /\ cache' = cache
      BY <1>8, <2>4, <1>ty DEF BackUpSignature, GoTo, Update
    <3>3. Downloaded(p, u)
      BY <2>0, <3>1 DEF Downloaded, UpdateInv
    <3>4. met
      BY <2>1, <2>4, <2>in
    <3> HIDE DEF u
    <3> QED
      BY <1>go, <1>ty, <2>0, <3>1, <3>2, <3>3, <3>4
  <2> QED
    BY <1>8, <2>2, <2>3, <2>4 DEF BackUpSignature
<1>9. ASSUME NEW p \in Proc, CommitIndex(p) PROVE UpdateInv'
  <2> DEFINE u == [upd[p] EXCEPT !.done = @ \cup {"index"}, !.pc = "commit signature"]
  <2>0. ~Idle(p) /\ upd[p].pc = "commit index"
        /\ UNCHANGED <<server, attic, current, met, before, spent>>
    BY <1>9 DEF CommitIndex, Idle
  <2>1. ~met => Moved(upd[p], cache, before)
    BY <2>0, <1>al DEF Tracked
  <2>2. u \in Update /\ u.pc = "commit signature" /\ u.stage = upd[p].stage
        /\ u.backup = upd[p].backup /\ u.done = upd[p].done \cup {"index"}
        /\ upd[p].stage.index \in Edition
    BY ZenonT(60), <1>ty DEF Update, Stage, Metadata
  <2>3. upd' = [upd EXCEPT ![p] = u] /\ cache' = [cache EXCEPT !.index = upd[p].stage.index]
    BY <1>9, <1>ty DEF CommitIndex, Update
  <2>4. cache' \in Metadata /\ cache'.index = upd[p].stage.index /\ cache'.sig = cache.sig
    BY <2>2, <2>3, <1>ty DEF Metadata
  <2>5. Downloaded(p, u)
    BY <2>0, <2>2 DEF Downloaded, UpdateInv
  <2>6. ~met => Tracked(u, cache', before)
    BY <2>0, <2>1, <2>2, <2>4 DEF Tracked, InPlace, HalfMoved, Moved, ComingBack
  <2> HIDE DEF u
  <2> QED
    BY <1>go, <1>ty, <2>0, <2>2, <2>3, <2>4, <2>5, <2>6
<1>10. ASSUME NEW p \in Proc, CommitSignature(p) PROVE UpdateInv'
  <2>0. ~Idle(p) /\ upd[p].pc = "commit signature"
        /\ UNCHANGED <<server, attic, current, met, before, spent>>
    BY <1>10 DEF CommitSignature, Idle
  <2>1. ~met => Moved(upd[p], cache, before)
    BY <2>0, <1>al DEF Tracked
  <2>2. CASE upd[p].stage.sig = 0
    <3> DEFINE u == [upd[p] EXCEPT !.pc = "sync"]
    <3>1. u \in Update /\ u.pc = "sync" /\ u.stage = upd[p].stage
          /\ u.backup = upd[p].backup /\ u.done = upd[p].done
      BY <1>ty DEF Update, Stage
    <3>2. upd' = [upd EXCEPT ![p] = u] /\ cache' = cache
      BY <1>10, <2>2, <1>ty DEF CommitSignature, GoTo, Update
    <3>3. Downloaded(p, u)
      BY <2>0, <3>1 DEF Downloaded, UpdateInv
    <3>4. ~met => Tracked(u, cache', before)
      BY <2>0, <2>1, <2>2, <3>1, <3>2 DEF Tracked, InPlace, HalfMoved, Moved, ComingBack
    <3> HIDE DEF u
    <3> QED
      BY <1>go, <1>ty, <2>0, <3>1, <3>2, <3>3, <3>4
  <2>3. CASE upd[p].stage.sig # 0
    <3> DEFINE u == [upd[p] EXCEPT !.done = @ \cup {"sig"}, !.pc = "sync"]
    <3>1. u \in Update /\ u.pc = "sync" /\ u.stage = upd[p].stage
          /\ u.backup = upd[p].backup /\ u.done = upd[p].done \cup {"sig"}
          /\ upd[p].stage.sig \in Edition
      BY ZenonT(60), <1>ty DEF Update, Stage, Metadata
    <3>2. upd' = [upd EXCEPT ![p] = u] /\ cache' = [cache EXCEPT !.sig = upd[p].stage.sig]
      BY <1>10, <2>3, <1>ty DEF CommitSignature, Update
    <3>3. cache' \in Metadata /\ cache'.sig = upd[p].stage.sig /\ cache'.index = cache.index
      BY <3>1, <3>2, <1>ty DEF Metadata
    <3>4. Downloaded(p, u)
      BY <2>0, <3>1 DEF Downloaded, UpdateInv
    <3>5. ~met => Tracked(u, cache', before)
      BY <2>0, <2>1, <3>1, <3>3 DEF Tracked, InPlace, HalfMoved, Moved, ComingBack
    <3> HIDE DEF u
    <3> QED
      BY <1>go, <1>ty, <2>0, <3>1, <3>2, <3>3, <3>4, <3>5
  <2> QED
    BY <2>2, <2>3
<1>11. ASSUME NEW p \in Proc, Sync(p) PROVE UpdateInv'
  <2>0. ~Idle(p) /\ upd[p].pc = "sync" /\ EndUpdate(p) /\ current' = upd[p].stage.index
        /\ UNCHANGED <<server, cache, attic, met, before, spent>>
    BY <1>11 DEF Sync, Idle
  <2>1. current' \in Edition
    BY <2>0, <1>ty DEF Update, Metadata
  <2>2. ~met => current' = cache'.index
    BY <2>0, <1>al DEF Tracked, Moved
  <2> QED
    BY <2>0, <2>1, <2>2, <1>ty, <1>no, <1>ni, Moves DEF EndUpdate
<1>12. ASSUME NEW p \in Proc, DropSignature(p) PROVE UpdateInv'
  <2> DEFINE u == [upd[p] EXCEPT !.pc = "drop index"]
  <2>0. ~Idle(p) /\ upd[p].pc = "drop signature"
        /\ UNCHANGED <<server, attic, current, met, before, spent>>
    BY <1>12 DEF DropSignature, Idle
  <2>1. ~met => Moved(upd[p], cache, before)
    BY <2>0, <1>al DEF Tracked
  <2>2. u \in Update /\ u.pc = "drop index" /\ u.stage = upd[p].stage
        /\ u.backup = upd[p].backup /\ u.done = upd[p].done
    BY <1>ty DEF Update, Stage
  <2>3. upd' = [upd EXCEPT ![p] = u]
        /\ cache' = IF "sig" \in upd[p].done THEN [cache EXCEPT !.sig = 0] ELSE cache
    BY <1>12, <1>ty DEF DropSignature, GoTo, Update
  <2>4. /\ cache' \in Metadata /\ cache'.index = cache.index
        /\ cache'.sig = IF "sig" \in upd[p].done THEN 0 ELSE cache.sig
    BY <2>3, <1>ty, <1>no DEF Metadata
  <2>5. Downloaded(p, u)
    BY <2>0, <2>2 DEF Downloaded, UpdateInv
  <2>6. ~met => Tracked(u, cache', before)
    BY <2>0, <2>1, <2>2, <2>4 DEF Tracked, InPlace, HalfMoved, Moved, ComingBack
  <2> HIDE DEF u
  <2> QED
    BY <1>go, <1>ty, <2>0, <2>2, <2>3, <2>4, <2>5, <2>6
<1>13. ASSUME NEW p \in Proc, DropIndex(p) PROVE UpdateInv'
  <2> DEFINE u == [upd[p] EXCEPT !.pc = "restore index"]
  <2>0. ~Idle(p) /\ upd[p].pc = "drop index"
        /\ UNCHANGED <<server, attic, current, met, before, spent>>
    BY <1>13 DEF DropIndex, Idle
  <2>1. ~met => Moved(upd[p], cache, before)
    BY <2>0, <1>al DEF Tracked
  <2>2. u \in Update /\ u.pc = "restore index" /\ u.stage = upd[p].stage
        /\ u.backup = upd[p].backup
    BY <1>ty DEF Update, Stage
  <2>3. upd' = [upd EXCEPT ![p] = u]
        /\ cache' = IF "index" \in upd[p].done THEN [cache EXCEPT !.index = 0] ELSE cache
    BY <1>13, <1>ty DEF DropIndex, GoTo, Update
  <2>4. /\ cache' \in Metadata /\ cache'.sig = cache.sig
        /\ cache'.index = IF "index" \in upd[p].done THEN 0 ELSE cache.index
    BY <2>3, <1>ty, <1>no DEF Metadata
  <2>5. Downloaded(p, u)
    BY <2>0, <2>2 DEF Downloaded, UpdateInv
  <2>6. ~met => Tracked(u, cache', before)
    BY <2>0, <2>1, <2>2, <2>4 DEF Tracked, InPlace, HalfMoved, Moved, ComingBack
  <2> HIDE DEF u
  <2> QED
    BY <1>go, <1>ty, <2>0, <2>2, <2>3, <2>4, <2>5, <2>6
<1>14. ASSUME NEW p \in Proc, RestoreIndex(p) PROVE UpdateInv'
  <2> DEFINE u == [upd[p] EXCEPT !.backup.index = 0, !.pc = "restore signature"]
             old == upd[p].backup.index
  <2>0. ~Idle(p) /\ upd[p].pc = "restore index"
        /\ UNCHANGED <<server, attic, current, met, before, spent>>
    BY <1>14 DEF RestoreIndex, Idle
  <2>1. ~met => ComingBack(upd[p], cache, before)
    BY <2>0, <1>al DEF Tracked
  <2>2. u \in Update /\ u.pc = "restore signature" /\ u.stage = upd[p].stage
        /\ u.backup.sig = upd[p].backup.sig /\ old \in Edition
    BY <1>ty, <1>no DEF Update, Stage, Metadata
  <2>3. upd' = [upd EXCEPT ![p] = u]
        /\ cache' = IF old = 0 THEN cache ELSE [cache EXCEPT !.index = old]
    BY <1>14, <1>ty DEF RestoreIndex, Update
  <2>4. /\ cache' \in Metadata /\ cache'.sig = cache.sig
        /\ cache'.index = IF old = 0 THEN cache.index ELSE old
    BY <2>2, <2>3, <1>ty DEF Metadata
  <2>5. Downloaded(p, u)
    BY <2>0, <2>2 DEF Downloaded, UpdateInv
  <2>6. ~met => Tracked(u, cache', before)
    BY <2>0, <2>1, <2>2, <2>4 DEF Tracked, InPlace, HalfMoved, Moved, ComingBack
  <2> HIDE DEF u
  <2> QED
    BY <1>go, <1>ty, <2>0, <2>2, <2>3, <2>4, <2>5, <2>6
<1>15. ASSUME NEW p \in Proc, RestoreSignature(p) PROVE UpdateInv'
  <2> DEFINE old == upd[p].backup.sig
  <2>0. ~Idle(p) /\ upd[p].pc = "restore signature" /\ EndUpdate(p)
        /\ UNCHANGED <<server, attic, current, met, before, spent>>
    BY <1>15 DEF RestoreSignature, Idle
  <2>1. ~met => cache.index = before.index
    BY <2>0, <1>al DEF Tracked, ComingBack
  <2>2. old \in Edition
    BY <1>ty DEF Update, Metadata
  <2>3. cache' = IF old = 0 THEN cache ELSE [cache EXCEPT !.sig = old]
    BY <1>15 DEF RestoreSignature
  <2>4. cache' \in Metadata /\ cache'.index = cache.index
    BY <2>2, <2>3, <1>ty DEF Metadata
  <2> QED
    BY <1>en, <1>ty, <2>0, <2>1, <2>4
<1>16. ASSUME NEW p \in Proc, Fault(p) PROVE UpdateInv'
  <2>0. ~Idle(p) /\ spent' \in [Event -> Nat]
        /\ UNCHANGED <<server, cache, attic, current, met, before>>
    <3>1. ~Idle(p)
      BY <1>16 DEF Fault, Idle
    <3>2. /\ spent' = [spent EXCEPT !["fault"] = @ + 1]
          /\ UNCHANGED <<server, cache, attic, current, met, before>>
      BY <1>16 DEF Fault, Spend
    <3>3. spent' \in [Event -> Nat]
      BY <3>2, <1>ty DEF Event
    <3> QED
      BY <3>1, <3>2, <3>3
  <2>1. ~met => Tracked(upd[p], cache, before)
    BY <2>0, <1>al
  <2>2. CASE upd[p].pc \in {"index", "signature", "look", "backup index"} /\ EndUpdate(p)
    <3>1. ~met => cache' = before
      BY <2>0, <2>1, <2>2 DEF Tracked, InPlace
    <3> QED
      BY <1>en, <1>ty, <2>0, <2>2, <3>1
  <2>3. CASE upd[p].pc = "backup signature" /\ "sig" \in upd[p].seen /\ GoTo(p, "restore index")
    <3> DEFINE u == [upd[p] EXCEPT !.pc = "restore index"]
    <3>1. u \in Update /\ u.pc = "restore index" /\ u.stage = upd[p].stage
          /\ u.backup = upd[p].backup
      BY <1>ty DEF Update, Stage
    <3>2. upd' = [upd EXCEPT ![p] = u]
      BY <2>3, <1>ty DEF GoTo, Update
    <3>3. Downloaded(p, u)
      BY <2>3, <3>1 DEF Downloaded, UpdateInv
    <3>4. ~met => Tracked(u, cache', before)
      BY <2>0, <2>1, <2>3, <3>1 DEF Tracked, InPlace, HalfMoved, Moved, ComingBack
    <3> HIDE DEF u
    <3> QED
      BY <1>go, <1>ty, <2>0, <3>1, <3>2, <3>3, <3>4
  <2>4. CASE upd[p].pc \in {"commit index", "commit signature", "sync"} /\ RollBack(p)
    <3> DEFINE u == [upd[p] EXCEPT !.pc = "drop signature"]
    <3>1. u \in Update /\ u.pc = "drop signature" /\ u.stage = upd[p].stage
          /\ u.backup = upd[p].backup /\ u.done = upd[p].done
      BY <1>ty DEF Update, Stage
    <3>2. upd' = [upd EXCEPT ![p] = u]
      BY <2>4, <1>ty DEF RollBack, GoTo, Update
    <3>3. Downloaded(p, u)
      BY <2>4, <3>1 DEF Downloaded, UpdateInv
    <3>4. ~met => Tracked(u, cache', before)
      BY <2>0, <2>1, <2>4, <3>1 DEF Tracked, InPlace, HalfMoved, Moved, ComingBack
    <3> HIDE DEF u
    <3> QED
      BY <1>go, <1>ty, <2>0, <3>1, <3>2, <3>3, <3>4
  <2> QED
    BY <1>16, <2>2, <2>3, <2>4 DEF Fault
<1>17. ASSUME NEW p \in Proc, Crash(p) PROVE UpdateInv'
  <2> DEFINE old == upd[p].backup.index
  <2>0. ~Idle(p) /\ EndUpdate(p) /\ spent' \in [Event -> Nat] /\ attic' = attic \cup ({old} \ {0})
        /\ UNCHANGED <<server, cache, current, met, before>>
    BY <1>17, <1>ty DEF Crash, Spend, Event
  <2>1. ~met => Tracked(upd[p], cache, before)
    BY <2>0, <1>al
  <2>2. old \in Edition /\ attic' \in SUBSET Edition /\ attic \subseteq attic'
    BY <2>0, <1>ty DEF Update, Metadata
  <2>3. upd[p].pc \in Stage
    BY <1>ty DEF Update
  <2>4. ~met => cache.index = before.index \/ old = before.index
    <3>1. \/ upd[p].pc \in {"index", "signature", "look", "backup index"}
          \/ upd[p].pc = "backup signature"
          \/ upd[p].pc \in {"commit index", "commit signature", "sync", "drop signature",
                            "drop index"}
          \/ upd[p].pc \in {"restore index", "restore signature"}
      BY <2>0, <2>3 DEF Idle, Stage
    <3> QED
      BY <2>1, <3>1 DEF Tracked, InPlace, HalfMoved, Moved, ComingBack
  <2>5. ~met => before.index = 0 \/ cache'.index = before.index \/ before.index \in attic'
    BY <2>0, <2>4
  <2> QED
    BY <2>0, <2>2, <2>5, <1>ty, <1>no, <1>ni, Moves DEF EndUpdate
<1> QED
  BY <1>1, <1>2, <1>3, <1>4, <1>5, <1>6, <1>7, <1>8, <1>9, <1>10, <1>11, <1>12, <1>13, <1>14,
     <1>15, <1>16, <1>17 DEF UpdateNext, UpdateWork

\* As long as nothing fails by itself, every step keeps an index in place or in hand.
LEMMA CalmStep ==
  ASSUME ConstantsOK
  PROVE  UpdateInv /\ CalmInv /\ [UpdateNext]_updateVars => CalmInv'
<1> SUFFICES ASSUME UpdateInv, CalmInv, [UpdateNext]_updateVars, Calm' PROVE CalmInv'
  BY DEF CalmInv
<1>ty. /\ upd \in [Proc -> Update] /\ cache \in Metadata /\ server \in Metadata
       /\ spent \in [Event -> Nat]
  BY DEF UpdateInv, UpdateTypeOK
<1> DEFINE Late(p)  == upd[p].pc \in {"commit signature", "sync"}
           InHand   == \E p \in Proc : Holding(p)
           Placed   == cache.index # 0 \/ InHand
           Taken    == current # 0 \/ \E p \in Proc : Late(p)
           Steady(p) == upd[p].pc \notin {"drop signature", "drop index"}
<1>0. ASSUME UNCHANGED spent PROVE (\A p \in Proc : Steady(p)) /\ (Taken => Placed)
  BY <1>0 DEF CalmInv, Calm
<1>1. ASSUME UNCHANGED <<cache, upd, current, spent>> PROVE CalmInv'
  BY <1>0, <1>1 DEF CalmInv, Calm, Holding
\* One update moves on and the others stay where they are.
<1>2. ASSUME NEW p \in Proc, NEW u \in Update, upd' = [upd EXCEPT ![p] = u], UNCHANGED spent,
             u.pc \notin {"drop signature", "drop index"},
             current' # 0 \/ u.pc \in {"commit signature", "sync"} => Taken \/ cache'.index # 0,
             Placed => \/ cache'.index # 0
                       \/ Holding(p)' \/ \E q \in Proc \ {p} : Holding(q)
      PROVE  CalmInv'
  <2>1. \A q \in Proc : upd'[q] = IF q = p THEN u ELSE upd[q]
    BY <1>2, <1>ty
  <2>2. \A q \in Proc : Steady(q)'
    BY <1>0, <1>2, <2>1
  <2>3. \A q \in Proc \ {p} : (Holding(q)' <=> Holding(q)) /\ (Late(q)' <=> Late(q))
    BY <2>1 DEF Holding
  <2>4. Placed => Placed'
    BY <1>2, <2>3
  <2>5. Taken' => Taken \/ cache'.index # 0
    BY <1>2, <2>1, <2>3
  <2> QED
    BY <1>0, <1>2, <2>2, <2>4, <2>5 DEF CalmInv
\* A step in which p neither takes an index away nor puts one in place.
<1>3. ASSUME NEW p \in Proc, NEW stage \in Stage, GoTo(p, stage), UNCHANGED <<spent, cache, current>>,
             stage \notin {"drop signature", "drop index"},
             stage \in {"commit signature", "sync"} => Late(p),
             Holding(p) => stage \in {"commit index", "restore index"}
      PROVE  CalmInv'
  <2> DEFINE u == [upd[p] EXCEPT !.pc = stage]
  <2>1. u \in Update /\ u.pc = stage /\ u.backup = upd[p].backup /\ upd' = [upd EXCEPT ![p] = u]
    BY <1>3, <1>ty DEF Update, GoTo
  <2>2. Holding(p) => Holding(p)'
    BY <1>3, <1>ty, <2>1 DEF Holding
  <2> HIDE DEF u
  <2> QED
    BY <1>2, <1>3, <2>1, <2>2
<1>4. ASSUME NEW p \in Proc, EndUpdate(p), UNCHANGED <<spent, cache>>, ~Holding(p),
             current' # 0 => Taken
      PROVE  CalmInv'
  <2>1. NoUpdate \in Update /\ NoUpdate.pc = "idle"
    BY NoFilesTyped DEF NoUpdate
  <2> QED
    BY <1>2, <1>4, <2>1 DEF EndUpdate
<1>5. ASSUME NEW p \in Proc, BeginUpdate(p) PROVE CalmInv'
  BY <1>3, <1>5 DEF BeginUpdate, Stage, Idle, Holding
<1>6. ASSUME NEW p \in Proc, FetchIndex(p) \/ FetchSignature(p) \/ Look(p) PROVE CalmInv'
  <2>1. ~Holding(p) /\ UNCHANGED <<spent, cache, current>>
    BY <1>6 DEF FetchIndex, FetchSignature, Look, Holding
  <2>2. CASE EndUpdate(p)
    BY <1>4, <2>1, <2>2
  <2>3. CASE ~EndUpdate(p)
    <3>1. PICK u \in Update : /\ upd' = [upd EXCEPT ![p] = u]
                              /\ u.pc \in {"signature", "look", "backup index"}
      <4> DEFINE v == [upd[p] EXCEPT !.stage.index = server.index, !.pc = "signature"]
                 w == [upd[p] EXCEPT !.stage.sig = server.sig, !.pc = "look"]
                 x == [upd[p] EXCEPT !.seen = {f \in {"index", "sig"} : cache[f] # 0},
                                     !.pc = "backup index"]
      <4>1. v \in Update /\ v.pc = "signature" /\ w \in Update /\ w.pc = "look"
        BY <1>ty DEF Update, Stage, Metadata
      <4>2. x \in Update /\ x.pc = "backup index"
        BY <1>ty DEF Update, Stage
      <4>3. \/ upd' = [upd EXCEPT ![p] = v] \/ upd' = [upd EXCEPT ![p] = w]
            \/ upd' = [upd EXCEPT ![p] = x]
        BY <1>6, <2>3, <1>ty DEF FetchIndex, FetchSignature, Look, Update
      <4> HIDE DEF v, w, x
      <4> QED
        BY <4>1, <4>2, <4>3
    <3> QED
      BY <1>2, <2>1, <3>1
  <2> QED
    BY <2>2, <2>3
<1>7. ASSUME NEW p \in Proc, BackUpIndex(p) PROVE CalmInv'
  <2>0. ~Holding(p) /\ UNCHANGED <<spent, current>>
    BY <1>7 DEF BackUpIndex, Holding
  <2>1. CASE GoTo(p, "backup signature") /\ cache' = cache
    <3> DEFINE u == [upd[p] EXCEPT !.pc = "backup signature"]
    <3>1. u \in Update /\ u.pc = "backup signature" /\ upd' = [upd EXCEPT ![p] = u]
      BY <2>1, <1>ty DEF GoTo, Update, Stage
    <3> HIDE DEF u
    <3> QED
      BY <1>2, <2>0, <2>1, <3>1
  <2>2. CASE upd' = [upd EXCEPT ![p].backup.index = cache.index, ![p].pc = "backup signature"]
             /\ cache.index # 0
    <3> DEFINE u == [upd[p] EXCEPT !.backup.index = cache.index, !.pc = "backup signature"]
    <3>1. /\ u \in Update /\ u.pc = "backup signature" /\ u.backup.index = cache.index
          /\ upd' = [upd EXCEPT ![p] = u]
      BY <2>2, <1>ty DEF Update, Stage, Metadata
    <3>2. Holding(p)'
      BY <2>2, <3>1, <1>ty DEF Holding
    <3> HIDE DEF u
    <3> QED
      BY <1>2, <2>0, <3>1, <3>2
  <2>3. CASE EndUpdate(p) /\ cache' = cache
    BY <1>4, <2>0, <2>3
  <2> QED
    BY <1>7, <2>1, <2>2, <2>3 DEF BackUpIndex
<1>8. ASSUME NEW p \in Proc, BackUpSignature(p) PROVE CalmInv'
  <2>0. UNCHANGED <<spent, current>>
    BY <1>8 DEF BackUpSignature
  <2>1. CASE (GoTo(p, "commit index") \/ GoTo(p, "restore index")) /\ cache' = cache
    BY <1>3, <2>0, <2>1 DEF Stage
  <2>2. CASE /\ upd' = [upd EXCEPT ![p].backup.sig = cache.sig, ![p].pc = "commit index"]
             /\ cache' = [cache EXCEPT !.sig = 0]
    <3> DEFINE u == [upd[p] EXCEPT !.backup.sig = cache.sig, !.pc = "commit index"]
    <3>1. /\ u \in Update /\ u.pc = "commit index" /\ u.backup.index = upd[p].backup.index
          /\ upd' = [upd EXCEPT ![p] = u]
      BY <2>2, <1>ty DEF Update, Stage, Metadata
    <3>2. cache'.index = cache.index
      BY <2>2, <1>ty DEF Metadata
    <3>3. Holding(p) => Holding(p)'
      BY <3>1, <1>ty DEF Holding
    <3> HIDE DEF u
    <3> QED
      BY <1>2, <2>0, <3>1, <3>2, <3>3
  <2> QED
    BY <1>8, <2>1, <2>2 DEF BackUpSignature
<1>9. ASSUME NEW p \in Proc, CommitIndex(p) PROVE CalmInv'
  <2> DEFINE u == [upd[p] EXCEPT !.done = @ \cup {"index"}, !.pc = "commit signature"]
  <2>1. u \in Update /\ u.pc = "commit signature" /\ upd' = [upd EXCEPT ![p] = u]
    BY <1>9, <1>ty DEF CommitIndex, Update, Stage
  <2>2. upd[p].stage.index # 0 /\ UNCHANGED <<spent, current>>
    BY <1>9 DEF CommitIndex, UpdateInv, Downloaded
  <2>3. cache'.index # 0
    BY <1>9, <2>2, <1>ty DEF CommitIndex, Metadata
  <2> HIDE DEF u
  <2> QED
    BY <1>2, <2>1, <2>2, <2>3
<1>10. ASSUME NEW p \in Proc, CommitSignature(p) PROVE CalmInv'
  <2> DEFINE u == [upd[p] EXCEPT !.done = @ \cup {"sig"}, !.pc = "sync"]
             v == [upd[p] EXCEPT !.pc = "sync"]
  <2>1. u \in Update /\ u.pc = "sync" /\ v \in Update /\ v.pc = "sync"
    BY <1>ty DEF Update, Stage
  <2>2. upd' = [upd EXCEPT ![p] = u] \/ upd' = [upd EXCEPT ![p] = v]
    BY <1>10, <1>ty DEF CommitSignature, GoTo, Update
  <2>3. Late(p) /\ ~Holding(p) /\ UNCHANGED <<spent, current>>
    BY <1>10 DEF CommitSignature, Holding
  <2>4. cache'.index = cache.index
    BY <1>10, <1>ty DEF CommitSignature, Metadata
  <2> HIDE DEF u, v
  <2> QED
    BY <1>2, <2>1, <2>2, <2>3, <2>4
<1>11. ASSUME NEW p \in Proc, Sync(p) PROVE CalmInv'
  BY <1>4, <1>11 DEF Sync, Holding
<1>12. ASSUME NEW p \in Proc, DropSignature(p) \/ DropIndex(p) PROVE FALSE
  BY <1>0, <1>12 DEF DropSignature, DropIndex
<1>13. ASSUME NEW p \in Proc, RestoreIndex(p) PROVE CalmInv'
  <2> DEFINE u == [upd[p] EXCEPT !.backup.index = 0, !.pc = "restore signature"]
  <2>1. u \in Update /\ u.pc = "restore signature" /\ upd' = [upd EXCEPT ![p] = u]
    BY <1>13, <1>ty, NoFilesTyped DEF RestoreIndex, Update, Stage, Metadata
  <2>2. Holding(p) => cache'.index # 0
    BY <1>13, <1>ty DEF RestoreIndex, Metadata, Holding
  <2>3. ~Holding(p) => cache' = cache
    BY <1>13 DEF RestoreIndex, Holding
  <2>4. UNCHANGED <<spent, current>>
    BY <1>13 DEF RestoreIndex
  <2> HIDE DEF u
  <2> QED
    BY <1>2, <2>1, <2>2, <2>3, <2>4
<1>14. ASSUME NEW p \in Proc, RestoreSignature(p) PROVE CalmInv'
  <2>1. NoUpdate \in Update /\ NoUpdate.pc = "idle"
    BY NoFilesTyped DEF NoUpdate
  <2>2. cache'.index = cache.index
    BY <1>14, <1>ty DEF RestoreSignature, Metadata
  <2> QED
    BY <1>2, <1>14, <2>1, <2>2 DEF RestoreSignature, EndUpdate, Holding
<1>15. ASSUME NEW p \in Proc, Fault(p) \/ Crash(p) PROVE FALSE
  <2>1. PICK e \in Event : spent' = [spent EXCEPT ![e] = @ + 1]
    BY <1>15 DEF Fault, Crash, Spend, Event
  <2>2. spent'[e] = spent[e] + 1 /\ spent[e] \in Nat
    BY <2>1, <1>ty
  <2> QED
    BY <2>2 DEF Calm
<1>16. CASE Publish \/ Sign \/ UNCHANGED updateVars
  BY <1>1, <1>16 DEF Publish, Sign, updateVars
<1> QED
  BY <1>5, <1>6, <1>7, <1>8, <1>9, <1>10, <1>11, <1>12, <1>13, <1>14, <1>15, <1>16 DEF UpdateNext, UpdateWork

-----------------------------------------------------------------------------
\* The theorems

\* The variables of the updates keep their types, for any updates, editions, failures
\* and kills.
THEOREM UpdateTypes ==
  ASSUME ConstantsOK
  PROVE  UpdateSpec => []UpdateTypeOK
<1>1. UpdateInv => UpdateTypeOK
  BY DEF UpdateInv
<1> QED
  BY UpdateStarts, UpdateStep, <1>1, PTL DEF UpdateSpec

\* Whenever updates are killed, the index that the last successful one took is in its
\* place or in a backup as long as no two updates meet; and when they do, the
\* directory has an index once they have ended, if no call failed by itself.
THEOREM IndexAlwaysKept ==
  ASSUME ConstantsOK
  PROVE  UpdateSpec => []IndexKept
<1>1. UpdateInv /\ CalmInv => IndexKept
  <2> SUFFICES ASSUME UpdateInv, CalmInv PROVE IndexKept
    OBVIOUS
  <2>ty. /\ upd \in [Proc -> Update] /\ current \in Nat /\ cache.index \in Nat
    BY NoFilesTyped DEF UpdateInv, UpdateTypeOK, Metadata
  <2>1. ASSUME ~met, current # 0
        PROVE  \/ cache.index >= current
               \/ \E e \in attic \cup {upd[p].backup.index : p \in Proc} : e >= current
    <3>1. CASE Quiet
      BY <2>1, <3>1 DEF UpdateInv, Alone, AsNew
    <3>2. CASE ~Quiet
      <4>1. PICK p \in Proc : ~Idle(p)
        BY <3>2 DEF Quiet
      <4>2. Tracked(upd[p], cache, before) /\ AsNew(before.index, attic, current)
        BY <2>1, <4>1 DEF UpdateInv, Alone
      <4>3. upd[p].pc \in Stage \ {"idle"}
        BY <2>ty, <4>1 DEF Idle, Update
      <4>4. \/ upd[p].pc \in {"index", "signature", "look", "backup index"}
            \/ upd[p].pc = "backup signature"
            \/ upd[p].pc \in {"commit index", "commit signature", "sync", "drop signature",
                              "drop index"}
            \/ upd[p].pc \in {"restore index", "restore signature"}
        BY <4>3 DEF Stage
      <4>5. cache.index = before.index \/ upd[p].backup.index = before.index
        BY <4>2, <4>4 DEF Tracked, InPlace, HalfMoved, Moved, ComingBack
      <4> QED
        BY <2>1, <4>2, <4>5 DEF AsNew
    <3> QED
      BY <3>1, <3>2
  <2>2. ASSUME Quiet, current # 0, Calm PROVE cache.index # 0
    BY <2>2 DEF CalmInv, Holding, Quiet, Idle
  <2> QED
    BY <2>1, <2>2 DEF IndexKept, Calm
<1>2. UpdateSpec => [](UpdateInv /\ CalmInv)
  BY UpdateStarts, UpdateStep, CalmStep, PTL DEF UpdateSpec
<1> QED
  BY <1>1, <1>2, PTL

\* How the update of p can end: before it has moved anything, at the end of a rollback,
\* with success, or killed.
LEMMA EndsHow ==
  ASSUME UpdateTypeOK, NEW p \in Proc, [UpdateNext]_updateVars, ~Idle(p), Idle(p)'
  PROVE  \/ upd[p].pc \in {"index", "signature", "look", "backup index"} /\ cache' = cache
         \/ RestoreSignature(p) \/ Sync(p) \/ Crash(p)
<1>ty. upd \in [Proc -> Update]
  BY DEF UpdateTypeOK
<1>1. upd'[p] # upd[p] /\ upd[p].pc # "idle" /\ upd'[p].pc = "idle"
  BY DEF Idle
<1>2. PICK q \in Proc : BeginUpdate(q) \/ UpdateWork(q) \/ Fault(q) \/ Crash(q)
  BY <1>1 DEF UpdateNext, Publish, Sign, updateVars
<1>3. ASSUME q # p PROVE FALSE
  <2>1. BeginUpdate(q) \/ Fault(q) \/ Crash(q) => upd'[p] = upd[p]
    BY <1>3, <1>ty DEF BeginUpdate, Fault, Crash, GoTo, RollBack, EndUpdate
  <2>2. FetchIndex(q) \/ FetchSignature(q) \/ Look(q) \/ Sync(q) => upd'[p] = upd[p]
    BY <1>3, <1>ty DEF FetchIndex, FetchSignature, Look, Sync, EndUpdate
  <2>3. BackUpIndex(q) \/ BackUpSignature(q) \/ CommitIndex(q) \/ CommitSignature(q)
          => upd'[p] = upd[p]
    BY <1>3, <1>ty DEF BackUpIndex, BackUpSignature, CommitIndex, CommitSignature, GoTo, EndUpdate
  <2>4. DropSignature(q) \/ DropIndex(q) \/ RestoreIndex(q) \/ RestoreSignature(q)
          => upd'[p] = upd[p]
    BY <1>3, <1>ty DEF DropSignature, DropIndex, RestoreIndex, RestoreSignature, GoTo, EndUpdate
  <2> QED
    BY <1>1, <1>2, <2>1, <2>2, <2>3, <2>4 DEF UpdateWork
<1>up. upd[p] \in Update
  BY <1>ty
<1>4. ASSUME NEW stage, GoTo(p, stage) PROVE upd'[p].pc = stage
  <2>1. upd'[p] = [upd[p] EXCEPT !.pc = stage]
    BY <1>4, <1>ty DEF GoTo
  <2> QED
    BY <2>1, <1>up DEF Update
<1>5. ~(BeginUpdate(p) \/ Look(p) \/ BackUpSignature(p) \/ DropSignature(p) \/ DropIndex(p))
  <2>1. ~(BeginUpdate(p) \/ DropSignature(p) \/ DropIndex(p))
    BY <1>1, <1>4 DEF BeginUpdate, DropSignature, DropIndex
  <2>2. ~Look(p)
    <3>1. Look(p) => upd'[p] = [upd[p] EXCEPT !.seen = {f \in {"index", "sig"} : cache[f] # 0},
                                            !.pc = "backup index"]
      BY <1>ty DEF Look
    <3> QED
      BY <1>1, <1>up, <3>1 DEF Update
  <2>3. ~BackUpSignature(p)
    <3>1. upd' = [upd EXCEPT ![p].backup.sig = cache.sig, ![p].pc = "commit index"] =>
            upd'[p] = [upd[p] EXCEPT !.backup.sig = cache.sig, !.pc = "commit index"]
      BY <1>ty
    <3> QED
      BY <1>1, <1>4, <1>up, <3>1 DEF BackUpSignature, Update
  <2> QED
    BY <2>1, <2>2, <2>3
<1>6. ~(CommitIndex(p) \/ CommitSignature(p) \/ RestoreIndex(p))
  <2>1. CommitIndex(p) =>
          upd'[p] = [upd[p] EXCEPT !.done = @ \cup {"index"}, !.pc = "commit signature"]
    BY <1>ty DEF CommitIndex
  <2>2. CommitSignature(p) =>
          \/ GoTo(p, "sync")
          \/ upd'[p] = [upd[p] EXCEPT !.done = @ \cup {"sig"}, !.pc = "sync"]
    BY <1>ty DEF CommitSignature
  <2>3. RestoreIndex(p) =>
          upd'[p] = [upd[p] EXCEPT !.backup.index = 0, !.pc = "restore signature"]
    BY <1>ty DEF RestoreIndex
  <2> QED
    BY <1>1, <1>4, <1>up, <2>1, <2>2, <2>3 DEF Update
<1>7. FetchIndex(p) \/ FetchSignature(p) =>
        upd[p].pc \in {"index", "signature"} /\ cache' = cache
  BY DEF FetchIndex, FetchSignature
<1>8. BackUpIndex(p) => upd[p].pc = "backup index" /\ cache' = cache
  <2>1. upd' = [upd EXCEPT ![p].backup.index = cache.index, ![p].pc = "backup signature"] =>
          upd'[p] = [upd[p] EXCEPT !.backup.index = cache.index, !.pc = "backup signature"]
    BY <1>ty
  <2> QED
    BY <1>1, <1>4, <1>up, <2>1 DEF BackUpIndex, Update
<1>9. Fault(p) => upd[p].pc \in {"index", "signature", "look", "backup index"} /\ cache' = cache
  BY <1>1, <1>4 DEF Fault, RollBack
<1> QED
  BY <1>2, <1>3, <1>5, <1>6, <1>7, <1>8, <1>9 DEF UpdateWork

\* An update that fails beside no other one has put the local metadata back as they
\* were when it began, whatever call it was that failed.
THEOREM FailuresKeepMetadata ==
  ASSUME ConstantsOK
  PROVE  UpdateSpec => FailureKeepsMetadata
<1>1. UpdateInv /\ [UpdateNext]_updateVars =>
        [\A p \in Proc : Fails(p) /\ ~met => cache' = before]_updateVars
  <2> SUFFICES ASSUME UpdateInv, [UpdateNext]_updateVars, NEW p \in Proc, Fails(p), ~met
               PROVE  cache' = before
    OBVIOUS
  <2>ty. /\ upd \in [Proc -> Update] /\ cache \in Metadata /\ before \in Metadata
         /\ spent \in [Event -> Nat] /\ UpdateTypeOK
    BY DEF UpdateInv, UpdateTypeOK
  <2>1. ~Idle(p) /\ Idle(p)' /\ upd[p].pc # "sync" /\ spent'["crash"] = spent["crash"]
    BY DEF Fails
  <2>2. Tracked(upd[p], cache, before)
    BY <2>1 DEF UpdateInv, Alone
  <2>3. ~Crash(p) /\ ~Sync(p)
    <3>1. Crash(p) => spent' = [spent EXCEPT !["crash"] = @ + 1]
      BY DEF Crash, Spend
    <3> QED
      BY <2>1, <2>ty, <3>1 DEF Event, Sync
  <2>4. CASE upd[p].pc \in {"index", "signature", "look", "backup index"} /\ cache' = cache
    BY <2>2, <2>4 DEF Tracked, InPlace
  <2>5. CASE RestoreSignature(p)
    <3> DEFINE old == upd[p].backup.sig
    <3>1. /\ cache.index = before.index
          /\ \/ cache.sig = 0 /\ old = before.sig
             \/ cache.sig = before.sig /\ old = 0
      <4>1. upd[p].pc = "restore signature" /\ ComingBack(upd[p], cache, before)
        BY <2>2, <2>5 DEF RestoreSignature, Tracked
      <4> QED
        BY <4>1 DEF ComingBack
    <3>2. old \in Edition /\ cache' = IF old = 0 THEN cache ELSE [cache EXCEPT !.sig = old]
      BY <2>5, <2>ty DEF RestoreSignature, Update, Metadata
    <3>3. /\ cache' \in Metadata /\ cache'.index = cache.index
          /\ cache'.sig = IF old = 0 THEN cache.sig ELSE old
      BY <3>2, <2>ty DEF Metadata
    <3> QED
      BY <3>1, <3>3, <2>ty, SameFiles
  <2> QED
    BY <2>1, <2>3, <2>4, <2>5, <2>ty, EndsHow
<1> QED
  BY UpdateStarts, UpdateStep, <1>1, PTL DEF UpdateSpec, FailureKeepsMetadata

\* An update that requires a signature, succeeds and runs beside no other one has put
\* an index in place together with the signature made for it.
THEOREM VerifiedPairsTaken ==
  ASSUME ConstantsOK
  PROVE  UpdateSpec => VerifiedPairTaken
<1>1. UpdateInv /\ [UpdateNext]_updateVars =>
        [\A p \in Proc : Succeeds(p) /\ p \in Required /\ ~met =>
           cache'.index # 0 /\ cache'.sig = cache'.index]_updateVars
  <2> SUFFICES ASSUME UpdateInv, [UpdateNext]_updateVars, NEW p \in Proc, Succeeds(p), p \in Required, ~met
               PROVE  cache'.index # 0 /\ cache'.sig = cache'.index
    OBVIOUS
  <2>1. upd[p].pc = "sync" /\ ~Idle(p) /\ Idle(p)' /\ spent' = spent /\ UpdateTypeOK
    BY DEF Succeeds, Idle, UpdateInv
  <2>2. ~Crash(p)
    <3>1. Crash(p) => spent' = [spent EXCEPT !["crash"] = @ + 1]
      BY DEF Crash, Spend
    <3> QED
      BY <2>1, <3>1 DEF Event, UpdateTypeOK
  <2>3. Sync(p)
    BY <2>1, <2>2, EndsHow DEF RestoreSignature
  <2>4. Tracked(upd[p], cache, before) /\ Downloaded(p, upd[p])
    BY <2>1 DEF UpdateInv, Alone
  <2> QED
    BY <2>1, <2>3, <2>4 DEF Sync, Tracked, Moved, Downloaded
<1> QED
  BY UpdateStarts, UpdateStep, <1>1, PTL DEF UpdateSpec, VerifiedPairTaken
=============================================================================
