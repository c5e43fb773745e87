-------------------------- MODULE ImageUpdateProofs --------------------------
(***************************************************************************)
(* Proofs about ImageUpdate and Verification, for every configuration, any *)
(* number of updaters and every value of the bounds.                       *)
(***************************************************************************)
EXTENDS ImageUpdate, TLAPS

-----------------------------------------------------------------------------
(***************************************************************************)
(* Verification.                                                           *)
(***************************************************************************)

\* A candidate is a signature of its artifact over the digest that was asked
\* for.
LEMMA CandidateIsBound ==
    ASSUME NEW a, NEW d, NEW s \in extractSigsFromManifest(a, d)
    PROVE  a.payload = d /\ s.key \in a.signers
BY DEF extractSigsFromManifest, checkDigestBinding

\* Whatever place signatures are looked for in, and whichever of them cannot
\* be reached, an image that VerifyWithPublicKey accepts has a signature with
\* the key over its very digest.
THEOREM VerificationIsSound ==
    ASSUME NEW signatures, NEW d, NEW down, NEW key,
           VerifyWithPublicKey(fetchTagSignatures(signatures, d, down), key)
    PROVE  SignedBy(signatures, d, key)
<1>1. PICK s \in fetchTagSignatures(signatures, d, down) : s.key = key
  BY Zenon DEF VerifyWithPublicKey, verifySignature
<1>2. PICK a \in signatures : s \in extractSigsFromManifest(a, d)
  BY Zenon DEF fetchTagSignatures, ReferrerSigs, fetchSigsFromFallbackTag
<1>3. QED
  BY SMTT(30), <1>1, <1>2, CandidateIsBound DEF SignedBy

-----------------------------------------------------------------------------
(***************************************************************************)
(* Edits of users.                                                         *)
(***************************************************************************)

\* Setting an image changes the sources of an application and nothing else.
LEMMA WithSourceKeepsEdits ==
    ASSUME NEW a, NEW at, NEW kind, NEW s, "edits" \in DOMAIN a
    PROVE  /\ "edits" \in DOMAIN WithSource(a, at, kind, s)
           /\ WithSource(a, at, kind, s).edits = a.edits
<1> DEFINE b == [a EXCEPT !.sources[at] = s]
<1>1. DOMAIN b = DOMAIN a /\ b.edits = a.edits
  BY Zenon
<1>2. WithSource(a, at, kind, s) = a \/ WithSource(a, at, kind, s) = b
  BY Zenon DEF WithSource
<1> HIDE DEF b
<1>3. QED
  BY Zenon, <1>1, <1>2

\* Whatever kind of application it is.
LEMMA SetKeepsEdits ==
    ASSUME NEW a, NEW wbc, NEW im, NEW v, "edits" \in DOMAIN a
    PROVE  /\ "edits" \in DOMAIN setAppImage(a, wbc, im, v)
           /\ setAppImage(a, wbc, im, v).edits = a.edits
<1>1. PICK at, kind, s : setAppImage(a, wbc, im, v) = WithSource(a, at, kind, s)
  BY Zenon DEF setAppImage, SetIn, SetHelmImage, SetKustomizeImage, SetPluginImage
<1>2. /\ "edits" \in DOMAIN WithSource(a, at, kind, s)
      /\ WithSource(a, at, kind, s).edits = a.edits
  BY SMTT(30), WithSourceKeepsEdits
<1>3. QED
  BY Zenon, <1>1, <1>2

\* An application has the edits in k.
HasEdits(a, k) == "edits" \in DOMAIN a /\ k \subseteq a.edits

\* Versions of an application, the last of them a, that have the edits in k.
HaveEdits(vs, a, k) ==
  /\ \E S : vs \in Seq(S)
  /\ Len(vs) > 0 /\ vs[Len(vs)].app = a
  /\ \A i \in 1..Len(vs) : HasEdits(vs[i].app, k)

\* The edits in k are in every version of the application from the one in the
\* cache on, and in the copy of every updater with a cycle in progress: a copy is
\* taken from the cache.
EditsInv(k) ==
  /\ DOMAIN pc = Updaters /\ DOMAIN copy = Updaters
  /\ HaveEdits(versions, app, k)
  /\ \A u \in Updaters : pc[u] # "idle" => HasEdits(copy[u], k)

\* The first and the last version are among them.
LEMMA EndsHaveEdits ==
    ASSUME NEW vs, NEW a, NEW k, HaveEdits(vs, a, k)
    PROVE  HasEdits(Head(vs).app, k) /\ HasEdits(a, k)
<1>1. PICK S : vs \in Seq(S)
  BY Zenon DEF HaveEdits
<1>2. Len(vs) \in Nat /\ Len(vs) > 0
  BY SMTT(30), <1>1 DEF HaveEdits
<1>3. Head(vs) = vs[1] /\ 1 \in 1..Len(vs) /\ Len(vs) \in 1..Len(vs)
  BY SMTT(30), <1>1, <1>2
<1>4. QED
  BY Zenon, <1>3 DEF HaveEdits

\* The cache may catch up as long as there is a version left.
LEMMA TailHasEdits ==
    ASSUME NEW vs, NEW a, NEW k, HaveEdits(vs, a, k), Len(vs) > 1
    PROVE  HaveEdits(Tail(vs), a, k)
<1>1. PICK S : vs \in Seq(S)
  BY Zenon DEF HaveEdits
<1>2. /\ Tail(vs) \in Seq(S) /\ Len(Tail(vs)) = Len(vs) - 1 /\ Len(vs) \in Nat
      /\ \A i \in 1..Len(Tail(vs)) : Tail(vs)[i] = vs[i + 1]
  BY SMTT(30), <1>1
<1>3. Len(Tail(vs)) > 0 /\ Tail(vs)[Len(Tail(vs))] = vs[Len(vs)]
  BY SMTT(30), <1>2
<1>4. ASSUME NEW i \in 1..Len(Tail(vs)) PROVE HasEdits(Tail(vs)[i].app, k)
  <2>1. i + 1 \in 1..Len(vs) /\ Tail(vs)[i] = vs[i + 1]
    BY SMTT(30), <1>2
  <2>2. QED
    BY Zenon, <2>1 DEF HaveEdits
<1>5. QED
  BY Zenon, <1>2, <1>3, <1>4 DEF HaveEdits

\* A new version of an application that has the edits.
LEMMA AppendHasEdits ==
    ASSUME NEW vs, NEW a, NEW k, NEW v, HaveEdits(vs, a, k), HasEdits(v.app, k)
    PROVE  /\ HaveEdits(Append(vs, v), v.app, k)
           /\ HaveEdits(Tail(Append(vs, v)), v.app, k)
<1>1. PICK S : vs \in Seq(S)
  BY Zenon DEF HaveEdits
<1>2. vs \in Seq(S \cup {v})
  BY SMTT(30), <1>1
<1> DEFINE all == Append(vs, v)
<1>3. /\ all \in Seq(S \cup {v}) /\ Len(all) = Len(vs) + 1 /\ Len(vs) \in Nat
      /\ all[Len(all)] = v /\ \A i \in 1..Len(vs) : all[i] = vs[i]
  BY SMTT(30), <1>2
<1> HIDE DEF all
<1>4. Len(vs) > 0
  BY Zenon DEF HaveEdits
<1>5. ASSUME NEW i \in 1..Len(all) PROVE HasEdits(all[i].app, k)
  <2>1. (i \in 1..Len(vs) /\ all[i] = vs[i]) \/ all[i] = v
    BY SMTT(30), <1>3
  <2>2. QED
    BY Zenon, <2>1 DEF HaveEdits
<1>6. Len(all) > 1 /\ Len(all) > 0
  BY SMTT(30), <1>3, <1>4
<1>7. HaveEdits(all, v.app, k)
  BY Zenon, <1>3, <1>5, <1>6 DEF HaveEdits
<1>8. HaveEdits(Tail(all), v.app, k)
  BY SMTT(30), <1>6, <1>7, TailHasEdits
<1>9. QED
  BY SMTT(30), <1>7, <1>8 DEF all

\* Whoever writes an application with the edits keeps them in every version.
LEMMA WriteKeeps ==
    ASSUME NEW CONSTANT k, NEW a, NEW images, EditsInv(k), HasEdits(a, k), Write(a, images)
    PROVE  HaveEdits(versions', app', k)
<1> DEFINE v == Version(a, images)
           all == Append(versions, v)
<1>1. app' = a /\ ((a = app /\ versions' = versions) \/ versions' = all \/ versions' = Tail(all))
  BY Zenon DEF Write
<1>2. v.app = a
  BY DEF Version
<1>3. HaveEdits(versions, app, k)
  BY Zenon DEF EditsInv
<1> HIDE DEF v
<1>4. HaveEdits(all, a, k) /\ HaveEdits(Tail(all), a, k)
  BY SMTT(30), <1>2, <1>3, AppendHasEdits
<1> HIDE DEF all
<1>5. QED
  BY Zenon, <1>1, <1>3, <1>4

\* One updater moves on with a copy that has the edits.
LEMMA CopyKeeps ==
    ASSUME NEW CONSTANT k, EditsInv(k), NEW u \in Updaters, NEW at, NEW a, HasEdits(a, k),
           pc' = [pc EXCEPT ![u] = at], copy' = [copy EXCEPT ![u] = a],
           app' = app, versions' = versions
    PROVE  EditsInv(k)'
<1>1. DOMAIN pc' = Updaters /\ DOMAIN copy' = Updaters
  BY Zenon DEF EditsInv
<1>2. HaveEdits(versions', app', k)
  BY Zenon DEF EditsInv
<1>3. ASSUME NEW v \in Updaters, pc'[v] # "idle" PROVE HasEdits(copy'[v], k)
  <2>1. CASE v = u
    BY Zenon, <2>1 DEF EditsInv
  <2>2. CASE v # u
    BY Zenon, <1>3, <2>2 DEF EditsInv
  <2>3. QED
    BY SMTT(30), <2>1, <2>2
<1>4. QED
  BY Zenon, <1>1, <1>2, <1>3 DEF EditsInv

\* One updater's position changes, but not from or to idle.
LEMMA MoveKeeps ==
    ASSUME NEW CONSTANT k, EditsInv(k), NEW u \in Updaters, pc[u] # "idle", NEW at,
           pc' = [pc EXCEPT ![u] = at], copy' = copy, app' = app, versions' = versions
    PROVE  EditsInv(k)'
<1>1. DOMAIN pc' = Updaters /\ DOMAIN copy' = Updaters
  BY Zenon DEF EditsInv
<1>2. HaveEdits(versions', app', k)
  BY Zenon DEF EditsInv
<1>3. \A v \in Updaters : pc'[v] # "idle" => HasEdits(copy'[v], k)
  BY Zenon DEF EditsInv
<1>4. QED
  BY Zenon, <1>1, <1>2, <1>3 DEF EditsInv

\* A cycle ends, and may have written its copy.
LEMMA EndKeeps ==
    ASSUME NEW CONSTANT k, EditsInv(k), NEW u \in Updaters, pc[u] # "idle", Ends(u),
           HaveEdits(versions', app', k)
    PROVE  EditsInv(k)'
<1>1. DOMAIN pc' = Updaters /\ DOMAIN copy' = Updaters
  BY Zenon DEF EditsInv, Ends
<1>2. ASSUME NEW v \in Updaters, pc'[v] # "idle" PROVE HasEdits(copy'[v], k)
  <2>1. CASE v = u
    BY Zenon, <1>2, <2>1 DEF EditsInv, Ends
  <2>2. CASE v # u
    BY Zenon, <1>2, <2>2 DEF EditsInv, Ends
  <2>3. QED
    BY SMTT(30), <2>1, <2>2
<1>3. QED
  BY Zenon, <1>1, <1>2 DEF EditsInv

\* The loop goes on to the next image, with an image set or not.
LEMMA NextImageKeeps ==
    ASSUME NEW CONSTANT k, EditsInv(k), NEW u \in Updaters, pc[u] # "idle", NEW a, NEW needed,
           HasEdits(a, k), NextImage(u, a, needed), app' = app, versions' = versions
    PROVE  EditsInv(k)'
<1>1. pc' = [pc EXCEPT ![u] = "image"] /\ copy' = [copy EXCEPT ![u] = a]
  BY Zenon DEF NextImage
<1>2. QED
  BY Zenon, <1>1, CopyKeeps

\* The copy of a cycle in progress has the edits, also with an image set.
LEMMA SetKeeps ==
    ASSUME NEW CONSTANT k, EditsInv(k), NEW u \in Updaters, pc[u] # "idle", NEW im, NEW v
    PROVE  HasEdits(copy[u], k) /\ HasEdits(setAppImage(copy[u], cfg.wbc, im, v), k)
<1>1. HasEdits(copy[u], k)
  BY Zenon DEF EditsInv
<1>2. /\ "edits" \in DOMAIN setAppImage(copy[u], cfg.wbc, im, v)
      /\ setAppImage(copy[u], cfg.wbc, im, v).edits = copy[u].edits
  BY SMTT(30), <1>1, SetKeepsEdits DEF HasEdits
<1>3. QED
  BY Zenon, <1>1, <1>2 DEF HasEdits

\* An image that is skipped leaves the copy as it is.
LEMMA SkipKeeps ==
    ASSUME NEW CONSTANT k, EditsInv(k), NEW u \in Updaters, pc[u] # "idle", Skip(u), app' = app, versions' = versions
    PROVE  EditsInv(k)'
<1>1. HasEdits(copy[u], k) /\ NextImage(u, copy[u], needUpdate[u])
  BY Zenon DEF EditsInv, Skip
<1>2. QED
  BY SMTT(30), <1>1, NextImageKeeps

\* Setting an image, whether it is new or stays.
LEMMA SettingKeeps ==
    ASSUME NEW CONSTANT k, EditsInv(k), NEW u \in Updaters, pc[u] # "idle", NEW im, NEW v, NEW needed,
           NextImage(u, setAppImage(copy[u], cfg.wbc, im, v), needed), app' = app, versions' = versions
    PROVE  EditsInv(k)'
<1>1. HasEdits(setAppImage(copy[u], cfg.wbc, im, v), k)
  BY SMTT(30), SetKeeps
<1>2. QED
  BY SMTT(30), <1>1, NextImageKeeps

\* What UpdateApplication decides once the tags of an image are known.
LEMMA ConsiderKeeps ==
    ASSUME NEW CONSTANT k, EditsInv(k), NEW u \in Updaters, NEW down, Consider(u, down)
    PROVE  EditsInv(k)'
<1>1. pc[u] # "idle"
  <2>1. pc[u] = "image"
    BY Zenon DEF Consider, At
  <2>2. QED
    BY <2>1
<1>2. app' = app /\ versions' = versions
  BY Zenon DEF Consider, clusterVars
<1>3. PICK im : Skip(u) \/ \E t : Decide(u, im, t)
  BY Zenon DEF Consider
<1>4. CASE Skip(u)
  BY SMTT(30), <1>1, <1>2, <1>4, SkipKeeps
<1>5. ASSUME NEW t, Decide(u, im, t) PROVE EditsInv(k)'
  <2>1. \/ Skip(u)
        \/ \E v, needed : NextImage(u, setAppImage(copy[u], cfg.wbc, im, v), needed)
        \/ pc' = [pc EXCEPT ![u] = "verify"] /\ copy' = copy
    BY Zenon, <1>5 DEF Decide, SetNewImage
  <2>2. CASE \E v, needed : NextImage(u, setAppImage(copy[u], cfg.wbc, im, v), needed)
    <3>1. PICK v, needed : NextImage(u, setAppImage(copy[u], cfg.wbc, im, v), needed)
      BY SMTT(30), <2>2
    <3>2. QED
      BY SMTT(30), <1>1, <1>2, <3>1, SettingKeeps
  <2>3. CASE pc' = [pc EXCEPT ![u] = "verify"] /\ copy' = copy
    BY Zenon, <1>1, <1>2, <2>3, MoveKeeps
  <2>4. QED
    BY Zenon, <1>4, <2>1, <2>2, <2>3
<1>6. QED
  BY Zenon, <1>3, <1>4, <1>5

\* Verification sets the image or skips it.
LEMMA VerifyKeeps ==
    ASSUME NEW CONSTANT k, EditsInv(k), NEW u \in Updaters, Verify(u)
    PROVE  EditsInv(k)'
<1>1. pc[u] # "idle"
  <2>1. pc[u] = "verify"
    BY Zenon DEF Verify
  <2>2. QED
    BY <2>1
<1>2. app' = app /\ versions' = versions
  BY Zenon DEF Verify, clusterVars
<1>3. Skip(u) \/ SetNewImage(u, Images[pos[u]], latest[u])
  BY Zenon DEF Verify
<1>4. CASE Skip(u)
  BY SMTT(30), <1>1, <1>2, <1>4, SkipKeeps
<1>5. CASE SetNewImage(u, Images[pos[u]], latest[u])
  BY Zenon, <1>1, <1>2, <1>5, SettingKeeps DEF SetNewImage
<1>6. QED
  BY Zenon, <1>3, <1>4, <1>5

\* Every step of an updater, failing calls included.
LEMMA UpdaterKeeps ==
    ASSUME NEW CONSTANT k, EditsInv(k), NEW u \in Updaters, Updater(u) \/ Fault(u)
    PROVE  EditsInv(k)'
<1>1. CASE Start(u)
  <2>1. /\ pc' = [pc EXCEPT ![u] = "image"] /\ copy' = [copy EXCEPT ![u] = InCache.app]
        /\ app' = app /\ versions' = versions
    BY Zenon, <1>1 DEF Start, clusterVars
  <2>2. HasEdits(InCache.app, k)
    BY SMTT(30), EndsHaveEdits DEF EditsInv, InCache
  <2>3. QED
    BY Zenon, <2>1, <2>2, CopyKeeps
<1>2. CASE NotConsidered(u) \/ CallFails(u)
  <2>1. pc[u] # "idle"
    <3>1. pc[u] = "image" \/ pc[u] = "verify"
      BY Zenon, <1>2 DEF NotConsidered, CallFails, At
    <3>2. QED
      BY SMTT(30), <3>1
  <2>2. Skip(u) /\ app' = app /\ versions' = versions
    BY Zenon, <1>2 DEF NotConsidered, CallFails, clusterVars
  <2>3. QED
    BY SMTT(30), <2>1, <2>2, SkipKeeps
<1>3. CASE GetTags(u) \/ GetSomeTags(u)
  <2>1. PICK down : Consider(u, down)
    BY Zenon, <1>3 DEF GetTags, GetSomeTags
  <2>2. QED
    BY SMTT(30), <2>1, ConsiderKeeps
<1>4. CASE Verify(u)
  BY SMTT(30), <1>4, VerifyKeeps
<1>5. CASE NothingToCommit(u) \/ CommitFails(u) \/ CommitGit(u)
  <2>1. pc[u] # "idle"
    <3>1. pc[u] = "image" \/ pc[u] = "update"
      BY Zenon, <1>5 DEF NothingToCommit, CommitFails, CommitGit, Commits, Done
    <3>2. QED
      BY SMTT(30), <3>1
  <2>2. Ends(u) /\ app' = app /\ versions' = versions /\ HaveEdits(versions', app', k)
    BY Zenon, <1>5 DEF NothingToCommit, CommitFails, CommitGit, clusterVars, EditsInv
  <2>3. QED
    BY SMTT(30), <2>1, <2>2, EndKeeps
<1>6. CASE GetApplication(u)
  <2>1. pc[u] # "idle"
    <3>1. pc[u] = "image" \/ pc[u] = "get"
      BY Zenon, <1>6 DEF GetApplication, Commits, Done
    <3>2. QED
      BY SMTT(30), <3>1
  <2>2. pc' = [pc EXCEPT ![u] = "update"] /\ copy' = copy /\ app' = app /\ versions' = versions
    BY Zenon, <1>6 DEF GetApplication, clusterVars, updaterVars
  <2>3. QED
    BY Zenon, <2>1, <2>2, MoveKeeps
<1>7. CASE UpdateSpec(u)
  <2>1. pc[u] # "idle"
    <3>1. pc[u] = "update"
      BY Zenon, <1>7 DEF UpdateSpec
    <3>2. QED
      BY SMTT(30), <3>1
  <2>2. Ends(u) /\ Write(copy[u], summary)
    BY Zenon, <1>7 DEF UpdateSpec
  <2>3. HasEdits(copy[u], k)
    BY Zenon, <2>1 DEF EditsInv
  <2>4. HaveEdits(versions', app', k)
    BY SMTT(30), <2>2, <2>3, WriteKeeps
  <2>5. QED
    BY SMTT(30), <2>1, <2>2, <2>4, EndKeeps
<1>8. CASE Conflict(u)
  <2>1. pc[u] # "idle"
    <3>1. pc[u] = "update"
      BY Zenon, <1>8 DEF Conflict
    <3>2. QED
      BY <3>1
  <2>2. app' = app /\ versions' = versions /\ HaveEdits(versions', app', k)
    BY Zenon, <1>8 DEF Conflict, clusterVars, EditsInv
  <2>3. Ends(u) \/ (pc' = [pc EXCEPT ![u] = "get"] /\ copy' = copy)
    BY Zenon, <1>8 DEF Conflict, updaterVars
  <2>4. QED
    BY SMTT(30), <2>1, <2>2, <2>3, EndKeeps, MoveKeeps
<1>9. QED
  BY Zenon, <1>1, <1>2, <1>3, <1>4, <1>5, <1>6, <1>7, <1>8 DEF Updater, Fault

\* Someone else writes an application that has the edits.
LEMMA OthersKeep ==
    ASSUME NEW CONSTANT k, EditsInv(k), HaveEdits(versions', app', k), pc' = pc, copy' = copy
    PROVE  EditsInv(k)'
BY Zenon DEF EditsInv

\* A user changes the last version.
LEMMA UserWriteKeeps ==
    ASSUME NEW CONSTANT k, EditsInv(k), NEW a, HasEdits(a, k), UserWrites(a)
    PROVE  EditsInv(k)'
<1>1. Write(a, summary) /\ pc' = pc /\ copy' = copy
  BY Zenon DEF UserWrites, updaterVars
<1>2. HaveEdits(versions', app', k)
  BY SMTT(30), <1>1, WriteKeeps
<1>3. QED
  BY SMTT(30), <1>1, <1>2, OthersKeep

\* Pushes, signatures, syncs, the cache and users.
LEMMA EnvironmentKeeps ==
    ASSUME NEW CONSTANT k, EditsInv(k), Environment
    PROVE  EditsInv(k)'
<1>1. HaveEdits(versions, app, k) /\ HasEdits(app, k)
  BY SMTT(30), EndsHaveEdits DEF EditsInv
<1>2. CASE \/ \E r \in Repos : \E p \in cfg.pushes[r] : Push(r, p[1], p[2])
           \/ \E a \in cfg.signatures : Sign(a)
  <2>1. app' = app /\ versions' = versions /\ pc' = pc /\ copy' = copy
    BY Zenon, <1>2 DEF Push, Sign, clusterVars, updaterVars
  <2>2. QED
    BY Zenon, <1>1, <2>1, OthersKeep
<1>3. CASE Sync
  <2>1. pc' = pc /\ copy' = copy /\ \E s : Write(app, s)
    BY Zenon, <1>3 DEF Sync, updaterVars
  <2>2. HaveEdits(versions', app', k)
    BY SMTT(30), <1>1, <2>1, WriteKeeps
  <2>3. QED
    BY SMTT(30), <2>1, <2>2, OthersKeep
<1>4. CASE Watch
  <2>1. versions' = Tail(versions) /\ app' = app /\ pc' = pc /\ copy' = copy
    BY Zenon, <1>4 DEF Watch, updaterVars
  <2>2. Len(versions) > 1
    <3>1. PICK S : versions \in Seq(S)
      BY Zenon, <1>1 DEF HaveEdits
    <3>2. Len(versions) > 0 /\ Len(versions) # 1
      BY Zenon, <1>1, <1>4 DEF HaveEdits, Watch, InSync
    <3>3. Len(versions) \in Nat
      BY SMTT(30), <3>1
    <3>4. \A n \in Nat : n > 0 /\ n # 1 => n > 1
      OBVIOUS
    <3>5. QED
      BY Zenon, <3>2, <3>3, <3>4
  <2>3. HaveEdits(versions', app', k)
    BY SMTT(30), <1>1, <2>1, <2>2, TailHasEdits
  <2>4. QED
    BY SMTT(30), <2>1, <2>3, OthersKeep
<1>5. CASE UserEdit
  <2> DEFINE a == [app EXCEPT !.edits = @ \cup {edited + 1}]
  <2>1. UserWrites(a)
    BY Zenon, <1>5 DEF UserEdit
  <2>2. "edits" \in DOMAIN a /\ a.edits = app.edits \cup {edited + 1}
    BY Zenon, <1>1 DEF HasEdits
  <2> HIDE DEF a
  <2>3. HasEdits(a, k)
    BY Zenon, <1>1, <2>2 DEF HasEdits
  <2>4. QED
    BY SMTT(30), <2>1, <2>3, UserWriteKeeps
<1>6. CASE \E i \in Containers : \E v \in cfg.byHand[i] : SetImage(i, v)
  <2>1. PICK i, v : UserWrites(setAppImage(app, cfg.wbc, Images[i], v))
    BY Zenon, <1>6 DEF SetImage
  <2> DEFINE a == setAppImage(app, cfg.wbc, Images[i], v)
  <2>2. "edits" \in DOMAIN a /\ a.edits = app.edits
    BY SMTT(30), <1>1, SetKeepsEdits DEF HasEdits
  <2>3. UserWrites(a)
    BY SMTT(30), <2>1
  <2> HIDE DEF a
  <2>4. HasEdits(a, k)
    BY Zenon, <1>1, <2>2 DEF HasEdits
  <2>5. QED
    BY <2>3, <2>4, UserWriteKeeps
<1>7. QED
  BY Zenon, <1>2, <1>3, <1>4, <1>5, <1>6 DEF Environment

\* Every step.
LEMMA NextKeeps ==
    ASSUME NEW CONSTANT k, EditsInv(k), [Next]_vars
    PROVE  EditsInv(k)'
<1>1. CASE UNCHANGED vars
  BY Zenon, <1>1 DEF EditsInv, vars, clusterVars, updaterVars
<1>2. QED
  BY Zenon, <1>1, UpdaterKeeps, EnvironmentKeeps DEF Next

\* An edit that is in the application while no cycle is in progress and the cache
\* shows the last version is never lost, although UpdateSpec replaces the whole
\* specification by the copy that its cycle made of the cache: with any number of
\* updaters, conflicts and retries, and a cache any number of versions behind.
THEOREM EditsAreKept == Spec => EditsKept
<1>1. Init => EditsInv({})
  <2> SUFFICES ASSUME Init PROVE EditsInv({})
    OBVIOUS
  <2>2. DOMAIN pc = Updaters /\ DOMAIN copy = Updaters /\ \A u \in Updaters : pc[u] = "idle"
    BY Zenon DEF Init
  <2>3. HasEdits(app, {}) /\ versions = <<Version(app, summary)>>
    BY Zenon, ImageUpdateAssumption DEF Init, HasEdits
  <2>4. /\ versions \in Seq({Version(app, summary)}) /\ Len(versions) = 1
        /\ versions[1].app = app
    <3>1. Version(app, summary).app = app
      BY DEF Version
    <3>2. QED
      BY SMTT(30), <2>3, <3>1
  <2>5. 1 > 0 /\ \A i \in 1..1 : i = 1
    OBVIOUS
  <2>6. HaveEdits(versions, app, {})
    BY Zenon, <2>3, <2>4, <2>5 DEF HaveEdits
  <2>7. QED
    BY Zenon, <2>2, <2>6 DEF EditsInv
<1>2. EditsInv({}) /\ [Next]_vars => EditsInv({})'
  BY SMTT(30), NextKeeps
<1>3. ASSUME NEW CONSTANT e \in 1..MaxEdits
      PROVE  Spec => [](AllIdle /\ InSync /\ e \in app.edits => [](e \in app.edits))
  <2>1. EditsInv({}) /\ AllIdle /\ InSync /\ e \in app.edits => EditsInv({e})
    <3> SUFFICES ASSUME EditsInv({}), AllIdle, InSync, e \in app.edits PROVE EditsInv({e})
      OBVIOUS
    <3>2. HaveEdits(versions, app, {})
      BY Zenon DEF EditsInv
    <3>3. HasEdits(app, {e})
      BY SMTT(30), <3>2, EndsHaveEdits DEF HasEdits
    <3>4. HaveEdits(versions, app, {e})
      BY SMTT(30), <3>2, <3>3 DEF HaveEdits, InSync
    <3>5. QED
      BY Zenon, <3>4 DEF EditsInv, AllIdle
  <2>2. EditsInv({e}) /\ [Next]_vars => EditsInv({e})'
    BY SMTT(30), NextKeeps
  <2>3. EditsInv({e}) => e \in app.edits
    BY EndsHaveEdits DEF EditsInv, HasEdits
  <2>4. QED
    BY <1>1, <1>2, <2>1, <2>2, <2>3, PTL DEF Spec
<1>4. QED
  BY SMTT(30), <1>3 DEF EditsKept

=============================================================================
