----------------------------- MODULE ImageUpdate -----------------------------
(***************************************************************************)
(* UpdateApplication: the cycle in which an updater looks for the newest   *)
(* version of each image of one application, sets what it found in its     *)
(* copy of the application and writes it back, to the application or to a  *)
(* file in Git.  Meanwhile images are pushed and signed, Argo CD syncs,    *)
(* users edit the application and other updaters run.                      *)
(*                                                                         *)
(* Container i of the application is the one configured image i is about.  *)
(* Credentials and the calls to the registry are in module Registry, the   *)
(* commit and its locks in module WriteBack.                               *)
(***************************************************************************)
EXTENDS OverrideFile, Verification

CONSTANTS
  Updaters,
  Configs,          \* the configurations, see MCImageUpdate
  DefaultRetry,     \* bound: attempts of UpdateSpec (5 in the code)
  MaxPushes,        \* bound: pushes after the start
  MaxEdits,         \* bound: edits by users
  MaxFaults         \* bound: failing calls

ASSUME ImageUpdateAssumption == \A c \in Configs : "edits" \in DOMAIN c.app /\ c.lag \in Nat

VARIABLES
  cfg,              \* the configuration, chosen once
  pushed,           \* pushed[r]: the pushes to repository r
  artifacts,        \* the signatures in the registry
  cache,            \* cache[r][t]: the tag cache of the registry's endpoint
  app, file,        \* the Application and the override file in Git
  summary,          \* status.summary.images
  versions,         \* the Application from the version in the manager's cache to the last
  pc, pos,          \* an updater's position, and the image it looks at
  copy, live,       \* its copy of the application, and of the live images
  latest,           \* the tag it verifies
  needUpdate,
  fresh, attempts,  \* UpdateSpec: it read the last version, and its attempts
  right, target,    \* history: the image a container should have, and the one it is set to
  seen,             \* history: what has been right for a container in the cycle
  edited,           \* edits made so far
  faults

registryVars == <<pushed, artifacts, right>>
clusterVars == <<app, file, summary, versions, target>>
updaterVars == <<pos, copy, live, latest, needUpdate>>
vars == <<cfg, registryVars, cache, clusterVars, pc, updaterVars, fresh, attempts, seen, edited, faults>>

-----------------------------------------------------------------------------
(* Pure parts of the cycle.                                                 *)

Images == cfg.images
Containers == DOMAIN Images
Repos == DOMAIN pushed

Options(img) == GetPlatformOptions(img.platforms, cfg.ignorePlatforms, cfg.runtime)

\* The tag list of an image and the tags that go into the cache with it.
TagList(img, down) ==
  IF FetchesMetadata(img, cfg.sort)
  THEN CachedTags(img, pushed[img.repo], cache[img.repo])
         \cup FetchedTags(img, pushed[img.repo], Options(img), down, cache[img.repo])
  ELSE DummyTags(img, pushed[img.repo], cfg.sort)

Cached(img, down) ==
  LET tags == IF FetchesMetadata(img, cfg.sort)
              THEN FetchedTags(img, pushed[img.repo], Options(img), down, cache[img.repo]) ELSE {}
  IN  [cache EXCEPT ![img.repo] = [t \in Tags |->
         IF \E e \in tags : e.name = t THEN CHOOSE e \in tags : e.name = t ELSE @[t]]]

\* The digest strategy needs a constraint.
NewestOf(img, down) ==
  IF img.strategy = "digest" /\ img.tag = None THEN Newest("error", None)
  ELSE GetNewestVersionFromTags(img, TagList(img, down))

\* The live image an image is compared with.
Updateable(u, img, t) ==
  LET found == ContainsImage(live[u], img)
  IN  IF img.strategy = "digest" THEN Or(MatchForDigestUpdate(live[u], img, t.digest), found) ELSE found

DiffersFrom(img, i) == img.reg # i.reg \/ img.repo # i.repo

\* Mutant: a tag is enough for the digest strategy.
TagIsEnough(current, img, t) ==
  \/ current.tag # t.name
  \/ img.kustomizeName # None /\ DiffersFrom(img, current)

needsUpdate(current, img, t) ==
  \/ img.strategy = "digest" /\ (current.digest = None \/ current.digest # t.digest)
  \/ ~Equals(current, WithTag(img, t))
  \/ img.kustomizeName # None /\ DiffersFrom(img, current)

\* Mutant: a bare digest is written as it is reported.
BareDigest(current, img) == Value(img.reg, img.repo, current.tag, current.digest)

\* An image that stays is set too; a bare digest keeps the tag that is tracked.
CurrentTag(current, img) ==
  IF img.strategy = "digest" /\ img.tag # None /\ current.tag = None
  THEN Value(img.reg, img.repo, img.tag, current.digest)
  ELSE Value(img.reg, img.repo, current.tag, current.digest)

-----------------------------------------------------------------------------
(* What Argo CD makes of the application and the file, external.            *)

FromHelm(params, img, default) ==
  CASE img.helmSpec # None -> Or(params[img.helmSpec], default)
    [] params[HelmTag(img)] = None -> default
    [] OTHER -> Value(img.reg, img.repo, params[HelmTag(img)].tag, params[HelmTag(img)].digest)

FromPlugin(env, img, default) ==
  CASE img.pluginSpec # None -> Or(env[img.pluginSpec], default)
    [] img.pluginTag = None \/ env[img.pluginTag] = None -> default
    [] OTHER -> Value(img.reg, img.repo, env[img.pluginTag].tag, env[img.pluginTag].digest)

FromKustomize(images, base, default) ==
  LET k == FirstOr(images, LAMBDA e : IF e.alias # None THEN e.alias = base.repo
                                      ELSE e.image.repo = base.repo, None)
  IN  IF k = None THEN default ELSE k.image

\* Helm reads values along the path only.
FromValues(doc, img, default) ==
  LET p == Path[IF img.helmSpec # None THEN img.helmSpec ELSE HelmTag(img)]
      node == Nested(doc, p)
  IN  CASE node.kind # "scalar" -> default
        [] img.helmSpec # None -> node.value
        [] OTHER -> Value(img.reg, img.repo, node.value.tag, node.value.digest)

FromKustomization(images, base, default) ==
  LET e == FirstOr(images, LAMBDA o : o.name = GetFullNameWithoutTag(base), None)
  IN  IF e = None THEN default
      ELSE LET name == Or(e.newName, base) IN Value(name.reg, name.repo, e.newTag, e.digest)

\* The image that container i is set to, by the file f over the source s.
RenderedBy(s, kind, f, img, base) ==
  LET spec == CASE kind = "Kustomize" -> FromKustomize(Or(s.kustomize, <<>>), base, base)
                [] kind = "Plugin" -> FromPlugin(Or(s.plugin, NoParams), img, base)
                [] OTHER -> FromHelm(Or(s.helm, NoParams), img, base)
      over(default) == CASE cfg.wbc.target = "kustomization" -> FromKustomization(f, base, default)
                         [] kind = "Kustomize" -> FromKustomize(f, base, default)
                         [] kind = "Plugin" -> FromPlugin(f, img, default)
                         [] cfg.wbc.target # "default" -> FromValues(f, img, default)
                         [] OTHER -> FromHelm(f, img, default)
  IN  IF cfg.wbc.method = "argocd" \/ f \in {None, Garbled} THEN spec ELSE over(spec)

Rendered(a, f, i) ==
  RenderedBy(Source(a, cfg.wbc), TargetKind(a, cfg.wbc, Images[i]), f, Images[i], cfg.chart[i])

Target(a, f) == [i \in Containers |-> Rendered(a, f, i)]

-----------------------------------------------------------------------------
(* The right image of a container, by definition rather than by sorting:    *)
(* no tag that the image may have is later.                                 *)

Eligible(img, pushes) ==
  LET usable(t) == TagMetadata(ManifestForTag(pushes, t), Options(img), NeedsMetadata(img), {}).status = "ok"
  IN  {t \in TagsOf(pushes) :
         /\ Wanted(img, t)
         /\ img.strategy = "semver" => SemVer[t] # None /\ Check(img, t)
         /\ FetchesMetadata(img, cfg.sort) => usable(t)}

CreatedAt(img, pushes, t) == TagMetadata(ManifestForTag(pushes, t), Options(img), TRUE, {}).created

LastPush(pushes, t) == Max({k \in DOMAIN pushes : pushes[k][1] = t})

Later(img, pushes, s, t) ==
  LET created(x) == CreatedAt(img, pushes, x)
  IN  CASE img.strategy = "semver" /\ SemVer[s] # SemVer[t] -> compareVersions(SemVer[t], SemVer[s])
        [] img.strategy = "newest-build" /\ Timesorted(cfg.sort) -> LastPush(pushes, s) > LastPush(pushes, t)
        [] img.strategy = "newest-build" /\ created(s) # created(t) -> created(s) > created(t)
        [] OTHER -> s > t

RightImage(img, pushes) ==
  LET eligible == Eligible(img, pushes)
      t == CHOOSE t \in eligible : \A s \in eligible \ {t} : Later(img, pushes, t, s)
      badRange == img.strategy = "semver" /\ img.range # None /\ ~img.range.valid
  IN  IF eligible = {} \/ img.foreignSecret \/ badRange THEN None
      ELSE Value(img.reg, img.repo, t, IF img.strategy = "digest" THEN ManifestForTag(pushes, t) ELSE None)

Right(all) == [i \in Containers |-> RightImage(Images[i], all[Images[i].repo])]

-----------------------------------------------------------------------------
(* The Application is read through the manager's client, whose cache is     *)
(* filled by a watch and may be behind the API server, external.            *)

Version(a, images) == [app |-> a, summary |-> images]

InCache == Head(versions)
InSync == Len(versions) = 1

\* The images that container i has been set to since the version in the cache.
Known == [i \in Containers |-> {target[i]} \cup {Rendered(v.app, file, i) : v \in ToSet(Front(versions))}]

\* A write that changes something makes a new version, and whoever read an earlier
\* one will have a conflict.  The cache is at most cfg.lag versions behind.
Write(a, images) ==
  /\ app' = a /\ summary' = images
  /\ target' = Target(a, file)
  /\ UNCHANGED file
  /\ IF a = app /\ images = summary THEN UNCHANGED <<versions, fresh>>
     ELSE /\ versions' = LET all == Append(versions, Version(a, images))
                         IN  IF Len(versions) > cfg.lag THEN Tail(all) ELSE all
          /\ fresh' = [u \in Updaters |-> FALSE]

-----------------------------------------------------------------------------

Init ==
  /\ cfg \in Configs
  /\ pushed = cfg.pushed
  /\ artifacts = cfg.artifacts
  /\ cache = [r \in DOMAIN cfg.pushed |-> [t \in Tags |-> None]]
  /\ app = cfg.app
  /\ file = cfg.file
  /\ summary = cfg.summary
  /\ versions = <<Version(app, summary)>>
  /\ pc = [u \in Updaters |-> "idle"]
  /\ pos = [u \in Updaters |-> 1]
  /\ copy = [u \in Updaters |-> None]
  /\ live = [u \in Updaters |-> <<>>]
  /\ latest = [u \in Updaters |-> None]
  /\ needUpdate = [u \in Updaters |-> FALSE]
  /\ fresh = [u \in Updaters |-> FALSE]
  /\ attempts = [u \in Updaters |-> 0]
  /\ right = Right(pushed)
  /\ target = Target(app, file)
  /\ seen = [u \in Updaters |-> [i \in DOMAIN cfg.images |-> {}]]
  /\ edited = 0
  /\ faults = 0

\* Mutant: the application that the first cycle listed.
StartFromFirstList(u) ==
  /\ pc[u] = "idle" /\ u \in cfg.updaters
  /\ pc' = [pc EXCEPT ![u] = "image"]
  /\ copy' = [copy EXCEPT ![u] = cfg.app]
  /\ live' = [live EXCEPT ![u] = GetImagesFromApplication(InCache.summary, Images)]
  /\ seen' = [seen EXCEPT ![u] = [i \in Containers |-> Known[i] \cup {right[i]}]]
  /\ UNCHANGED <<cfg, registryVars, cache, clusterVars, pos, latest, needUpdate, fresh, attempts, edited, faults>>

\* A new cycle: the application is listed with its live images, from the cache.
Start(u) ==
  /\ pc[u] = "idle" /\ u \in cfg.updaters
  /\ pc' = [pc EXCEPT ![u] = "image"]
  /\ copy' = [copy EXCEPT ![u] = InCache.app]
  /\ live' = [live EXCEPT ![u] = GetImagesFromApplication(InCache.summary, Images)]
  /\ seen' = [seen EXCEPT ![u] = [i \in Containers |-> Known[i] \cup {right[i]}]]
  /\ UNCHANGED <<cfg, registryVars, cache, clusterVars, pos, latest, needUpdate, fresh, attempts, edited, faults>>

\* The locals of a finished cycle are gone.
Ends(u) ==
  /\ pc' = [pc EXCEPT ![u] = "idle"]
  /\ pos' = [pos EXCEPT ![u] = 1]
  /\ copy' = [copy EXCEPT ![u] = None]
  /\ live' = [live EXCEPT ![u] = <<>>]
  /\ latest' = [latest EXCEPT ![u] = None]
  /\ needUpdate' = [needUpdate EXCEPT ![u] = FALSE]
  /\ attempts' = [attempts EXCEPT ![u] = 0]
  /\ seen' = [seen EXCEPT ![u] = [i \in Containers |-> {}]]

\* Continue with the next image.
NextImage(u, a, needed) ==
  /\ pc' = [pc EXCEPT ![u] = "image"]
  /\ pos' = [pos EXCEPT ![u] = @ + 1]
  /\ copy' = [copy EXCEPT ![u] = a]
  /\ latest' = [latest EXCEPT ![u] = None]
  /\ needUpdate' = [needUpdate EXCEPT ![u] = needed]
  /\ UNCHANGED live

Skip(u) == NextImage(u, copy[u], needUpdate[u])

SetNewImage(u, img, t) == NextImage(u, setAppImage(copy[u], cfg.wbc, img, WithTag(img, t)), TRUE)

At(u, img) == pc[u] = "image" /\ pos[u] \in Containers /\ img = Images[pos[u]]

\* The image is not live, or its pull secret is in a foreign namespace.
NotConsidered(u) ==
  \E img \in ToSet(Images) :
    /\ At(u, img) /\ (ContainsImage(live[u], img) = None \/ img.foreignSecret)
    /\ Skip(u)
    /\ UNCHANGED <<cfg, registryVars, cache, clusterVars, fresh, attempts, seen, edited, faults>>

\* The steps of UpdateApplication after the tags of an image are known.
Decide(u, img, t) ==
  \E current \in {Updateable(u, img, t)} :
    \E needed \in {needsUpdate(current, img, t)}, settable \in {Settable(copy[u], cfg.wbc, img)},
       already \in {AlreadySet(copy[u], cfg.wbc, img, WithTag(img, t))} :
      \/ /\ ~needed /\ settable
         /\ NextImage(u, setAppImage(copy[u], cfg.wbc, img, CurrentTag(current, img)), needUpdate[u])
      \/ /\ ~settable \/ (needed /\ already)
         /\ Skip(u)
      \/ /\ needed /\ settable /\ ~already
         /\ IF img.verification
            THEN /\ pc' = [pc EXCEPT ![u] = "verify"]
                 /\ latest' = [latest EXCEPT ![u] = t]
                 /\ UNCHANGED <<pos, copy, live, needUpdate>>
            ELSE SetNewImage(u, img, t)

\* The manifests in down cannot be fetched now; their tags are left out.
Consider(u, down) ==
  \E img \in ToSet(Images) :
    /\ At(u, img) /\ ContainsImage(live[u], img) # None /\ ~img.foreignSecret
    /\ \E newest \in {NewestOf(img, down)} :
         /\ \/ newest.status # "ok" /\ Skip(u)
            \/ newest.status = "ok" /\ Decide(u, img, newest.tag)
         /\ seen' = IF down = {} THEN seen
                    ELSE [seen EXCEPT ![u][pos[u]] = @ \cup {WithTag(img, newest.tag)}]
    /\ cache' = Cached(img, down)
    /\ faults' = IF down = {} THEN faults ELSE faults + 1
    /\ UNCHANGED <<cfg, registryVars, clusterVars, fresh, attempts, edited>>

GetTags(u) == Consider(u, {})

GetSomeTags(u) ==
  /\ faults < MaxFaults /\ pos[u] \in Containers
  /\ \E m \in cfg.down : NewestOf(Images[pos[u]], {m}).status = "ok" /\ Consider(u, {m})

\* Credentials, the client or the list of tags fail.
CallFails(u) ==
  /\ faults < MaxFaults /\ cfg.fails
  /\ \/ pc[u] = "image" /\ pos[u] \in Containers
     \/ pc[u] = "verify"
  /\ faults' = faults + 1
  /\ Skip(u)
  /\ UNCHANGED <<cfg, registryVars, cache, clusterVars, fresh, attempts, seen, edited>>

\* Mutant: the manifest of the tag is always looked up again.
LookUpAgain(u, img) == ManifestForTag(pushed[img.repo], latest[u].name)

\* Without the digest from the metadata the tag is looked up again.
VerifiedDigest(u, img) ==
  IF latest[u].manifestDigest # None THEN latest[u].manifestDigest
  ELSE ManifestForTag(pushed[img.repo], latest[u].name)

\* A tag never comes with candidates: the cache keeps a copy of it, made before
\* it is verified, so that they are fetched every time.
Signatures(u, img) == fetchTagSignatures(artifacts, VerifiedDigest(u, img), {})

Verify(u) ==
  LET img == Images[pos[u]]
      verified == VerifyWithPublicKey(Signatures(u, img), img.key)
  IN  /\ pc[u] = "verify"
      /\ \/ verified /\ SetNewImage(u, img, latest[u])
         \/ ~verified /\ Skip(u)
      /\ UNCHANGED <<cfg, registryVars, cache, clusterVars, fresh, attempts, seen, edited, faults>>

-----------------------------------------------------------------------------
(* After the last image: nothing to do, a dry run, or the write-back.       *)

Done(u) == pc[u] = "image" /\ pos[u] \notin Containers

NothingToCommit(u) ==
  /\ Done(u) /\ (~needUpdate[u] \/ cfg.dryRun)
  /\ Ends(u)
  /\ UNCHANGED <<cfg, registryVars, cache, clusterVars, fresh, edited, faults>>

Commits(u) == Done(u) /\ needUpdate[u] /\ ~cfg.dryRun

\* UpdateSpec, inside the retry: the application is read again, from the cache.
GetApplication(u) ==
  /\ Commits(u) \/ pc[u] = "get"
  /\ cfg.wbc.method = "argocd"
  /\ pc' = [pc EXCEPT ![u] = "update"]
  /\ fresh' = [fresh EXCEPT ![u] = InSync]
  /\ UNCHANGED <<cfg, registryVars, cache, clusterVars, updaterVars, attempts, seen, edited, faults>>

\* The whole specification is replaced by the copy.
UpdateSpec(u) ==
  /\ pc[u] = "update" /\ fresh[u]
  /\ Write(copy[u], summary)
  /\ Ends(u)
  /\ UNCHANGED <<cfg, registryVars, cache, edited, faults>>

\* Mutant: one attempt more.
OneMoreAttempt(u) ==
  /\ pc[u] = "update" /\ ~fresh[u]
  /\ IF attempts[u] < DefaultRetry
     THEN /\ pc' = [pc EXCEPT ![u] = "get"]
          /\ attempts' = [attempts EXCEPT ![u] = @ + 1]
          /\ UNCHANGED <<updaterVars, seen>>
     ELSE Ends(u)
  /\ UNCHANGED <<cfg, registryVars, cache, clusterVars, fresh, edited, faults>>

\* A conflict is retried, up to DefaultRetry attempts.
Conflict(u) ==
  /\ pc[u] = "update" /\ ~fresh[u]
  /\ IF attempts[u] + 1 < DefaultRetry
     THEN /\ pc' = [pc EXCEPT ![u] = "get"]
          /\ attempts' = [attempts EXCEPT ![u] = @ + 1]
          /\ UNCHANGED <<updaterVars, seen>>
     ELSE Ends(u)
  /\ UNCHANGED <<cfg, registryVars, cache, clusterVars, fresh, edited, faults>>

CommitFails(u) ==
  /\ Commits(u) \/ pc[u] = "update"
  /\ faults < MaxFaults /\ cfg.fails
  /\ faults' = faults + 1
  /\ Ends(u)
  /\ UNCHANGED <<cfg, registryVars, cache, clusterVars, fresh, edited>>

\* The file as it is at the time of the commit; unchanged content is no commit.
CommitGit(u) ==
  /\ Commits(u) /\ cfg.wbc.method = "git"
  /\ \E new \in {NewContent(copy[u], cfg.wbc, Images, live[u], file)} :
       file' = IF new = Bad THEN file ELSE new
  /\ target' = Target(app, file')
  /\ Ends(u)
  /\ UNCHANGED <<cfg, registryVars, cache, app, summary, versions, fresh, edited, faults>>

-----------------------------------------------------------------------------
(* The rest of the world.                                                   *)

Pushes == LET count(r) == Len(pushed[r]) - Len(cfg.pushed[r]) IN MapThenSumSet(count, Repos)

\* A cycle in progress may pick up what has just been published.
Push(r, t, m) ==
  LET new == [pushed EXCEPT ![r] = Append(@, <<t, m>>)]
  IN  /\ Pushes < MaxPushes
      /\ pushed' = new
      /\ right' = Right(new)
      /\ seen' = [u \in Updaters |-> IF pc[u] = "idle" THEN seen[u]
                                     ELSE [i \in Containers |-> seen[u][i] \cup {right'[i]}]]
      /\ UNCHANGED <<cfg, artifacts, cache, clusterVars, pc, updaterVars, fresh, attempts, edited, faults>>

Sign(a) ==
  /\ a \notin artifacts
  /\ artifacts' = artifacts \cup {a}
  /\ UNCHANGED <<cfg, pushed, right, cache, clusterVars, pc, updaterVars, fresh, attempts, seen, edited, faults>>

\* Argo CD deploys what is set and reports the images, each reference once, in
\* some order; those with a digest with their tags or without.
Deployed == {target[i] : i \in Containers}
Bare(v) == IF v.digest = None THEN v ELSE [v EXCEPT !.tag = None]
Reported(images) == {images, {Bare(v) : v \in images}}

Reports(s) == ToSet(s) \in Reported(Deployed)

Sync ==
  /\ ~Reports(summary)
  /\ \E images \in Reported(Deployed) : \E s \in SetToSeqs(images) : Write(app, s)
  /\ UNCHANGED <<cfg, registryVars, cache, pc, updaterVars, attempts, seen, edited, faults>>

\* The watch brings the next version to the cache.
Watch ==
  /\ ~InSync
  /\ versions' = Tail(versions)
  /\ UNCHANGED <<cfg, registryVars, cache, app, file, summary, target, pc, updaterVars, fresh, attempts, seen,
                 edited, faults>>

\* A user edits something the updater does not manage, or sets an image.
UserWrites(a) ==
  /\ edited < MaxEdits
  /\ edited' = edited + 1
  /\ Write(a, summary)
  /\ UNCHANGED <<cfg, registryVars, cache, pc, updaterVars, attempts, seen, faults>>

UserEdit == edited + 1 \in cfg.edits /\ UserWrites([app EXCEPT !.edits = @ \cup {edited + 1}])

SetImage(i, v) == UserWrites(setAppImage(app, cfg.wbc, Images[i], v))

-----------------------------------------------------------------------------

Updater(u) ==
  \/ Start(u)
  \/ NotConsidered(u)
  \/ GetTags(u)
  \/ Verify(u)
  \/ NothingToCommit(u)
  \/ GetApplication(u)
  \/ UpdateSpec(u)
  \/ Conflict(u)
  \/ CommitGit(u)

Fault(u) == GetSomeTags(u) \/ CallFails(u) \/ CommitFails(u)

Environment ==
  \/ \E r \in Repos : \E p \in cfg.pushes[r] : Push(r, p[1], p[2])
  \/ \E a \in cfg.signatures : Sign(a)
  \/ Sync
  \/ Watch
  \/ UserEdit
  \/ \E i \in Containers : \E v \in cfg.byHand[i] : SetImage(i, v)

Next == Environment \/ \E u \in Updaters : Updater(u) \/ Fault(u)

Spec == Init /\ [][Next]_vars

\* Cycles begin and end, Argo CD reports what is set, and the cache catches up, again
\* and again; no one has to push, sign or edit.
FairSpec ==
  /\ Spec
  /\ []<>Reports(summary)
  /\ []<>InSync
  /\ \A u \in Updaters : []<>(u \in cfg.updaters => pc[u] = "idle") /\ []<>(u \in cfg.updaters => pc[u] # "idle")

-----------------------------------------------------------------------------

TypeOK ==
  /\ cfg \in Configs
  /\ DOMAIN pushed = DOMAIN cfg.pushed
  /\ \A r \in Repos : ToSet(pushed[r]) \subseteq ToSet(cfg.pushed[r]) \cup cfg.pushes[r]
  /\ artifacts \subseteq cfg.artifacts \cup cfg.signatures
  /\ pc \in [Updaters -> {"idle", "image", "verify", "get", "update"}]
  /\ pos \in [Updaters -> 1..(Len(Images) + 1)]
  /\ needUpdate \in [Updaters -> BOOLEAN]
  /\ fresh \in [Updaters -> BOOLEAN]
  /\ attempts \in [Updaters -> 0..(DefaultRetry - 1)]
  /\ edited \in 0..MaxEdits /\ app.edits \subseteq 1..edited
  /\ Len(versions) \in 1..(cfg.lag + 1) /\ Last(versions) = Version(app, summary)
  /\ faults \in 0..MaxFaults
  /\ \A u \in Updaters :
       /\ pc[u] = "idle" <=> copy[u] = None
       /\ pc[u] = "verify" <=> latest[u] # None
       /\ pc[u] \in {"get", "update"} => needUpdate[u] /\ pos[u] = Len(Images) + 1

Tracking == INSTANCE ImageTracking WITH known <- Known

\* UpdateApplication implements ImageTracking: whatever is pushed, edited, synced or
\* fails meanwhile, and whichever way images are written, a cycle leaves a
\* container as it was or sets the newest allowed image of some time in it.
Tracks == Tracking!Spec

\* The override file has every image, "regardless of those were updated or not"
\* (UpdateApplication): a commit gives no container an image that is neither its
\* own nor one that this cycle found.
AllImagesWritten ==
  [][\A u \in Updaters : CommitGit(u) => \A i \in Containers : target'[i] \in {target[i]} \cup seen[u][i]]_vars

\* UpdateApplication verifies what it sets: an image with verification enabled is
\* the one of the start, or names a pushed manifest signed with the key, although
\* tags move between the listing and VerifyWithPublicKey.
VerifiedOnly ==
  \A i \in Containers :
    LET img == Images[i]
    IN  img.verification =>
          \/ target[i] = Rendered(cfg.app, cfg.file, i)
          \/ \E p \in ToSet(pushed[img.repo]) :
               /\ p[1] = target[i].tag
               /\ target[i].digest \in {None, p[2]}
               /\ SignedBy(artifacts, p[2], img.key)

AllIdle == \A u \in Updaters : pc[u] = "idle"

\* UpdateSpec replaces the whole specification by the copy that a cycle made of the
\* cache.  An edit made during a cycle, or that the cache does not show when a cycle
\* starts, may be lost.  One that is there when no cycle is in progress and the
\* cache shows the last version is never lost again.
EditsKept == \A e \in 1..MaxEdits : [](AllIdle /\ InSync /\ e \in app.edits => [](e \in app.edits))

\* Once pushes, signatures, edits and failures end, every container is set to the
\* newest image that its strategy, constraints, platforms and key allow, and stays;
\* a dry run changes nothing, and a values file that cannot be parsed stays as it is.
Settled(i) ==
  LET img == Images[i]
  IN  \/ cfg.dryRun /\ target[i] = Rendered(cfg.app, cfg.file, i)
      \/ ~cfg.dryRun /\ right[i] \in {None, target[i]}
      \/ ~Settable(app, cfg.wbc, img)
      \/ file = Garbled /\ cfg.wbc.target # "default"
      \/ /\ img.verification
         /\ LET digest == ManifestForTag(pushed[img.repo], right[i].tag)
            IN  ~VerifyWithPublicKey(fetchTagSignatures(artifacts, digest, {}), img.key)

ImagesConverge == <>[](\A i \in Containers : Settled(i))

=============================================================================
