# A TLA+ verification of Argo CD Image Updater

Argo CD Image Updater watches container registries and changes the image tags of
Argo CD applications, through the Kubernetes API, by commits to Git, or by pull
requests. This directory models it in TLA+, from a registry's webhook to the commit,
checks the models with TLC on small instances and proves the main safety properties
with TLAPS. The Go code
is the reference; paths below are relative to `src/`.

## 1. The system

### Parts

| Part | Code | State it owns |
|---|---|---|
| Controller | `internal/controller/*.go` | finalizer and status of `ImageUpdater` objects, `onceCompleted`, `Wg` |
| Process | `cmd/run.go` | channel `CacheWarmed`, stop watcher, manager |
| Webhook server | `pkg/webhook/server.go` and a handler per registry | goroutine per event |
| Update run | `internal/controller/reconcile.go`, `pkg/argocd/update.go` | `SyncIterationState`: repository locks, `prCreated` |
| Git write-back | `pkg/argocd/git.go`, `commit_github.go`, `ext/git` | temporary clone; branches on the server |
| Pull requests | `pkg/argocd/pr_service.go`, `pr_github.go`, `mr_gitlab.go` | open requests at the SCM |
| Spec updates | `pkg/argocd/argocd.go` (`UpdateSpec`) | the application object |
| Application filter | `pkg/argocd/argocd.go`, `annotations.go` | the list of applications of one pass |
| Webhook handlers | `pkg/webhook/*.go` | none (pure) |
| Overrides | `pkg/argocd/update.go`, `git.go` | Helm values, `.argocd-source`, `kustomization.yaml` |
| Registry endpoints | `registry-scanner/pkg/registry` | endpoint table, cached credentials, transports, tag cache |
| Tag selection, verification | `registry-scanner/pkg/image`, `pkg/tag` | none (pure) |
| Metrics | `pkg/metrics/metrics.go` | Prometheus series per object |

### How they interact

`Reconcile`, the warm-up (`CacheWarmer.Start`) and every webhook event start
*runs* (`RunImageUpdater`). A run lists the applications of one object and starts
a goroutine for each; the goroutine asks the registry for the newest tag and
writes it back. Runs of different objects, and a webhook run and a Reconcile of
the same object, go on at the same time. They share the Git server, the API
server, the endpoint table and the metrics, but *not* the repository locks: those
belong to the `SyncIterationState` of one run (`reconcile.go:46`).

### What is hard

- concurrent runs push to one branch, sometimes with force, and people push too;
- any Git, SCM, registry or Kubernetes call may fail, or take effect and lose its
  answer; the process may die between push and pull request;
- the result of a fetch, a list or a `Get` is used steps later;
- an application is skipped because *another* one of the run handles its target;
- events wait behind the warm-up gate, errors and restarts;
- status and finalizer writes race with users and with each other;
- run-once mode counts objects at one moment and signals them at another;
- goroutines share endpoints: one clears or replaces the credentials another is using,
  and strategies with different needs share a tag cache;
- a tag is pushed again between its listing, its verification and its use;
- a cycle reads an application, a live image list that lags behind and a file, and
  later writes back a copy of what it read;
- settings come from three levels, two merges and annotations, and one invalid rule,
  image or secret must not take the rest of a pass with it.

`PROJECT.json` lists these hazards at the lines where they bite.

## 2. Modules

| Module | Contents |
|---|---|
| `Controller` | Reconcile, warm-up, webhook runs, run-once mode, metrics |
| `RunOnce` | what run-once mode promises; `Controller` implements it |
| `AppFilter` | which applications and images a resource updates, with which settings |
| `WebhookPayload` | what each registry's webhook request says; used by `AppFilter` |
| `ImageUpdate` | the cycle of `UpdateApplication` over the images of an application |
| `ImageTracking` | what that cycle promises; `ImageUpdate` implements it |
| `TagSelection` | platforms, filters, strategies: the newest tag (operators) |
| `Verification` | where signatures are found and what they are bound to (operators) |
| `ApplicationType` | the type of an application and the source that is written to (operators) |
| `Overrides` | live images and the write targets in an application (operators) |
| `OverrideFile` | the write targets in files: overrides, values, kustomizations (operators) |
| `Registry` | endpoints, credentials, clients, metadata, tag cache |
| `WriteBack` | runs, workers and the write-back to Git; extends `GitRemote` |
| `GitRemote` | the Git server and open pull requests (external; from how the code uses them) |
| `MCController`, `MCAppFilter`, `MCImageUpdate`, `MCRegistry`, `MCWriteBack` | instances for TLC |
| `ControllerProofs`, `ControllerRunProofs` | theorems about `Controller`: types, gate, metrics; run-once mode, limit, condition |
| `WriteBackProofs`, `RequestProofs` | theorems about `WriteBack`: types, locks, commits; dry runs, pull requests |
| `AppFilterProofs`, `ImageUpdateProofs`, `RegistryProofs` | theorems about these |

The models meet where the code hands over. `Controller` starts a run and sees only
that it ends (`FilterApplications` and `UpdateApplications`, the two steps that touch
its own state). What the first of them computes is `AppFilter`; what the second does to
one application is `ImageUpdate`, which gets tags from the operators of `TagSelection`
and treats credentials and calls as one step that may fail; how they come about, with
all goroutines at one endpoint, is `Registry`. `ImageUpdate` commits to a file in one
step that may fail; `WriteBack` has that commit in full, with locks, clones, branches
and pull requests, for one image.

Definitions keep the names of the code. The definitions commented "Mutant" are
plausible bugs (a dropped guard, a missing reset); they are not used by the
specifications and exist to show that each property notices the bug it is meant for.

### WriteBack

A branch is the sequence of its commits, and a commit writes one tag to one
*slot* (the place of an image in a target file). Tags are numbers in release
order; an application has one image. A branch name is the record of what the
template puts into it (literal part, application, target key, change), so that two
names are equal exactly when the rendered templates are, up to hash collisions.

| Variable | Code |
|---|---|
| `phase`, `seen` | a call of `RunImageUpdater` and the application list it works from |
| `pc`, `chg`, `outcome` | a worker's place in `UpdateApplication`, its `changeList`, its result |
| `clone`, `created` | the checked-out history, and whether the push branch was made locally (`git.go:256-276`) |
| `lock`, `prCreated` | `SyncIterationState.repositoryLocks` and its set of keys (`types.go:179-219`) |
| `recent` | `Status.RecentUpdates` |
| `remote`, `prs` | branches and open pull requests on the server |
| `newest`, `live` | the registry, and what Argo CD has deployed |
| `faults`, `human` | counters for the bounds |

The constant `Config` is the `WriteBackConfig` of each application, `AppsOf` the
applications of each resource; `WarmUps` are the runs of the cache warm-up, which are
dry and take one application at a time (`reconcile.go:48-57`), and `DryRun` is
`--dry-run`.

Actions follow `commitChangesLocked` step by step: `commitChangesLocked` (lock
and `MarkPRCreated`), `skipIfPRExists`, `ShallowFetch`, `Branch`, `write`,
`CommitAndPush` or `CreateRef` and `createCommitOnBranch`, `create`. Every call of
the locked section may fail (`CommitFails`); push, API commit and request creation
may also succeed and lose their answer; `Crash` ends all runs at any point. The
environment releases tags, syncs applications, pushes to base branches and merges
requests, with or without deleting the head branch.

### Controller

| Variable | Code |
|---|---|
| `obj`, `status` | the objects in the API server |
| `queued`, `timer` | the work queue and `RequeueAfter` |
| `task` | the run of each source (Reconcile, warm-up, each webhook event) for each object, with the copy it read |
| `stale` | the object was written since Reconcile read it, so an `Update` conflicts |
| `phase`, `warmed` | warm-up and webhook goroutines; `CacheWarmed` is closed |
| `completed`, `wg`, `watching` | `onceCompleted`, `Wg`, the goroutine in `Wg.Wait` |
| `proc`, `metrics` | the process, and the objects that have series |
| `checked`, `counted`, `ended` | history variables of the properties |

Reconcile is `WaitForWarmUp` or `Get`; then `Finalize` and `RemoveFinalizer`, or
`StopDeleting`, or `AddFinalizer`; then `Proceed`, `setReconcilingStatus`, the run,
and `FinishReconcile` (status, `RequeueAfter`, `Wg.Done`). The status writes retry on
conflict and re-read the object, so each is one step. The generation of an object
stands for the pair of UID and `metadata.generation`: it keeps counting when a name
is deleted and created again. Kubernetes (optimistic concurrency, finalizers, the
generation predicate, one Reconcile per object at a time) is external.

### Registry

A worker is a goroutine that gets the tags of one image, cycle after cycle. A registry
prefix is a text, written as a sequence of pieces, and one text starts with another as
texts do: `priv-eu` starts with `priv`. A credential is a source (a secret) and the
version of its password, so that a stale credential is one whose version is not the
registry's. `Expires` has the configured registries with a `credsexpire`; the others, as
by default, keep the credentials they read first, whether refused or not.

| Variable | Code |
|---|---|
| `loaded`, `registries`, `defaultRegistry` | the endpoint table (`endpoints.go`); an endpoint object is a prefix and who made it |
| `user`, `age` | `Username`/`Password` and `CredsUpdated` of an endpoint |
| `cache` | `ep.Cache`; entries never expire |
| `pc`, `img`, `ep`, `cred`, `retried` | a worker in `UpdateApplication`: its image, endpoint, client and retry |
| `refusal`, `token` | the answer that refused it; the bearer token of its transport |
| `todo`, `inflight`, `list` | `GetTags`: tags left, goroutines that fetch metadata, `tagList` |
| `password`, `secret`, `build` | the registry's password, the cluster's copy, the pushes to a tag |

The actions follow the code's lock sections: the table is read twice and written once
(`GetRegistryEndpoint`, `findRegistryEndpointByImage`, `AddInferred`); a caller of
`SetEndpointCredentials` begins a flight or joins one; the flight reads the cache,
reads the source, stores; `NewRepository`, `Tags` and `Refused` are the client, the
list of tags and the reaction to a 401 or 403. `expireCredentials` and the snapshot of
the credentials after it are two lock sections in one step; whatever other workers do
between them could as well be done after both.

### ImageUpdate and its operators

Each configuration in `MCImageUpdate` is an application with a few images, what is
pushed, signed and edited while cycles run, and what may fail. A tag is a number in
name order with a semantic version or none; a manifest is its own digest; a YAML file
is a tree of mappings, lists and scalars; a signature is known by place, format, the
digest it names and the keys that made it.

| Variable | Code |
|---|---|
| `pushed`, `artifacts`, `cache` | pushes and signatures in the registry; the tag cache |
| `app`, `file`, `summary` | the Application, the override file, `status.summary.images` |
| `versions` | the Application and its reported images, from the version in the manager's cache to the last one written |
| `pc`, `pos`, `copy`, `live`, `latest`, `needUpdate` | an updater in the loop of `UpdateApplication` |
| `fresh`, `attempts` | `UpdateSpec`: whether it read the last version and nobody wrote since; `RetryOnConflict` |
| `right`, `target`, `seen`, `edited` | history: the refinement to `ImageTracking`, and edits |

The manager's client reads from a cache (`cmd/run.go:170-189`, `:214`), so `Start` copies
the version in the cache, which may be older than the last one, and `Watch` brings the
cache forward. `lag`, part of a configuration, bounds how many versions it is behind; a
write that changes nothing makes no version. `GetApplication` reads from the same cache,
and an update of an old version conflicts. `NotConsidered`, `GetTags`, `GetSomeTags` and `CallFails`
are what can happen to the next image (skipped, looked at, looked at with some metadata
missing, failed); `Verify` is a step of its own because a tag may move before it;
`GetApplication`, `UpdateSpec` and `Conflict` are one attempt of the retry; `CommitGit`
computes the file as `marshalParamsOverride`, `writeKustomization` or the patch of a
values file does; `Garbled` is a file that is no YAML. Argo CD (rendering, the reported images, resource versions) is
external. `Sync` may report what is deployed in any order and, for an image with a
digest, with or without its tag.

`ImageTracking` has, for each container, the image it should have, the one it is set to
and earlier ones that a new cycle may still find (`known`); the mapping takes the last
from the versions that the cache has yet to pass on (`Known`).

### AppFilter and WebhookPayload

`conf` is a resource, its applications, secrets and, for an event, the request. The
actions are the rounds of the two loops of `FilterApplicationsForUpdate`
(`TryRule`, `UseRule`, `ParseImage`, `AddApplication` or `NoRule`), the list call that may
fail, and secrets that change in between, because a verification key is read for each
image. A name pattern is known by what it matches, whether it is exact, and the number
of its literals. A host name is a sequence of labels
and a repository one of path segments; the handlers of `WebhookPayload` validate and
parse on these. A shared secret or signature is right or wrong. The digest of an event
is left out: nothing reads it.

A resource and its applications are what the API server lets them be
(`ConfigurationsAssumption`): names of applications are unique in their namespace, and
the images of a rule are a list keyed by alias (`listMapKey=alias`,
`imageupdater_types.go`). `sortApplicationRefs` chooses *the* ordering of the rules that
`slices.SortStableFunc` makes with the code's comparison; that there is one, for every list of
rules, is proved (`SortExists`).

## 3. What is checked

Runs that must pass. The bounds are constants of the modules: `MaxTag` releases per
image, `MaxFaults` failed calls and crashes, `MaxHuman` foreign pushes, `MaxGen`
spec versions per name, `MaxPushes`, `MaxEdits`, `MaxRotations`, `MaxBuild`.

| Run | Instance | Shows |
|---|---|---|
| `direct` | 2 resources write to the branch they track, one with git, one through the GitHub API; 1 release, 1 fault or crash, 1 foreign push | `CommitsKept`: no commit on an unforced branch is lost; `Converges`: refused pushes and lost answers are made up for |
| `write_branch` | 2 runs, one with 2 applications, push one write branch with force and through the API; 1 release, 1 fault or crash | `TypeOK`; `RepoExclusive`: the lock excludes on every path; `RunsTerminate`: no failure keeps a lock or blocks `wg.Wait`; `WriteBranchConverges`: commits may be dropped, the newest tags arrive |
| `pull_request` | 2 applications of one target beside a warm-up run; merges, 1 fault or crash | `OnePerTarget`; `PRConverges`: the newest tag ends up live or proposed; `DryRunWritesNothing`: the warm-up makes no commit |
| `pull_request_two_runs` | 2 resources push one request branch; merges, 1 fault or crash | `RequestHoldsItsChange`: a request proposes what its branch is named after |
| `controller_live` | 1 object, 3 versions, created, edited, held by another finalizer, deleted; 2 faults | `MetricsBacked`: series never outlive the finalizer; `ReconcilingExact`; `FinalizerReleased`; `SpecChecked`; `ReconcilingSettles` |
| `webhooks` | 1 object, 2 events beside Reconcile | `ObservedMonotone`; `WebhooksDrain`; `FinalizerReleased` although status writes of the webhook runs make the finalizer update conflict |
| `once` | run-once, 2 objects that are edited, 1 worker, 2 faults | `TypeOK`; `RunLimit` and `WarmUpFirst`: warm-up and Reconcile do not overlap; `KeepsRunOnce`: the refinement of `RunOnce`, which lists, processes all it listed and stops; `NoPanic`, `OnceStops` |
| `registry` | 2 workers at one registry by its own prefix, as the default, by inference and by a configured path; credentials that expire and that do not; a host whose name starts with that of a configured one; 1 password change, 1 fault | `TypeOK`: no goroutine of `GetTags` outlives it; `RightCredentials`; `SingleFetch`; `Recovers`: every cycle gets its tags in the end, except with the credential of an endpoint without `credsexpire`; `DigestCurrent`: the shared cache never feeds the digest strategy |
| `update` | 23 configurations: every strategy, write method and target, platforms, signatures, two updaters and a user, a cache up to two versions behind | `TypeOK`; `Tracks`: the refinement of `ImageTracking`; `VerifiedOnly`: what is set was verified, although tags move; `EditsKept`: an edit that the cache has when no cycle goes on is never lost; `ImagesConverge` |
| `filter` | competing rules, all pairs of ranks up to the weights of the scores, settings at all levels, annotations, secrets that change, write-back settings, requests of 7 kinds of registries | `TypeOK`; `NobodyForgotten`: the most specific matching rule is used if it can be, with all its images; `InnermostWins`; `VerificationKept`; `OneProvider`; `PushReaches`: handlers, parser and match agree |

`ImagesConverge` compares the loop with `RightImage`, a definition of the newest allowed
tag that shares only the elementary predicates with `TagSelection`: it sorts nothing,
caches nothing and takes the maximum. `NobodyForgotten` compares the scores of
`calculateSpecificity` with an order that has no weights: an exact name goes first, then
a selector, then the longer selector, then the longer pattern (`Outranks`).

Runs in which the code does something else than a comment or a document says
(`PROJECT.json`, findings, quotes each line). The property states the sentence; TLC
finds the behaviour that violates it.

| Run | Sentence and behaviour |
|---|---|
| `dedup_failed` | a target is marked before its request exists; when that fails, the next application is skipped as if it had been created |
| `reverts` | the override file includes all images, "regardless of those were updated or not"; an image the cycle could not look at is written with the application's old parameter, over the newer one in the file |

The models show more behaviours of this kind, all of them also in the code. They are
kept here, not as runs, and are why some properties are stated for restricted
instances.

Write-back and controller:

- Two applications of one repository and path whose base branches come from their
  target revisions share a target key (`types.go:124`), so one is skipped; the comment
  at `types.go:116` says the key "uniquely identifies the write-back target".
- A pull request service that cannot be built is a warning before the push and an
  error after it (`pr_service.go:137`, `:156`), which leaves a branch without a request;
  `pr_service.go:103` says such errors "are caught before an orphaned branch is pushed".
- A push branch that exists is used "directly" (`git.go:254`), but a fetch that fails for
  a transient reason counts as a missing branch (`git.go:259`): the branch is made anew
  and force-pushed.
- `.AppName` in a write-branch template is empty outside pull request mode
  (`git.go:248`); `docs/basics/update-methods.md:335` says it is the application's name.
- The branch name hashes the old tags too (`git.go:111`), so applications of one target
  that run different tags open two requests; `docs/examples/index.md:193` says they
  share one.
- `RecentUpdates` counts applications whose write-back failed (`update.go:358`);
  `imageupdater_types.go:410` calls them "updates performed".
- In run-once mode an object created after the list signals the wait group too
  (`imageupdater_controller.go:209`): the process stops before a listed object is done, or
  the group goes below zero, the panic that line 178 means to avoid. An object that is
  deleted after the list never signals (`:158`), and the process does not "exit after the
  first update cycle" (`docs/install/cmd/run.md:221`).
- A webhook run writes series for objects that have no finalizer, or whose finalizer
  has run (`server.go:494`), which nothing removes; see `cmd/run.go:210`.
- Webhook runs have semaphores of their own (`reconcile.go:157`), beside the limit of
  `docs/install/cmd/run.md:203`; hence `RunLimit` without webhooks.
- The first of two overlapping runs sets `Reconciling` to False (`status.go:149`), which
  `docs/configuration/applications.md:576` explains as "idle"; hence `ReconcilingExact`
  without webhooks.

Update cycle and registry:

- `UpdateSpec` writes the copy its cycle made, also after a conflict (`argocd.go:78`): an
  edit made during a cycle is overwritten. So is one made before it that the cache did
  not have yet when the cycle listed the applications (`argocd.go:255`). Hence
  `EditsKept` for edits that the cache has while no cycle goes on.
- Two containers of one repository and a strategy other than digest do not converge in
  general: the live image that `ContainsImage` finds may be the sibling's. The digest
  strategy picks the right one (`MatchForDigestUpdate`) unless Argo CD reports one of
  them with and the other without its tag.
- A list element that a values file does not have yet is appended under its literal key,
  in every cycle anew; `resolveHelmScalarNode` and `setHelmValue` prefer different ones
  of a literal and a nested key.
- Kustomize images with different names and one new name collapse when an override file
  is merged (`update.go:758`).
- One missing manifest makes the newest-build strategy choose among the others, so an
  older tag may be set until the next cycle (`registry.go:170`); `ImageTracking` allows
  this as `Misread`.
- The tag cache does not know platforms, and has no reason to refresh the date of a tag
  that is pushed again: newest-build goes on with the first build it saw.
- A registry that sorts its tags by time gives no digests, so the digest strategy finds
  none there.
- An endpoint is found by the text its prefix starts with (`endpoints.go:210`), not by
  whole labels: an image of `priv-eu` uses the endpoint of `priv` unless `priv-eu` is
  configured too.
- Signatures attached as referrers by another key keep those under fallback tags from
  being looked at.
- Some refusals become a bare error that `IsAuthError` does not know (`client.go:452`):
  the cached credential stays until it expires. `credsexpire` is optional
  (`config.go:24`) and none by default; without it no refusal clears a credential and no
  time does (`registry.go:64`, `:215`), so a replaced password is not read before a
  restart, as `docs/configuration/registries.md:337` says. Hence the exception in
  `Recovers`.

Filter and webhooks:

- `docs/configuration/applications.md:133` says that matching stops at the first match;
  a matching rule whose annotations or write-back settings are invalid is passed over for
  the next one (`argocd.go:302`, `:309`, `:317`, `:336`), although the log says "skipping".
  `NobodyForgotten` takes no side: it says nothing about which rule is used then.
- From 100 literals or 100 labels and expressions on the weights of
  `calculateSpecificity` run into each other: a pattern with 100 literals is worth a
  label. `NobodyForgotten` names the rule for resources below that (`Ordinary`).
- An image written `docker.io/library/nginx` becomes `nginx`, which an event for
  `library/nginx` does not match; such references are left out of the instance.
- An image without a registry, or with `index.docker.io`, matches the event of any
  registry with that repository name; `argocd_test.go:2314` wants the former.
- With `useAnnotations` the verification settings of the resource are ignored.
  `argocd_test.go:4878` demands that, and `VerificationKept` says it; the comment at
  `imageupdater_types.go:46` reads as if they applied to every application.

**Bounds.** Two runs, two applications and one repository suffice for every
conflict the code knows: conflicts are between two pushes to one branch, two workers
at one lock, or two applications with one key. One fault places a failure, a lost
answer or a crash at every step of every interleaving; two allow a failure during
recovery. The controller's objects interact only through the worker limit, the wait
group and the queue, hence two objects, and one object where the property is about the
races on a single object. In `Registry` all races are between two goroutines at an
endpoint; a repository with two tags and room for one metadata goroutine fills the
semaphore; one password change makes a credential stale once, at every step. In
`ImageUpdate` the images of a configuration meet in the copy, the live list and the
file, pairwise; two pushes let a tag move, or two images change, within one cycle; a
cache that is a version behind shows a cycle the state before any one write, by a user,
another updater or Argo CD, and two versions let a cycle write in between. It is behind in
the configurations that differ in what an old copy can undo; the others were checked so
too, once. In
`AppFilter` the rules meet pairwise in the order and the settings at three levels; one
change of a secret falls before, between or after the reads of two images. `Registry`
leaves out pushes to tags whose metadata nobody fetches.

**Deadlock.** It is checked in all runs but the controller's, which say
`CHECK_DEADLOCK FALSE` because the system may rest: every object deleted, or a process
that has stopped. A filter pass that is over stutters in the model (`Ended`).

**Fairness.** In `WriteBack`: goroutines are scheduled (weak fairness of a worker's
step), an object is processed again after every run (the controller's `RequeueAfter`),
and Argo CD keeps syncing. In `Controller`: goroutines run, delays end and Kubernetes
restarts an exited container (weak); the work queue is first in, first out, so a
name that waits gets a worker although others are queued again and again (strong
fairness of `Get` and `WaitForWarmUp`). In `Registry`: goroutines run, time passes, and
whoever changes a password updates the secret (weak). In `ImageUpdate`: cycles begin and
end again and again, and so do Argo CD's reports, and the cache catches up (the watch
delivers what was written); this is stated as such (`[]<>`), which is
cheaper to check than weak fairness of every step and no stronger: every step of a cycle
leads on to its end, pushes, edits and faults are bounded, and a step that cannot go on
would be found as a deadlock. Users, merges, releases, pushes, webhooks and faults are
never fair: nothing makes them happen.

## 4. What is proved

All theorems hold for every value of the constants that meets the named assumptions
(`ConfigAssumption`, `BoundsAssumption`, `FiniteAssumption`, `NoneAssumption`;
`ControllerAssumption`; `RegistryAssumption`; `ImageUpdateAssumption`;
`ConfigurationsAssumption` and the `NoneAssumption` of `AppFilter`): any number of
runs, applications, objects, events, workers, rules, endpoints, images, faults.

| Theorem | Statement | Argument |
|---|---|---|
| `TypeCorrect` | `Spec => []TypeOK` of `WriteBack` | inductive as it stands; one lemma per group of actions |
| `Exclusion` | `Spec => []RepoExclusive` | not inductive: `LockHeld` says that a worker in the locked section *is* the holder in its run's map, so two would be equal |
| `OneWorkerPerTarget` | `Spec => []OnePerTarget` | needs `KeyMarked`: whoever is past `MarkPRCreated` has its key in the run's set; a worker that enters finds it absent |
| `CommitsStay` | `Spec => CommitsKept` | step by step: a plain push extends what it was compared with, an API commit extends the expected head, a merge appends to the base |
| `DryRunsWriteNothing` | `Spec => []DryRunWritesNothing` | `DryInv`: clones too have no commit of a dry run, and a worker of one never gets to the lock |
| `RequestsHoldTheirChange` | if `ApiTargetsAgree`, `Spec => []RequestHoldsItsChange` | `HeadInv`, `RequestInv`, `CloneInv`, below |
| `ControllerTypes` | `Spec => []TypeOK` of `Controller` | inductive as it stands |
| `WarmUpBeforeReconcile` | `Spec => []WarmUpFirst` | `WarmUpInv`: the channel is closed only after the warm-up ended, the warm-up has tasks only while it processes, and Reconcile has tasks only behind the gate |
| `ObservedGrows` | `Spec => ObservedMonotone` | `ObservedInv`: the observed generation is at most the object's, so writing the object's never lowers it |
| `SeriesBacked` | without webhooks, `Spec => []MetricsBacked` | `SeriesInv`: from the start of a run to its end the object keeps the finalizer, because only Reconcile removes it and works on one copy at a time; a copy that says otherwise is stale |
| `RunOnceKept` | in run-once mode without new objects, `Spec => KeepsRunOnce` | the refinement, step by step, from `OnceInv`, below |
| `OnceIsSafe` | likewise, `Spec => [](NoPanic /\ OnceComplete)` | from `OnceInv` |
| `RunsAreLimited` | without webhooks, `Spec => []RunLimit` | `SlotInv`: warm-up and Reconcile each keep to the limit; with `WarmUpFirst` they never add up |
| `ReconcilingIsExact` | without webhooks, `Spec => []ReconcilingExact` | `CleanInv`: while nothing failed no restart cuts a run short; with `SeriesInv` and `ObjectInv` both status writes find the object |
| `RegistryTypes` | `Spec => []TypeOK` of `Registry` | from `IInv`, below |
| `CredentialsAreRight` | `Spec => []RightCredentials` | from `IInv`, below |
| `OneFlight` | `Spec => []SingleFetch` | from `IInv`: a flight begins only if none with its key is under way, and keys do not change during one |
| `EditsAreKept` | `Spec => EditsKept` | `EditsInv(k)`: edit k is in the application, *in every version the cache has yet to pass on and in the copy of every updater in a cycle*, so that whichever copy is made and written keeps it |
| `FilterIsTyped` | `Spec => []TypeOK` of `AppFilter` | from `PassInv`, below |
| `NobodyIsForgotten` | `Spec => []NobodyForgotten` | from `PassInv`: the rule used is the first by score that can be used; `HigherRankHigherScore`: below 100 literals and requirements the scores keep to the ranks, so it is the most specific one |
| `InnermostSettingsWin` | `Spec => []InnermostWins` | from `PassInv`: an image has the merge of its levels' settings, and the two merges are one choice of the innermost |
| `VerificationIsKept` | `Spec => []VerificationKept` | likewise for verification; a key is read from what the secret holds at that moment |
| `ProviderIsOne` | `Spec => []OneProvider` | from `PassInv` and what `newWBCFromSettings` accepts: no settings with two providers or with a write branch beside a request |
| `VerificationIsSound` | an image that verifies has a signature by the key that is bound to its digest | a candidate comes out of an artifact, through referrers or a fallback tag, only if the artifact names the digest |

Some hold under a hypothesis that the behaviours of section 3 show to be needed.
`SeriesBacked`, `RunsAreLimited` and `ReconcilingIsExact` assume `Events = {}` (webhook
runs write series without a finalizer, have semaphores of their own, and set the
condition to False first). `RunOnceKept` and `OnceIsSafe` assume `Once` and
`"create" \notin UserOps` (an object created after the list is signalled and not
counted). `RequestsHoldTheirChange` assumes `ApiTargetsAgree`: applications that open
requests for one target, one of them through the GitHub API, have one base branch, and
nobody forces it. Without that, TLC finds a behaviour in which `CreateRef` makes a head
anew that was merged into one base and deleted, without its commit, while a request from
it to another base is open. With the git command line alone the hypothesis is empty.

The proof of `TypeCorrect` rests on a few lemmas that the steps share: what returning
and continuing do to a worker (`ReturnType`, `ContinueTypeOK`), and the place a worker
may go to given its change and its mode (`GotoPlace`). `StepShape` reduces every step
of a worker to leaving, entering or moving inside the locked section; `Exclusion` and
`OneWorkerPerTarget` are proved from these three.

`RightCredentials` is not inductive: a client without a credential takes the endpoint's,
which is right only if its image has no source of its own. The invariant `IInv` of
`RegistryProofs` adds what holds at each position of a worker (`Sound`): only the
endpoint's own credentials are on their way to the endpoint (`store`), a worker reaches
`client` without a credential only if its image asks for none, and a worker past the
lookup has an endpoint. The delicate step is the end of a flight, which hands one
credential to all who joined: their keys are equal, hence their sources are.

`RequestHoldsItsChange` is not inductive, because through the API a head exists before
its commit does. `HeadInv` says that a head holds the change it is named after, or has
nothing its base lacks and no request; `RequestInv` says where a request comes from and
that its head outlives it where the API is used; `CloneInv` says that a clone made from
the base has nothing the base lacks. So the head that `CreateRef` makes is of the second
kind, and a request is opened only after the commit made it one of the first.
`BranchMoves` and `PlaceMoves` list the ways in which a branch gets its history and a
worker its clone; each invariant is proved over these few cases rather than over all
actions.

`OnceInv` relates the counter of `Wg` to sets: it is the number of listed objects that
Reconcile has not ended for. That needs two more facts. Reconcile runs only for an object
that it stored in `onceCompleted` and has not ended for, so nothing is signalled twice;
and it works only on listed objects, because all objects that exist are listed and an
`Update` never brings one back (`ObjectInv`: a copy that is not stale is of an object
that exists). `RunOnce` has the objects, those listed, those processed and the
state of the process; the mapping takes them from `obj`, `counted`, `ended`, and from
`proc`, `watching` and the phase of the warm-up.

`PassInv` of `AppFilterProofs` says where in the two loops a pass is (`Place`: some number
of applications and rules are behind it, and no rule so far could be used) and, while the
images of a rule are parsed, that those found cover the part of the list behind it
(`Parsing`). Every application behind it is `Settled`: its entry has the first rule that
can be used, every image found was made by the merges from its levels with a key the
secret held, and no image is missing that had to be found. Secrets change in between.
What makes this inductive is that `held`, the keys that a secret has had, only grows: a
key once good stays good, and what has to be found becomes less (`LaterFound`,
`LaterSettled`). That the order of the rules exists at all is shown by their ranks: the
number of rules before a rule is a bijection onto the positions (`SortExists`).

Only model-checked: all liveness (`RunsTerminate`, `Converges`, `PRConverges`,
`WriteBranchConverges`, `FinalizerReleased`, `SpecChecked`, `ReconcilingSettles`,
`WebhooksDrain`, `OnceStops`, `Recovers`, `DigestCurrent`, `ImagesConverge`), which
is outside the prover's reach; what the recursive functions of `OverrideFile` and the
sorting in `TagSelection` compute, which takes induction over data, and with them
`Tracks`, `VerifiedOnly` and the types of `ImageUpdate`; and `PushReaches`, which is
about what each registry's requests contain, that is, about the instance.

## 5. Abstractions

- One image per application in `WriteBack`; the loop over images is in `ImageUpdate`,
  where in turn the commit is one step.
- In `WriteBack` files are abstracted to the tag of a slot: `write` skips exactly when the
  file would not change. How files are edited is in `OverrideFile`; comments and layout
  of YAML are left out.
- A failed run (`FilterApplications` with an error) is one fault; its two error
  returns, the client and the application filter, are not told apart.
- The status has the fields the properties need: observed generation, `Reconciling`,
  the outcome behind `Ready` and `Error`, recent updates.
- A regular expression or glob is the set of tags it allows, a semver range the set of
  tags within it; whether it is valid is kept.
- The four kinds of credential sources differ in parsing only and are one.
- Wall-clock time does not occur; a delay is a `timer` that ends some time, and the age
  of a credential is zero, fresh or expired.
- Leader election, log output and Kubernetes events are left out; none of them changes
  the modelled state.

## 6. Not modelled

- `ext/git`: running the git binary with its timeouts, the retries of `ls-remote`, the
  temporary files and environment of credentials, the GitHub App token cache. They are
  processes and files; their effect on the remote, failures included, is in
  `GitRemote` and `WriteBack`.
- The HTTP exchange with registries below a request and its answer: pagination, the
  rate limiter, TLS. Likewise the HTTP server of the webhooks, its TLS setup, its rate
  limiter and its shutdown.
- The bytes of manifests, signatures and payloads, and cryptography.
- Parsing of credential sources (secrets, files, scripts, environment) and of flags; the
  helper commands `test`, `template`, `ask-pass`, `version`.
- The values of metrics; Kubernetes client wrappers; generated code.

## 7. Running it

    tlc -config WriteBackDirect.cfg MCWriteBack
    tlc -config ImageUpdate.cfg MCImageUpdate
    tlapm RegistryProofs.tla
    tlapm WriteBackProofs.tla
    tlapm AppFilterProofs.tla

`PROJECT.json` names the module and the configuration of every run, the source lines
of every definition, and for every property of a passing run a mutant that breaks it.
