----------------------------- MODULE WriteBack -----------------------------
(***************************************************************************)
(* One update run of an ImageUpdater resource (RunImageUpdater), its       *)
(* workers, one per matched application (UpdateApplication), and the git   *)
(* write-back each of them performs: repository lock, pull request         *)
(* deduplication, clone, commit, push, pull request.  Several runs go on   *)
(* at once (two resources, or a reconcile and a webhook run of the same    *)
(* resource), each with a SyncIterationState of its own; the Git server,   *)
(* the registry and Argo CD are shared.                                    *)
(*                                                                         *)
(* Every application has one image.  Tags are numbers in release order.    *)
(***************************************************************************)
EXTENDS GitRemote

CONSTANTS
  Runs,            \* the threads that execute RunImageUpdater
  Apps,            \* Argo CD applications
  AppsOf,          \* AppsOf[r]: the applications run r matches
  Config,          \* Config[a]: the write-back configuration of a, see ConfigType
  Repos, Names, Images, Targets,
  None,            \* the absent value: no application, key, change or holder
  MaxConcurrentApps,
  DryRun,          \* --dry-run
  WarmUps,         \* the runs that the cache warm-up starts
  MaxTag,          \* bound: releases per image
  MaxFaults,       \* bound: failing calls and crashes
  MaxHuman         \* bound: commits pushed to a base branch by someone else

VARIABLES
  phase,           \* phase[r]: "idle" or "running"
  seen,            \* seen[r][a]: the live tag in the application list of run r
  pc, chg,         \* a worker's position and its change (changeList)
  clone, created,  \* a worker's checked-out history, and pushBranchCreated
  outcome,         \* how a worker ended, as UpdateApplication reports it
  lock,            \* lock[r][repo]: SyncIterationState.repositoryLocks
  prCreated,       \* prCreated[r]: SyncIterationState.prCreated
  recent,          \* recent[r]: Status.RecentUpdates
  newest,          \* newest[i]: the newest tag of image i in the registry
  live,            \* live[a]: the tag application a runs
  faults, human

runVars == <<phase, seen, recent>>
workerVars == <<pc, chg, clone, created, outcome>>
syncState == <<lock, prCreated>>
envVars == <<newest, live, human>>
vars == <<remote, prs, runVars, workerVars, syncState, envVars, faults>>

-----------------------------------------------------------------------------
(* Configuration: WriteBackConfig and the branches derived from it. *)

\* A branch template: the literal part of its name and the variables it uses.
Template == [name : Names, uses : SUBSET {"AppName", "TargetKey", "SHA256"}]

ConfigType ==
  [repo : Repos, gitBranch : Names \cup {""}, targetRevision : Names \cup {"", "HEAD"},
   gitWriteBranch : Template \cup {None}, target : Targets, image : Images,
   pr : BOOLEAN, api : BOOLEAN, scmOK : BOOLEAN]

Tags == 0 .. MaxTag
Changes == [image : Images, old : Tags, new : Tags]
Keys == [repo : Repos, gitBranch : Names \cup {""}, target : Targets]
Branches == [repo : Repos, name : Names, app : Apps \cup {None},
             key : Keys \cup {None}, chg : Changes \cup {None}]
Workers == UNION {{r} \X AppsOf[r] : r \in Runs}
Slots == Targets \X Images
Commits == [by : Workers \cup {None}, slot : Slots \cup {None}, tag : Tags]

ASSUME ConfigAssumption ==
  /\ AppsOf \in [Runs -> SUBSET Apps]
  /\ Config \in [Apps -> ConfigType]
  /\ {"main", "image-updater"} \subseteq Names

ASSUME BoundsAssumption ==
  /\ MaxTag \in Nat /\ MaxFaults \in Nat /\ MaxHuman \in Nat
  /\ MaxConcurrentApps \in Nat \ {0}
  /\ DryRun \in BOOLEAN /\ WarmUps \subseteq Runs

ASSUME FiniteAssumption == IsFiniteSet(Apps)

ASSUME NoneAssumption ==
  /\ None \notin Workers /\ None \notin Keys /\ None \notin Changes
  /\ None \notin Apps /\ None \notin Template /\ None \notin Slots

\* WriteBackTargetKey: the branch in it is the configured one only.
WriteBackTargetKey(a) ==
  [repo |-> Config[a].repo, gitBranch |-> Config[a].gitBranch, target |-> Config[a].target]

\* The base branch before a symbolic name is resolved: GitBranch, or the
\* application's target revision (getWriteBackBranch).
configuredBranch(a) ==
  IF Config[a].gitBranch # "" THEN Config[a].gitBranch ELSE Config[a].targetRevision

Unresolved(a) == configuredBranch(a) \in {"", "HEAD"}

\* The branch checked out; "" and HEAD become the remote's default branch.
checkOutBranch(a) ==
  [repo |-> Config[a].repo,
   name |-> IF Unresolved(a) THEN "main" ELSE configuredBranch(a),
   app |-> None, key |-> None, chg |-> None]

\* A variable the template uses takes its argument, the others leave no trace.
TemplateBranchName(repo, tpl, appName, targetKey, c) ==
  [repo |-> repo, name |-> tpl.name,
   app |-> IF "AppName" \in tpl.uses THEN appName ELSE None,
   key |-> IF "TargetKey" \in tpl.uses THEN targetKey ELSE None,
   chg |-> IF "SHA256" \in tpl.uses THEN c ELSE None]

PRBranchTemplate == [name |-> "image-updater", uses |-> {"TargetKey", "SHA256"}]

\* The branch pushed to, for application a with change c.
pushBranch(a, c) ==
  IF Config[a].pr
  THEN TemplateBranchName(Config[a].repo, PRBranchTemplate, a, WriteBackTargetKey(a), c)
  ELSE IF Config[a].gitWriteBranch # None
       THEN TemplateBranchName(Config[a].repo, Config[a].gitWriteBranch, None, None, c)
       ELSE checkOutBranch(a)

Slot(a) == <<Config[a].target, Config[a].image>>
BaseBranches == {checkOutBranch(a) : a \in Apps}

-----------------------------------------------------------------------------
(* Worker vocabulary. *)

RunOf(w) == w[1]
AppOf(w) == w[2]
Push(w) == pushBranch(AppOf(w), chg[w])
Base(w) == checkOutBranch(AppOf(w))
Repo(w) == Config[AppOf(w)].repo
WorkersOf(r) == {w \in Workers : RunOf(w) = r}

\* Between lock.Lock() and the deferred lock.Unlock() of commitChangesLocked.
Critical == {"exists", "fetch", "fetchBase", "write", "push", "ref", "commit", "create"}
PCs == Critical \cup {"todo", "lock", "done"}
\* Outcomes that count as an updated image, and all outcomes.
Counted == {"updated", "deduped", "dryrun"}
Outcomes == Counted \cup {"none", "current", "failed"}

InCritical(w) == pc[w] \in Critical

\* The pull request worker w opens, from its push branch to its base branch.
PullRequest(w) == [head |-> Push(w), base |-> Base(w)]

Goto(w, l) == pc' = [pc EXCEPT ![w] = l]

\* Mutant: GetRepositoryLock makes a new mutex for every caller.
LockNeverHeld(w) == lock[RunOf(w)][Repo(w)] \in Workers \cup {None}

\* GetRepositoryLock(repo).Lock() can return.
LockFree(w) == lock[RunOf(w)][Repo(w)] = None

\* Mutant: a worker that fails returns before its Unlock.
KeptOnFailure(w, o) ==
  [x \in Repos |-> IF lock[RunOf(w)][x] = w /\ o # "failed" THEN None ELSE lock[RunOf(w)][x]]

\* The locks of a run after worker w, which ended with outcome o, ran its
\* deferred Unlock.
Unlocked(w, o) == [x \in Repos |-> IF lock[RunOf(w)][x] = w THEN None ELSE lock[RunOf(w)][x]]

\* UpdateApplication returns with outcome o; the clone is removed.
Return(w, o) ==
  /\ Goto(w, "done")
  /\ outcome' = [outcome EXCEPT ![w] = o]
  /\ clone' = [clone EXCEPT ![w] = <<>>]
  /\ created' = [created EXCEPT ![w] = FALSE]
  /\ lock' = [lock EXCEPT ![RunOf(w)] = Unlocked(w, o)]

\* The worker goes on at l with its clone and its locks.
Continue(w, l) == Goto(w, l) /\ UNCHANGED <<outcome, lock, clone, created>>

\* Mutant: MarkPRCreated does not record the key.
Unmarked(w) == prCreated[RunOf(w)]

\* MarkPRCreated: the keys of the run once worker w marked its own.
Marked(w) ==
  IF Config[AppOf(w)].pr THEN prCreated[RunOf(w)] \cup {WriteBackTargetKey(AppOf(w))}
                         ELSE prCreated[RunOf(w)]

\* MarkPRCreated returns false: another worker of the run marked the key.
AlreadyMarked(w) == Config[AppOf(w)].pr /\ WriteBackTargetKey(AppOf(w)) \in prCreated[RunOf(w)]

-----------------------------------------------------------------------------
(* The run. *)

Init ==
  /\ remote = [b \in BaseBranches |-> <<>>]
  /\ prs = {}
  /\ phase = [r \in Runs |-> "idle"]
  /\ seen = [r \in Runs |-> [a \in Apps |-> 0]]
  /\ recent = [r \in Runs |-> {}]
  /\ pc = [w \in Workers |-> "done"]
  /\ chg = [w \in Workers |-> None]
  /\ clone = [w \in Workers |-> <<>>]
  /\ created = [w \in Workers |-> FALSE]
  /\ outcome = [w \in Workers |-> "none"]
  /\ lock = [r \in Runs |-> [x \in Repos |-> None]]
  /\ prCreated = [r \in Runs |-> {}]
  /\ newest = [i \in Images |-> 0]
  /\ live = [a \in Apps |-> 0]
  /\ faults = 0
  /\ human = 0

\* RunImageUpdater lists the applications, makes a new SyncIterationState and
\* adds every application to the wait group.
RunImageUpdater(r) ==
  /\ phase[r] = "idle"
  /\ phase' = [phase EXCEPT ![r] = "running"]
  /\ seen' = [seen EXCEPT ![r] = live]
  /\ pc' = [w \in Workers |-> IF RunOf(w) = r THEN "todo" ELSE pc[w]]
  /\ UNCHANGED <<remote, prs, recent, chg, clone, created, outcome, syncState, envVars, faults>>

\* Workers that hold a unit of the run's semaphore.
Active(r) == {w \in WorkersOf(r) : pc[w] \notin {"todo", "done"}}

\* A warm-up run is a dry run that takes one application at a time.
Dry(r) == DryRun \/ r \in WarmUps
Concurrency(r) == IF r \in WarmUps THEN 1 ELSE MaxConcurrentApps

\* Mutant: the dry-run test is missing.
LockAlways(w) == Continue(w, "lock")

\* UpdateApplication with a change in hand: a dry run counts it and commits nothing.
Commit(w) == IF Dry(RunOf(w)) THEN Return(w, "dryrun") ELSE Continue(w, "lock")

\* The semaphore is acquired and UpdateApplication compares the live tag with
\* the newest one.  An image that is up to date ends the worker.
UpdateApplication(w) ==
  LET a == AppOf(w)
      i == Config[a].image
      old == seen[RunOf(w)][a]
  IN
  /\ pc[w] = "todo"
  /\ Cardinality(Active(RunOf(w))) < Concurrency(RunOf(w))
  /\ IF old = newest[i]
     THEN Return(w, "current") /\ UNCHANGED chg
     ELSE /\ chg' = [chg EXCEPT ![w] = [image |-> i, old |-> old, new |-> newest[i]]]
          /\ Commit(w)
  /\ UNCHANGED <<remote, prs, runVars, prCreated, envVars, faults>>

\* The registry, its credentials or the tag list failed: an error is counted
\* and there is no change.
UpdateApplicationFails(w) ==
  /\ pc[w] = "todo"
  /\ Cardinality(Active(RunOf(w))) < Concurrency(RunOf(w))
  /\ faults < MaxFaults
  /\ faults' = faults + 1
  /\ Return(w, "failed")
  /\ UNCHANGED <<remote, prs, runVars, chg, prCreated, envVars>>

\* commitChangesLocked: lock the repository, then with a pull request provider
\* MarkPRCreated; a key marked before means return nil, that is, success.
commitChangesLocked(w) ==
  /\ pc[w] = "lock"
  /\ LockFree(w)
  /\ IF AlreadyMarked(w)
     THEN Return(w, "deduped") /\ UNCHANGED prCreated
     ELSE /\ lock' = [lock EXCEPT ![RunOf(w)][Repo(w)] = w]
          /\ prCreated' = [prCreated EXCEPT ![RunOf(w)] = Marked(w)]
          /\ Goto(w, IF Config[AppOf(w)].pr THEN "exists" ELSE "fetch")
          /\ UNCHANGED <<outcome, clone, created>>
  /\ UNCHANGED <<remote, prs, runVars, chg, envVars, faults>>

\* commitChangesPR looks for an open pull request when the base branch needs no
\* resolving.  One that is found ends the worker; any error is only a warning.
skipIfPRExists(w) ==
  /\ pc[w] = "exists"
  /\ \/ /\ ~Unresolved(AppOf(w)) /\ Config[AppOf(w)].scmOK
        /\ PullRequest(w) \in prs
        /\ Return(w, "updated")
        /\ UNCHANGED faults
     \/ /\ Unresolved(AppOf(w)) \/ ~Config[AppOf(w)].scmOK \/ PullRequest(w) \notin prs
        /\ Continue(w, "fetch")
        /\ UNCHANGED faults
     \/ /\ faults < MaxFaults
        /\ faults' = faults + 1
        /\ Continue(w, "fetch")
  /\ UNCHANGED <<remote, prs, runVars, chg, prCreated, envVars>>

\* Mutant: the push branch is made anew from the base branch every time.
FetchBaseOnly(w) ==
  /\ pc[w] = "fetch"
  /\ Goto(w, "fetchBase")
  /\ UNCHANGED <<remote, prs, runVars, chg, clone, created, outcome, syncState, envVars, faults>>

\* Mutant: the fetch is left out.
FetchNothing(w) ==
  /\ pc[w] = "fetch"
  /\ Goto(w, "write")
  /\ UNCHANGED <<remote, prs, runVars, chg, clone, created, outcome, syncState, envVars, faults>>

\* commitChangesGit fetches the push branch.  When it differs from the base
\* branch any error, be it a missing branch or a lost connection, means that it
\* is to be created from the base branch.
ShallowFetch(w) ==
  /\ pc[w] = "fetch"
  /\ \/ /\ Exists(Push(w))
        /\ clone' = [clone EXCEPT ![w] = remote[Push(w)]]
        /\ Goto(w, "write")
        /\ UNCHANGED faults
     \/ /\ Push(w) # Base(w)
        /\ IF Exists(Push(w)) THEN faults < MaxFaults /\ faults' = faults + 1
                              ELSE UNCHANGED faults
        /\ Goto(w, "fetchBase")
        /\ UNCHANGED clone
  /\ UNCHANGED <<remote, prs, runVars, chg, created, outcome, syncState, envVars>>

\* The base branch is fetched and the push branch made from it, locally.
Branch(w) ==
  /\ pc[w] = "fetchBase"
  /\ clone' = [clone EXCEPT ![w] = remote[Base(w)]]
  /\ created' = [created EXCEPT ![w] = TRUE]
  /\ Goto(w, "write")
  /\ UNCHANGED <<remote, prs, runVars, chg, outcome, syncState, envVars, faults>>

\* Mutant: a skipped file ends the worker in pull request mode too.
SkipEnds(w) == Return(w, "updated")

\* What follows when there is nothing to commit: the worker is done, in pull
\* request mode it goes on to open the request.
Skipped(w) == IF Config[AppOf(w)].pr THEN Continue(w, "create") ELSE Return(w, "updated")

\* writeOverrides or writeKustomization; a file that would not change is skipped.
write(w) ==
  LET cfg == Config[AppOf(w)]
      skip == TagAt(clone[w], Slot(AppOf(w))) = chg[w].new
  IN
  /\ pc[w] = "write"
  /\ \/ skip /\ Skipped(w)
     \/ ~skip /\ ~cfg.api /\ Continue(w, "push")
     \/ ~skip /\ cfg.api /\ Continue(w, IF created[w] THEN "ref" ELSE "commit")
  /\ UNCHANGED <<remote, prs, runVars, chg, prCreated, envVars, faults>>

\* Mutant: the file is written with the tag it had.
OldTagCommit(w) == [by |-> w, slot |-> Slot(AppOf(w)), tag |-> chg[w].old]

\* The commit worker w makes on top of its clone.
NewCommit(w) == [by |-> w, slot |-> Slot(AppOf(w)), tag |-> chg[w].new]

\* What follows a commit that arrived on the server.
Committed(w) ==
  IF Config[AppOf(w)].pr THEN Continue(w, "create") ELSE Return(w, "updated")

\* The push is forced exactly when the push branch is not the base branch.
ForcePush(w) == Push(w) # Base(w)

\* git commit and git push.  The push is refused, taken, or taken and its answer lost.
CommitAndPush(w) ==
  /\ pc[w] = "push"
  /\ \/ /\ ~Accepts(Push(w), clone[w], ForcePush(w))
        /\ Return(w, "failed")
        /\ UNCHANGED <<remote, faults>>
     \/ /\ Accepts(Push(w), clone[w], ForcePush(w))
        /\ remote' = PointTo(Push(w), Append(clone[w], NewCommit(w)))
        /\ \/ Committed(w) /\ UNCHANGED faults
           \/ faults < MaxFaults /\ faults' = faults + 1 /\ Return(w, "failed")
  /\ UNCHANGED <<prs, runVars, chg, prCreated, envVars>>

\* commitChangesGithubAPI creates the missing branch at the base's head; that it
\* exists already is tolerated.
CreateRef(w) ==
  /\ pc[w] = "ref"
  /\ remote' = IF Exists(Push(w)) THEN remote ELSE PointTo(Push(w), clone[w])
  /\ Continue(w, "commit")
  /\ UNCHANGED <<prs, runVars, chg, prCreated, envVars, faults>>

\* Mutant: the request has no expectedHeadOid.
AnyHead(w) == Exists(Push(w))

\* expectedHeadOid, the checked-out head, is the head of the branch.
ExpectedHead(w) == HeadIs(Push(w), clone[w])

\* createCommitOnBranch: the server compares the head and commits, or refuses.
createCommitOnBranch(w) ==
  /\ pc[w] = "commit"
  /\ \/ /\ ~ExpectedHead(w)
        /\ Return(w, "failed")
        /\ UNCHANGED <<remote, faults>>
     \/ /\ ExpectedHead(w)
        /\ remote' = PointTo(Push(w), Append(clone[w], NewCommit(w)))
        /\ \/ Committed(w) /\ UNCHANGED faults
           \/ faults < MaxFaults /\ faults' = faults + 1 /\ Return(w, "failed")
  /\ UNCHANGED <<prs, runVars, chg, prCreated, envVars>>

\* The SCM opens a request only for a head that exists and is ahead of its base.
Openable(w) == Exists(Push(w)) /\ Missing(Push(w), Base(w)) # {}

\* PullRequestService.create.  ErrPRAlreadyExists counts as success; a service
\* that cannot be built, or a refused request, is an error.
create(w) ==
  /\ pc[w] = "create"
  /\ \/ /\ Config[AppOf(w)].scmOK /\ PullRequest(w) \in prs
        /\ Return(w, "updated")
        /\ UNCHANGED <<prs, faults>>
     \/ /\ Config[AppOf(w)].scmOK /\ PullRequest(w) \notin prs /\ Openable(w)
        /\ prs' = prs \cup {PullRequest(w)}
        /\ \/ Return(w, "updated") /\ UNCHANGED faults
           \/ faults < MaxFaults /\ faults' = faults + 1 /\ Return(w, "failed")
     \/ /\ ~Config[AppOf(w)].scmOK \/ (PullRequest(w) \notin prs /\ ~Openable(w))
        /\ Return(w, "failed")
        /\ UNCHANGED <<prs, faults>>
  /\ UNCHANGED <<remote, runVars, chg, prCreated, envVars>>

\* A call of the critical section returns an error before it had an effect.
CommitFails(w) ==
  /\ InCritical(w)
  /\ faults < MaxFaults
  /\ faults' = faults + 1
  /\ Return(w, "failed")
  /\ UNCHANGED <<remote, prs, runVars, chg, prCreated, envVars>>

\* buildRecentUpdates: the change lists of all workers, grouped by image and
\* new version, with the number of applications.
buildRecentUpdates(r) ==
  LET changed == {w \in WorkersOf(r) : chg[w] # None} IN
  {[image |-> chg[w].image, newVersion |-> chg[w].new,
    applicationsUpdated |->
      Cardinality({v \in changed : chg[v].image = chg[w].image /\ chg[v].new = chg[w].new})] :
     w \in changed}

\* Mutant: the run does not wait for its workers.
NoWait(r) == phase[r] = "running"

\* wg.Wait() returns.
Waited(r) == \A w \in WorkersOf(r) : pc[w] = "done"

\* wg.Wait() returns, and the caller writes the status: the recent updates are
\* replaced when the run counted an updated image; a warm-up writes no status.
\* The run's own state goes.
updateStatusAfterReconcile(r) ==
  /\ phase[r] = "running"
  /\ Waited(r)
  /\ phase' = [phase EXCEPT ![r] = "idle"]
  /\ recent' = [recent EXCEPT ![r] =
                  IF r \notin WarmUps /\ \E w \in WorkersOf(r) : outcome[w] \in Counted
                  THEN buildRecentUpdates(r) ELSE @]
  /\ seen' = [seen EXCEPT ![r] = [a \in Apps |-> 0]]
  /\ chg' = [w \in Workers |-> IF RunOf(w) = r THEN None ELSE chg[w]]
  /\ outcome' = [w \in Workers |-> IF RunOf(w) = r THEN "none" ELSE outcome[w]]
  /\ lock' = [lock EXCEPT ![r] = [x \in Repos |-> None]]
  /\ prCreated' = [prCreated EXCEPT ![r] = {}]
  /\ UNCHANGED <<remote, prs, pc, clone, created, envVars, faults>>

\* The process dies: nothing of a run survives, the server does.
Crash ==
  /\ faults < MaxFaults
  /\ faults' = faults + 1
  /\ phase' = [r \in Runs |-> "idle"]
  /\ seen' = [r \in Runs |-> [a \in Apps |-> 0]]
  /\ pc' = [w \in Workers |-> "done"]
  /\ chg' = [w \in Workers |-> None]
  /\ clone' = [w \in Workers |-> <<>>]
  /\ created' = [w \in Workers |-> FALSE]
  /\ outcome' = [w \in Workers |-> "none"]
  /\ lock' = [r \in Runs |-> [x \in Repos |-> None]]
  /\ prCreated' = [r \in Runs |-> {}]
  /\ UNCHANGED <<remote, prs, recent, envVars>>

-----------------------------------------------------------------------------
(* The environment: registry, Argo CD, people. *)

Release(i) ==
  /\ newest[i] < MaxTag
  /\ newest' = [newest EXCEPT ![i] = @ + 1]
  /\ UNCHANGED <<remote, prs, runVars, workerVars, syncState, live, human, faults>>

\* Argo CD deploys what the base branch of application a says.
Sync(a) ==
  /\ live[a] # TagAt(remote[checkOutBranch(a)], Slot(a))
  /\ live' = [live EXCEPT ![a] = TagAt(remote[checkOutBranch(a)], Slot(a))]
  /\ UNCHANGED <<remote, prs, runVars, workerVars, syncState, newest, human, faults>>

HumanPush(b) ==
  /\ human < MaxHuman
  /\ human' = human + 1
  /\ remote' = PointTo(b, Append(remote[b], [by |-> None, slot |-> None, tag |-> 0]))
  /\ UNCHANGED <<prs, runVars, workerVars, syncState, newest, live, faults>>

\* Someone merges an open pull request; the head branch is deleted or stays.
Merge(pr) ==
  /\ Exists(pr.head) /\ Mergeable(pr)
  /\ prs' = prs \ {pr}
  /\ \E n \in 0 .. Len(remote[pr.head]) :
       LET merged == remote[pr.base] \o SubSeq(remote[pr.head], n + 1, Len(remote[pr.head])) IN
       /\ AheadFrom(pr, n)
       /\ \/ remote' = PointTo(pr.base, merged)
          \/ remote' = [b \in DOMAIN remote \ {pr.head} |->
                          IF b = pr.base THEN merged ELSE remote[b]]
  /\ UNCHANGED <<runVars, workerVars, syncState, envVars, faults>>

WorkerStep(w) ==
  \/ UpdateApplication(w) \/ UpdateApplicationFails(w)
  \/ commitChangesLocked(w) \/ skipIfPRExists(w)
  \/ ShallowFetch(w) \/ Branch(w) \/ write(w)
  \/ CommitAndPush(w) \/ CreateRef(w) \/ createCommitOnBranch(w)
  \/ create(w) \/ CommitFails(w)

Next ==
  \/ \E r \in Runs : RunImageUpdater(r) \/ updateStatusAfterReconcile(r)
  \/ \E w \in Workers : WorkerStep(w)
  \/ Crash
  \/ \E i \in Images : Release(i)
  \/ \E a \in Apps : Sync(a)
  \/ \E b \in BaseBranches : HumanPush(b)
  \/ \E pr \in prs : Merge(pr)

Spec == Init /\ [][Next]_vars

\* Goroutines are scheduled, the resource is requeued after every run, and Argo
\* CD keeps syncing.  Nothing obliges people to merge or the registry to release.
Fairness ==
  /\ \A r \in Runs : WF_vars(RunImageUpdater(r)) /\ WF_vars(updateStatusAfterReconcile(r))
  /\ \A w \in Workers : WF_vars(WorkerStep(w))
  /\ \A a \in Apps : WF_vars(Sync(a))

FairSpec == Spec /\ Fairness

-----------------------------------------------------------------------------
(* Properties. *)

\* Every variable has its type, a busy worker belongs to a running run, a worker
\* past its decision has a change to write, and only configured paths are taken.
TypeOK ==
  /\ DOMAIN remote \subseteq Branches /\ BaseBranches \subseteq DOMAIN remote
  /\ \A b \in DOMAIN remote : remote[b] \in Seq(Commits)
  /\ prs \subseteq [head : {b \in Branches : b.key # None}, base : BaseBranches]
  /\ phase \in [Runs -> {"idle", "running"}]
  /\ seen \in [Runs -> [Apps -> Tags]]
  /\ recent \in [Runs -> SUBSET [image : Images, newVersion : Tags, applicationsUpdated : Nat]]
  /\ pc \in [Workers -> PCs] /\ outcome \in [Workers -> Outcomes]
  /\ chg \in [Workers -> Changes \cup {None}]
  /\ clone \in [Workers -> Seq(Commits)] /\ created \in [Workers -> BOOLEAN]
  /\ lock \in [Runs -> [Repos -> Workers \cup {None}]]
  /\ prCreated \in [Runs -> SUBSET Keys]
  /\ newest \in [Images -> Tags] /\ live \in [Apps -> Tags]
  /\ faults \in 0 .. MaxFaults /\ human \in 0 .. MaxHuman
  /\ \A w \in Workers : /\ pc[w] # "done" => phase[RunOf(w)] = "running"
                        /\ pc[w] \in Critical \cup {"lock"} => chg[w] # None
                        /\ pc[w] \in {"exists", "create"} => Config[AppOf(w)].pr
                        /\ pc[w] = "push" => ~Config[AppOf(w)].api

\* The repository lock of a run's SyncIterationState excludes: no two workers of
\* one run clone, write or push the same repository at the same time.
RepoExclusive ==
  \A w, v \in Workers :
    /\ RunOf(w) = RunOf(v) /\ Repo(w) = Repo(v)
    /\ InCritical(w) /\ InCritical(v)
    => w = v

\* Branches that some application pushes to with force: those the git command
\* line writes, other than the base branch of the application itself.
ForcedBranches ==
  {pushBranch(x[1], x[2]) : x \in {y \in Apps \X Changes : /\ ~Config[y[1]].api
                                     /\ pushBranch(y[1], y[2]) # checkOutBranch(y[1])}}

\* Whatever runs, people and failures do, a commit that is on a base branch, or
\* on a branch written through the GitHub API only, stays on it: the server's
\* check of a plain push, and expectedHeadOid, turn a concurrent change into an
\* error of the worker.
CommitsKept ==
  [][\A b \in (DOMAIN remote \cap DOMAIN remote') \ ForcedBranches :
       IsPrefix(remote[b], remote'[b])]_vars

\* In one run at most one application per write-back target gets past
\* MarkPRCreated, so that a run opens at most one pull request per target.
OnePerTarget ==
  \A w, v \in Workers :
    /\ RunOf(w) = RunOf(v) /\ Config[AppOf(w)].pr /\ Config[AppOf(v)].pr
    /\ WriteBackTargetKey(AppOf(w)) = WriteBackTargetKey(AppOf(v))
    /\ InCritical(w) \/ outcome[w] = "updated"
    /\ InCritical(v) \/ outcome[v] = "updated"
    => w = v

\* Every run ends: no lock is kept by a worker that failed, no worker waits for
\* ever, and wg.Wait() returns.
RunsTerminate == \A r \in Runs : phase[r] = "running" ~> phase[r] = "idle"

\* Direct write-back converges: once releases and failures stop, every
\* application runs the newest tag, however the runs' pushes collided.
Converges == <>[](\A a \in Apps : live[a] = newest[Config[a].image])

\* Some open pull request brings application a the newest tag.
Proposed(a) ==
  \E pr \in prs : /\ pr.base = checkOutBranch(a) /\ Exists(pr.head)
                  /\ TagAt(remote[pr.head], Slot(a)) = newest[Config[a].image]

\* Pull request mode converges: once releases and failures stop, every
\* application runs the newest tag or has an open pull request for it, also when
\* the process died between the push and the request.
PRConverges ==
  <>[](\A a \in Apps : live[a] = newest[Config[a].image] \/ Proposed(a))

\* An open pull request proposes the tag its branch is named after, however the
\* forced pushes of concurrent runs to that branch interleave with merges.
RequestHoldsItsChange ==
  \A pr \in prs : Exists(pr.head) =>
    TagAt(remote[pr.head], <<pr.head.key.target, pr.head.chg.image>>) = pr.head.chg.new

\* Write-back to a separate branch converges: once releases and failures stop,
\* the write branch holds the newest tag of every application, although forced
\* pushes of concurrent runs may drop each other's commits.
WriteBranchConverges ==
  <>[](\A r \in Runs : \A a \in AppsOf[r] :
         LET c == [image |-> Config[a].image, old |-> live[a], new |-> newest[Config[a].image]]
             b == pushBranch(a, c)
         IN  c.new # c.old => Exists(b) /\ TagAt(remote[b], Slot(a)) = c.new)

\* A dry run, be it the warm-up or one with --dry-run, leaves no commit on any
\* branch, whatever the runs beside it do.
DryRunWritesNothing ==
  \A b \in DOMAIN remote : \A k \in DOMAIN remote[b] :
    remote[b][k].by = None \/ ~Dry(RunOf(remote[b][k].by))

-----------------------------------------------------------------------------
(* What the comments and the documentation say, and the code does not do. *)

\* "Skipping PR creation: another application already created a PR for the same
\* write-back target in this cycle": the change of a skipped application, which
\* is reported as updated, is in a pull request or merged.
DedupedIsProposed ==
  \A w \in Workers : outcome[w] = "deduped" =>
    \/ TagAt(remote[Base(w)], Slot(AppOf(w))) = chg[w].new
    \/ \E pr \in prs : Exists(pr.head) /\ TagAt(remote[pr.head], Slot(AppOf(w))) = chg[w].new

=============================================================================
