--------------------------- MODULE RequestProofs ---------------------------
(* Proofs about what the write-back leaves on the server: dry runs leave     *)
(* nothing, and an open pull request holds the change it is named after.     *)
EXTENDS WriteBackProofs

-----------------------------------------------------------------------------
(* What a step does to a branch and to a clone. *)

\* The commit of someone else, and the commits of h from position n + 1 on.
HumanCommit == [by |-> None, slot |-> None, tag |-> 0]
After(h, n) == SubSeq(h, n + 1, Len(h))

\* The ways in which branch b, which exists after a step, came by its history.
Stays(b) == b \in DOMAIN remote /\ remote'[b] = remote[b]
Pushed(b) ==
  \E w \in Workers : /\ pc[w] \in {"push", "commit"} /\ b = Push(w)
                     /\ remote'[b] = Append(clone[w], NewCommit(w))
Referred(b) ==
  \E w \in Workers : /\ pc[w] = "ref" /\ b = Push(w) /\ b \notin DOMAIN remote
                     /\ remote'[b] = clone[w] /\ UNCHANGED prs
PushedByHand(b) == b \in BaseBranches /\ remote'[b] = Append(remote[b], HumanCommit)
MergedInto(b) ==
  /\ b \in BaseBranches
  /\ \E pr \in prs : \E n \in 0 .. Len(remote[pr.head]) :
       Exists(pr.head) /\ remote'[b] = remote[b] \o After(remote[pr.head], n)

\* A step of a worker leaves a branch, pushes to it or makes it.
LEMMA WorkerBranches ==
  ASSUME TypeOK, NEW w \in Workers, WorkerStep(w), NEW b \in DOMAIN remote'
  PROVE  Stays(b) \/ Pushed(b) \/ Referred(b)
<1>1. CASE UNCHANGED remote
  BY Zenon, <1>1 DEF Stays
<1>2. CASE CommitAndPush(w) \/ createCommitOnBranch(w)
  <2>1. pc[w] \in {"push", "commit"}
    BY Zenon, <1>2 DEF CommitAndPush, createCommitOnBranch
  <2>2. CASE remote' = PointTo(Push(w), Append(clone[w], NewCommit(w)))
    BY Zenon, <2>1, <2>2 DEF PointTo, Stays, Pushed
  <2> QED BY Zenon, <1>1, <1>2, <2>2 DEF CommitAndPush, createCommitOnBranch
<1>3. CASE CreateRef(w)
  <2>1. CASE remote' = PointTo(Push(w), clone[w]) /\ ~Exists(Push(w))
    BY Zenon, <1>3, <2>1 DEF CreateRef, PointTo, Exists, Stays, Referred
  <2> QED BY Zenon, <1>1, <1>3, <2>1 DEF CreateRef
<1> QED
  BY Zenon, <1>1, <1>2, <1>3
  DEF WorkerStep, UpdateApplication, UpdateApplicationFails, commitChangesLocked,
      skipIfPRExists, ShallowFetch, Branch, write, create, CommitFails

\* A merge appends to its base and leaves the other branches.
LEMMA MergeBranches ==
  ASSUME TypeOK, NEW pr \in prs, Merge(pr), NEW b \in DOMAIN remote'
  PROVE  Stays(b) \/ MergedInto(b)
<1>1. /\ pr.base \in BaseBranches /\ pr.base \in DOMAIN remote /\ Exists(pr.head)
  BY Zenon DEF TypeOK, Merge
<1>2. PICK n \in 0 .. Len(remote[pr.head]) :
        LET merged == remote[pr.base] \o After(remote[pr.head], n) IN
        \/ remote' = PointTo(pr.base, merged)
        \/ remote' = [x \in DOMAIN remote \ {pr.head} |->
                        IF x = pr.base THEN merged ELSE remote[x]]
  BY Zenon DEF Merge, After
<1>3. \/ b \in DOMAIN remote /\ remote'[b] = remote[b]
      \/ b = pr.base /\ remote'[b] = remote[pr.base] \o After(remote[pr.head], n)
  BY Zenon, <1>1, <1>2 DEF PointTo
<1> QED BY Zenon, <1>1, <1>2, <1>3 DEF Stays, MergedInto

\* Every branch there is after a step came by its history in one of these ways.
LEMMA BranchMoves ==
  ASSUME TypeOK, [Next]_vars, NEW b \in DOMAIN remote'
  PROVE  Stays(b) \/ Pushed(b) \/ Referred(b) \/ PushedByHand(b) \/ MergedInto(b)
<1>1. CASE UNCHANGED remote
  BY Zenon, <1>1 DEF Stays
<1>2. ASSUME NEW x \in BaseBranches, HumanPush(x) PROVE Stays(b) \/ PushedByHand(b)
  BY Zenon, <1>2 DEF HumanPush, PointTo, HumanCommit, Stays, PushedByHand
<1> QED
  BY Zenon, <1>1, <1>2, WorkerBranches, MergeBranches
  DEF Next, vars, RunImageUpdater, updateStatusAfterReconcile, Crash, Release, Sync

\* What a step is to worker v, its place, its clone and pushBranchCreated.
CloneStays(v) == clone'[v] = clone[v] /\ created'[v] = created[v]
Waits(v) == pc'[v] = pc[v] /\ CloneStays(v)
Ends(v) == pc'[v] = "done" /\ clone'[v] = <<>> /\ created'[v] = FALSE
Starts(v) == pc[v] = "done" /\ pc'[v] = "todo" /\ CloneStays(v)
Prepares(v) ==
  /\ CloneStays(v)
  /\ \/ pc[v] = "todo" /\ pc'[v] = "lock" /\ ~Dry(RunOf(v))
     \/ pc[v] = "lock" /\ pc'[v] \in {"exists", "fetch"}
     \/ pc[v] = "exists" /\ pc'[v] = "fetch"
     \/ pc[v] = "fetch" /\ pc'[v] = "fetchBase"
Fetched(v) ==
  /\ pc[v] = "fetch" /\ pc'[v] = "write" /\ Exists(Push(v))
  /\ clone'[v] = remote[Push(v)] /\ created'[v] = created[v]
Branched(v) ==
  /\ pc[v] = "fetchBase" /\ pc'[v] = "write"
  /\ clone'[v] = remote[Base(v)] /\ created'[v] = TRUE
Works(v) ==
  /\ CloneStays(v)
  /\ \/ pc[v] = "write" /\ pc'[v] \in {"create", "push", "commit"}
     \/ pc[v] = "write" /\ pc'[v] = "ref" /\ created[v] /\ Config[AppOf(v)].api
     \/ pc[v] = "ref" /\ pc'[v] = "commit"
     \/ pc[v] \in {"push", "commit"} /\ pc'[v] = "create"

\* A step of worker w takes w, and no other worker, to its next place.
LEMMA OwnMoves ==
  ASSUME TypeOK, NEW w \in Workers, WorkerStep(w), NEW v \in Workers
  PROVE  Waits(v) \/ Ends(v) \/ Prepares(v) \/ Fetched(v) \/ Branched(v) \/ Works(v)
<1>0. /\ clone \in [Workers -> Seq(Commits)] /\ created \in [Workers -> BOOLEAN]
      /\ pc \in [Workers -> PCs]
  BY Zenon DEF TypeOK
<1>1. ASSUME NEW l, Goto(w, l) PROVE pc'[w] = l /\ (v # w => pc'[v] = pc[v])
  BY Zenon, <1>0, <1>1 DEF Goto
<1>2. ASSUME NEW o, Return(w, o) PROVE Waits(v) \/ Ends(v)
  <2>1. clone'[w] = <<>> /\ created'[w] = FALSE
    BY Zenon, <1>0, <1>2 DEF Return
  <2>2. v # w => clone'[v] = clone[v] /\ created'[v] = created[v]
    BY Zenon, <1>0, <1>2 DEF Return
  <2> QED BY Zenon, <1>1, <1>2, <2>1, <2>2 DEF Return, CloneStays, Waits, Ends
<1>3. ASSUME NEW l, Goto(w, l), UNCHANGED <<clone, created>>, v # w PROVE Waits(v)
  BY Zenon, <1>1, <1>3 DEF CloneStays, Waits
<1>4. ASSUME NEW l, Goto(w, l), UNCHANGED <<clone, created>>, v = w
      PROVE  pc'[v] = l /\ CloneStays(v)
  BY Zenon, <1>1, <1>4 DEF CloneStays
<1>5. CASE UpdateApplication(w) \/ UpdateApplicationFails(w)
  <2>1. \/ \E o : Return(w, o)
        \/ Continue(w, "lock") /\ ~Dry(RunOf(w)) /\ pc[w] = "todo"
    BY Zenon, <1>5 DEF UpdateApplication, UpdateApplicationFails, Commit
  <2> QED BY Zenon, <1>2, <1>3, <1>4, <2>1 DEF Continue, Prepares
<1>6. CASE commitChangesLocked(w) \/ skipIfPRExists(w)
  <2>1. \/ \E o : Return(w, o)
        \/ /\ pc[w] = "lock" /\ UNCHANGED <<clone, created>>
           /\ Goto(w, "exists") \/ Goto(w, "fetch")
        \/ pc[w] = "exists" /\ Continue(w, "fetch")
    BY Zenon, <1>6 DEF commitChangesLocked, skipIfPRExists
  <2> QED BY Zenon, <1>2, <1>3, <1>4, <2>1 DEF Continue, Prepares
<1>7. CASE ShallowFetch(w)
  <2>1. CASE pc[w] = "fetch" /\ Goto(w, "fetchBase") /\ UNCHANGED <<clone, created>>
    BY Zenon, <1>3, <1>4, <2>1 DEF Prepares
  <2>2. CASE /\ pc[w] = "fetch" /\ Exists(Push(w)) /\ Goto(w, "write")
             /\ clone' = [clone EXCEPT ![w] = remote[Push(w)]] /\ UNCHANGED created
    <3>1. clone'[w] = remote[Push(w)] /\ (v # w => clone'[v] = clone[v])
      BY Zenon, <1>0, <2>2
    <3> QED BY Zenon, <1>1, <2>2, <3>1 DEF CloneStays, Waits, Fetched
  <2> QED BY Zenon, <1>7, <2>1, <2>2 DEF ShallowFetch
<1>8. CASE Branch(w)
  <2>1. /\ clone'[w] = remote[Base(w)] /\ created'[w] = TRUE
        /\ v # w => clone'[v] = clone[v] /\ created'[v] = created[v]
    BY Zenon, <1>0, <1>8 DEF Branch
  <2> QED BY Zenon, <1>1, <1>8, <2>1 DEF Branch, CloneStays, Waits, Branched
<1>9. CASE write(w)
  <2>1. \/ \E o : Return(w, o)
        \/ /\ pc[w] = "write"
           /\ \E l \in {"create", "push", "commit"} : Continue(w, l)
        \/ pc[w] = "write" /\ Continue(w, "ref") /\ created[w] /\ Config[AppOf(w)].api
    BY Zenon, <1>9 DEF write, Skipped
  <2> QED BY Zenon, <1>2, <1>3, <1>4, <2>1 DEF Continue, Works
<1>10. CASE CommitAndPush(w) \/ CreateRef(w) \/ createCommitOnBranch(w)
  <2>1. \/ \E o : Return(w, o)
        \/ pc[w] \in {"push", "commit"} /\ Continue(w, "create")
        \/ pc[w] = "ref" /\ Continue(w, "commit")
    BY Zenon, <1>10 DEF CommitAndPush, createCommitOnBranch, CreateRef, Committed
  <2> QED BY Zenon, <1>2, <1>3, <1>4, <2>1 DEF Continue, Works
<1>11. CASE create(w) \/ CommitFails(w)
  BY Zenon, <1>2, <1>11 DEF create, CommitFails
<1> QED
  BY Zenon, <1>5, <1>6, <1>7, <1>8, <1>9, <1>10, <1>11 DEF WorkerStep

\* Every step is one of these to every worker.
LEMMA PlaceMoves ==
  ASSUME TypeOK, [Next]_vars, NEW v \in Workers
  PROVE  \/ Waits(v) \/ Ends(v) \/ Starts(v)
         \/ Prepares(v) \/ Fetched(v) \/ Branched(v) \/ Works(v)
<1>1. CASE UNCHANGED <<pc, clone, created>>
  BY Zenon, <1>1 DEF CloneStays, Waits
<1>2. CASE Crash
  BY Zenon, <1>2 DEF Crash, Ends
<1>3. ASSUME NEW r \in Runs, RunImageUpdater(r) PROVE Waits(v) \/ Starts(v)
  <2>1. CASE RunOf(v) = r
    <3>1. pc[v] = "done"
      BY <1>3, <2>1 DEF RunImageUpdater, TypeOK
    <3> QED BY Zenon, <1>3, <2>1, <3>1 DEF RunImageUpdater, CloneStays, Starts
  <2>2. CASE RunOf(v) # r
    BY Zenon, <1>3, <2>2 DEF RunImageUpdater, CloneStays, Waits
  <2> QED BY <2>1, <2>2
<1> QED
  BY Zenon, <1>1, <1>2, <1>3, OwnMoves
  DEF Next, vars, workerVars, updateStatusAfterReconcile, Release, Sync, HumanPush, Merge

-----------------------------------------------------------------------------
(* Dry runs. *)

\* The commits of people and of runs that are not dry.
WetCommits == {e \in Commits : e.by = None \/ ~Dry(RunOf(e.by))}

\* Only such commits are on the server and in the clones, and a worker of a dry
\* run never gets as far as the lock.
DryInv ==
  /\ \A b \in DOMAIN remote : remote[b] \in Seq(WetCommits)
  /\ \A w \in Workers : /\ clone[w] \in Seq(WetCommits)
                        /\ Dry(RunOf(w)) => pc[w] \in {"todo", "done"}

\* A step keeps the branches free of the commits of dry runs.
LEMMA DryBranches ==
  ASSUME TypeOK, DryInv, [Next]_vars, NEW b \in DOMAIN remote'
  PROVE  remote'[b] \in Seq(WetCommits)
<1>1. CASE Stays(b)
  BY Zenon, <1>1 DEF Stays, DryInv
<1>2. CASE Pushed(b)
  <2>1. PICK w \in Workers : /\ pc[w] \in {"push", "commit"}
                             /\ remote'[b] = Append(clone[w], NewCommit(w))
    BY Zenon, <1>2 DEF Pushed
  <2>2. NewCommit(w) \in Commits /\ ~Dry(RunOf(w))
    BY <2>1, BusyTypes DEF Critical, DryInv
  <2>3. NewCommit(w) \in WetCommits
    BY <2>2 DEF WetCommits, NewCommit
  <2>4. clone[w] \in Seq(WetCommits)
    BY Zenon DEF DryInv
  <2> QED BY <2>1, <2>3, <2>4, AppendProperties
<1>3. CASE Referred(b)
  BY Zenon, <1>3 DEF Referred, DryInv
<1>4. CASE PushedByHand(b)
  <2>1. HumanCommit \in WetCommits
    BY BoundsAssumption DEF HumanCommit, WetCommits, Commits, Tags
  <2>2. remote[b] \in Seq(WetCommits)
    BY Zenon, <1>4 DEF PushedByHand, DryInv, TypeOK
  <2> QED BY <1>4, <2>1, <2>2, AppendProperties DEF PushedByHand
<1>5. CASE MergedInto(b)
  <2>1. PICK pr \in prs : \E n \in 0 .. Len(remote[pr.head]) :
          Exists(pr.head) /\ remote'[b] = remote[b] \o After(remote[pr.head], n)
    BY Zenon, <1>5 DEF MergedInto
  <2>2. PICK n \in 0 .. Len(remote[pr.head]) :
          Exists(pr.head) /\ remote'[b] = remote[b] \o After(remote[pr.head], n)
    BY Zenon, <2>1
  <2>3. remote[b] \in Seq(WetCommits) /\ remote[pr.head] \in Seq(WetCommits)
    BY Zenon, <1>5, <2>2 DEF MergedInto, DryInv, TypeOK, Exists
  <2>4. After(remote[pr.head], n) \in Seq(WetCommits)
    BY <2>2, <2>3 DEF After
  <2> QED BY <2>2, <2>3, <2>4, ConcatProperties
<1> QED BY Zenon, <1>1, <1>2, <1>3, <1>4, <1>5, BranchMoves

\* A step keeps the clones free of them, and the workers of dry runs from the lock.
LEMMA DryWorkers ==
  ASSUME TypeOK, DryInv, [Next]_vars, NEW w \in Workers
  PROVE  /\ clone'[w] \in Seq(WetCommits)
         /\ Dry(RunOf(w)) => pc'[w] \in {"todo", "done"}
<1>1. clone[w] \in Seq(WetCommits) /\ (Dry(RunOf(w)) => pc[w] \in {"todo", "done"})
  BY Zenon DEF DryInv
<1>2. CASE Fetched(w) \/ Branched(w)
  <2>1. ~Dry(RunOf(w))
    BY <1>1, <1>2 DEF Fetched, Branched
  <2>2. Base(w) \in DOMAIN remote
    BY Zenon, WorkerType, BranchTypes DEF Base, TypeOK
  <2> QED BY Zenon, <1>2, <2>1, <2>2 DEF Fetched, Branched, Exists, DryInv
<1>3. CASE Waits(w) \/ Ends(w) \/ Starts(w)
  <2>1. <<>> \in Seq(WetCommits)
    OBVIOUS
  <2> QED BY Zenon, <1>1, <1>3, <2>1 DEF Waits, Ends, Starts, CloneStays
<1>4. CASE Prepares(w) \/ Works(w)
  BY <1>1, <1>4 DEF Prepares, Works, CloneStays
<1> QED BY Zenon, <1>2, <1>3, <1>4, PlaceMoves

\* A dry run, be it the warm-up or one with --dry-run, never leaves a commit on
\* any branch, however many runs that do commit go on beside it.
THEOREM DryRunsWriteNothing == Spec => []DryRunWritesNothing
<1>1. Init => DryInv
  BY DEF Init, DryInv
<1>2. TypeOK /\ DryInv /\ [Next]_vars => DryInv'
  <2> SUFFICES ASSUME TypeOK, DryInv, [Next]_vars PROVE DryInv'
    OBVIOUS
  <2> QED BY Zenon, DryBranches, DryWorkers DEF DryInv, Dry
<1>3. DryInv => DryRunWritesNothing
  <2> SUFFICES ASSUME DryInv, NEW b \in DOMAIN remote, NEW k \in DOMAIN remote[b]
               PROVE  remote[b][k].by = None \/ ~Dry(RunOf(remote[b][k].by))
    BY DEF DryRunWritesNothing
  <2>1. remote[b] \in Seq(WetCommits)
    BY DEF DryInv
  <2>2. remote[b][k] \in WetCommits
    BY <2>1
  <2> QED BY <2>2 DEF WetCommits
<1> QED
  BY <1>1, <1>2, <1>3, TypeCorrect, PTL DEF Spec

-----------------------------------------------------------------------------
(* Pull requests. *)

\* The tag a history holds after a commit is the one the commit wrote.
LEMMA TagOfCommit ==
  ASSUME NEW h \in Seq(Commits), NEW e \in Commits
  PROVE  TagAt(Append(h, e), e.slot) = e.tag
<1> DEFINE g == Append(h, e)
           n == Len(h) + 1
           W == Writes(g, e.slot)
<1>1. g \in Seq(Commits) /\ Len(g) = n /\ g[n] = e /\ DOMAIN g = 1 .. n /\ n \in Nat
  BY AppendProperties, LenProperties
<1>2. n \in 1 .. n
  OBVIOUS
<1> HIDE DEF g, n
<1>3. n \in W /\ W \subseteq 1 .. n
  BY Zenon, <1>1, <1>2 DEF Writes
<1> HIDE DEF W
<1>4. Max(W) \in 1 .. n /\ Max(W) >= n
  BY Zenon, <1>1, <1>3, GreatestPosition
<1>5. Max(W) = n
  BY <1>1, <1>4
<1> QED BY Zenon, <1>1, <1>3, <1>5 DEF TagAt, W, g

\* A longer history has every commit of the shorter one.
LEMMA PrefixCommits ==
  ASSUME NEW S, NEW h \in Seq(S), NEW g \in Seq(S), IsPrefix(h, g)
  PROVE  ToSet(h) \subseteq ToSet(g)
  BY DEF IsPrefix, ToSet

\* The head of a pull request carries the target key and the change of its
\* application; no other branch carries a key.
LEMMA HeadFields ==
  ASSUME NEW a \in Apps, NEW c \in Changes
  PROVE  /\ Config[a].pr => /\ pushBranch(a, c).key = WriteBackTargetKey(a)
                            /\ pushBranch(a, c).chg = c
         /\ ~Config[a].pr => pushBranch(a, c).key = None
<1>1. CASE Config[a].pr
  BY <1>1 DEF pushBranch, TemplateBranchName, PRBranchTemplate
<1>2. CASE ~Config[a].pr
  BY Zenon, <1>2 DEF pushBranch, TemplateBranchName, checkOutBranch
<1> QED BY <1>1, <1>2

\* A base branch carries no key.
LEMMA BaseHasNoKey ==
  ASSUME NEW b \in BaseBranches
  PROVE  b.key = None
  BY DEF BaseBranches, checkOutBranch

\* What an application that commits through the GitHub API needs of the others
\* that open pull requests for its target: they open them against the same base,
\* and nobody pushes to that base with force.  With the git command line alone
\* there is nothing to need.
ApiTargetsAgree ==
  \A a, b \in Apps :
    /\ Config[a].pr /\ Config[a].api /\ Config[b].pr
    /\ WriteBackTargetKey(a) = WriteBackTargetKey(b)
    => checkOutBranch(a) = checkOutBranch(b) /\ checkOutBranch(a) \notin ForcedBranches

\* The applications that write the head b through the API; b holds the change it
\* is named after; b has nothing its base lacks, as CreateRef makes it.
ApiOf(b) == {a \in Apps : Config[a].pr /\ Config[a].api /\ WriteBackTargetKey(a) = b.key}
Holds(b) == TagAt(remote[b], <<b.key.target, b.chg.image>>) = b.chg.new
Behind(b) == \E a \in ApiOf(b) : ToSet(remote[b]) \subseteq ToSet(remote[checkOutBranch(a)])

\* A head holds its change, or was made by CreateRef and has no request yet.
HeadInv ==
  \A b \in DOMAIN remote :
    b.key # None => Holds(b) \/ (Behind(b) /\ \A pr \in prs : pr.head # b)

\* A request is from and to the branches of an application, and outlives its
\* head only where no application writes the head through the API.
RequestInv ==
  \A pr \in prs :
    /\ \E a \in Apps : /\ Config[a].pr /\ pr.head.key = WriteBackTargetKey(a)
                       /\ pr.base = checkOutBranch(a)
    /\ ApiOf(pr.head) # {} => Exists(pr.head)

\* A worker's change is of its application's image, and a clone made from the
\* base branch to be committed through the API has nothing the base lacks.
FromBase(w) ==
  created[w] /\ Config[AppOf(w)].pr /\ Config[AppOf(w)].api
    => ToSet(clone[w]) \subseteq ToSet(remote[Base(w)])
CloneInv ==
  \A w \in Workers :
    /\ chg[w] # None => chg[w].image = Config[AppOf(w)].image
    /\ created[w] => pc[w] \in {"write", "push", "ref", "commit", "create"}
    /\ pc[w] = "ref" => created[w] /\ Config[AppOf(w)].api
    /\ FromBase(w)

\* The base of an application that writes through the API only grows.
LEMMA ApiBaseGrows ==
  ASSUME ApiTargetsAgree, TypeOK, TypeOK', [Next]_vars,
         NEW a \in Apps, Config[a].pr, Config[a].api
  PROVE  ToSet(remote[checkOutBranch(a)]) \subseteq ToSet(remote'[checkOutBranch(a)])
<1> DEFINE b == checkOutBranch(a)
<1>1. b \in DOMAIN remote /\ b \in DOMAIN remote' /\ b \notin ForcedBranches
  BY Zenon, BranchTypes DEF TypeOK, ApiTargetsAgree
<1>2. remote[b] \in Seq(Commits) /\ remote'[b] \in Seq(Commits)
  BY Zenon, <1>1 DEF TypeOK
<1> HIDE DEF b
<1>3. IsPrefix(remote[b], remote'[b])
  BY Zenon, <1>1, StepKeeps DEF Kept
<1>4. ToSet(remote[b]) \subseteq ToSet(remote'[b])
  BY Zenon, <1>2, <1>3, PrefixCommits
<1> QED BY Zenon, <1>4 DEF b

\* A step opens at most one request, that of a worker whose head is ahead of its base.
Opens(w) ==
  /\ pc[w] = "create" /\ Openable(w) /\ UNCHANGED remote
  /\ prs' = prs \cup {PullRequest(w)}
LEMMA RequestMoves ==
  ASSUME [Next]_vars
  PROVE  prs' \subseteq prs \/ \E w \in Workers : Opens(w)
<1>1. CASE UNCHANGED prs
  BY Zenon, <1>1
<1>2. ASSUME NEW w \in Workers, create(w) PROVE prs' \subseteq prs \/ Opens(w)
  BY Zenon, <1>2 DEF create, Opens
<1>3. ASSUME NEW pr \in prs, Merge(pr) PROVE prs' \subseteq prs
  BY Zenon, <1>3 DEF Merge
<1> QED
  BY Zenon, <1>1, <1>2, <1>3
  DEF Next, vars, WorkerStep, RunImageUpdater, updateStatusAfterReconcile, UpdateApplication,
      UpdateApplicationFails, commitChangesLocked, skipIfPRExists, ShallowFetch, Branch, write,
      CommitAndPush, CreateRef, createCommitOnBranch, CommitFails, Crash, Release, Sync, HumanPush

\* A branch is deleted only as the head of the request that is merged.
LEMMA DeletedHead ==
  ASSUME TypeOK, [Next]_vars, NEW b \in DOMAIN remote, b \notin DOMAIN remote'
  PROVE  \E pr \in prs : pr.head = b /\ prs' = prs \ {pr}
<1>1. ASSUME NEW pr \in prs, Merge(pr) PROVE pr.head = b /\ prs' = prs \ {pr}
  BY Zenon, <1>1 DEF Merge, PointTo
<1>2. UNCHANGED remote => FALSE
  OBVIOUS
<1>3. \A x, h : remote' = PointTo(x, h) => FALSE
  BY Zenon DEF PointTo
<1> QED
  BY Zenon, <1>1, <1>2, <1>3
  DEF Next, vars, WorkerStep, RunImageUpdater, updateStatusAfterReconcile, UpdateApplication,
      UpdateApplicationFails, commitChangesLocked, skipIfPRExists, ShallowFetch, Branch, write,
      CommitAndPush, CreateRef, createCommitOnBranch, create, CommitFails, Crash, Release, Sync,
      HumanPush

\* A worker's change stays, goes, or is made for the image of its application.
LEMMA ChangeMoves ==
  ASSUME TypeOK, [Next]_vars, NEW v \in Workers
  PROVE  chg'[v] = chg[v] \/ chg'[v] = None \/ chg'[v].image = Config[AppOf(v)].image
<1>1. CASE UNCHANGED chg
  BY Zenon, <1>1
<1>2. CASE Crash
  BY Zenon, <1>2 DEF Crash
<1>3. ASSUME NEW r \in Runs, updateStatusAfterReconcile(r) PROVE chg'[v] = chg[v] \/ chg'[v] = None
  BY Zenon, <1>3 DEF updateStatusAfterReconcile
<1>4. ASSUME NEW w \in Workers, UpdateApplication(w)
      PROVE  chg'[v] = chg[v] \/ chg'[v].image = Config[AppOf(v)].image
  <2>1. \/ UNCHANGED chg
        \/ \E old, new : chg' = [chg EXCEPT ![w] = [image |-> Config[AppOf(w)].image,
                                                    old |-> old, new |-> new]]
    BY Zenon, <1>4 DEF UpdateApplication
  <2> QED BY <2>1 DEF TypeOK
<1> QED
  BY Zenon, <1>1, <1>2, <1>3, <1>4
  DEF Next, vars, workerVars, WorkerStep, RunImageUpdater, UpdateApplicationFails,
      commitChangesLocked, skipIfPRExists, ShallowFetch, Branch, write, CommitAndPush, CreateRef,
      createCommitOnBranch, create, CommitFails, Release, Sync, HumanPush, Merge

\* A worker that pushes to a head has an application in pull request mode, whose
\* key and change the head is named after.
LEMMA PusherOfHead ==
  ASSUME TypeOK, NEW w \in Workers, pc[w] \in Critical, Push(w).key # None
  PROVE  /\ Config[AppOf(w)].pr /\ Push(w).key = WriteBackTargetKey(AppOf(w))
         /\ Push(w).chg = chg[w] /\ AppOf(w) \in Apps
<1>1. chg[w] \in Changes /\ AppOf(w) \in Apps
  BY Zenon, BusyTypes, WorkerType
<1> QED BY Zenon, <1>1, HeadFields DEF Push

\* What a worker pushed to a head is the change the head is named after.
LEMMA PushedHolds ==
  ASSUME TypeOK, CloneInv, NEW b, Pushed(b), b.key # None
  PROVE  Holds(b)'
<1>1. PICK w \in Workers : /\ pc[w] \in {"push", "commit"} /\ b = Push(w)
                           /\ remote'[b] = Append(clone[w], NewCommit(w))
  BY Zenon DEF Pushed
<1>2. pc[w] \in Critical
  BY <1>1 DEF Critical
<1>3. b.key = WriteBackTargetKey(AppOf(w)) /\ b.chg = chg[w]
  BY Zenon, <1>1, <1>2, PusherOfHead
<1>4. clone[w] \in Seq(Commits) /\ NewCommit(w) \in Commits /\ chg[w] # None
  BY Zenon, <1>2, BusyTypes DEF TypeOK
<1>5. <<b.key.target, b.chg.image>> = Slot(AppOf(w))
  BY <1>3, <1>4 DEF CloneInv, WriteBackTargetKey, Slot
<1>6. NewCommit(w).slot = Slot(AppOf(w)) /\ NewCommit(w).tag = chg[w].new
  BY DEF NewCommit
<1>7. TagAt(remote'[b], <<b.key.target, b.chg.image>>) = b.chg.new
  BY Zenon, <1>1, <1>3, <1>4, <1>5, <1>6, TagOfCommit
<1> QED BY Zenon, <1>7 DEF Holds, TagAt, Writes

\* A head that is behind its base is not opened as a request, and stays behind.
LEMMA BehindStays ==
  ASSUME ApiTargetsAgree, TypeOK, TypeOK', [Next]_vars, NEW b, Stays(b), b.key # None,
         Behind(b), \A pr \in prs : pr.head # b
  PROVE  Behind(b)' /\ \A pr \in prs' : pr.head # b
<1>1. PICK a \in ApiOf(b) : ToSet(remote[b]) \subseteq ToSet(remote[checkOutBranch(a)])
  BY Zenon DEF Behind
<1>2. a \in Apps /\ Config[a].pr /\ Config[a].api /\ WriteBackTargetKey(a) = b.key
  BY Zenon, <1>1 DEF ApiOf
<1>3. Behind(b)'
  <2>1. ToSet(remote'[b]) \subseteq ToSet(remote'[checkOutBranch(a)])
    BY Zenon, <1>1, <1>2, ApiBaseGrows DEF Stays
  <2>2. a \in ApiOf(b)'
    BY Zenon, <1>2 DEF ApiOf, WriteBackTargetKey
  <2> QED BY Zenon, <2>1, <2>2 DEF Behind, checkOutBranch, Unresolved, configuredBranch
<1>4. ASSUME NEW w \in Workers, Opens(w), Push(w) = b PROVE FALSE
  <2>1. pc[w] \in Critical
    BY <1>4 DEF Opens, Critical
  <2>2. AppOf(w) \in Apps /\ Config[AppOf(w)].pr /\ b.key = WriteBackTargetKey(AppOf(w))
    BY Zenon, <1>4, <2>1, PusherOfHead
  <2>3. Base(w) = checkOutBranch(a)
    BY Zenon, <1>2, <2>2 DEF ApiTargetsAgree, Base
  <2> QED BY Zenon, <1>1, <1>4, <2>3 DEF Opens, Openable, Missing
<1>5. \A w : PullRequest(w).head = Push(w)
  BY DEF PullRequest
<1>6. \A pr \in prs' : pr.head # b
  BY Zenon, <1>4, <1>5, RequestMoves DEF Opens
<1> QED BY <1>3, <1>6

\* CreateRef makes a head that is behind its base and that no request is from.
LEMMA ReferredBehind ==
  ASSUME ApiTargetsAgree, TypeOK, TypeOK', RequestInv, CloneInv, [Next]_vars,
         NEW b, Referred(b), b.key # None
  PROVE  Behind(b)' /\ \A pr \in prs' : pr.head # b
<1>1. PICK w \in Workers : /\ pc[w] = "ref" /\ b = Push(w) /\ b \notin DOMAIN remote
                           /\ remote'[b] = clone[w] /\ UNCHANGED prs
  BY Zenon DEF Referred
<1>2. pc[w] \in Critical
  BY <1>1 DEF Critical
<1> DEFINE a == AppOf(w)
<1>3. /\ a \in Apps /\ Config[a].pr /\ b.key = WriteBackTargetKey(a)
      /\ created[w] /\ Config[a].api
  BY Zenon, <1>1, <1>2, PusherOfHead DEF CloneInv
<1>4. a \in ApiOf(b)
  BY Zenon, <1>3 DEF ApiOf
<1>5. ToSet(remote'[b]) \subseteq ToSet(remote[checkOutBranch(a)])
  BY Zenon, <1>1, <1>3 DEF CloneInv, FromBase, Base
<1>6. ToSet(remote[checkOutBranch(a)]) \subseteq ToSet(remote'[checkOutBranch(a)])
  BY Zenon, <1>3, ApiBaseGrows
<1>7. Behind(b)'
  <2>1. a \in ApiOf(b)'
    BY Zenon, <1>3 DEF ApiOf, WriteBackTargetKey
  <2> QED BY Zenon, <1>5, <1>6, <2>1 DEF Behind, checkOutBranch, Unresolved, configuredBranch
<1>8. \A pr \in prs' : pr.head # b
  BY Zenon, <1>1, <1>4 DEF RequestInv, Exists
<1> QED BY <1>7, <1>8

\* Every step keeps the heads.
LEMMA HeadStep ==
  ASSUME ApiTargetsAgree, TypeOK, TypeOK', HeadInv, RequestInv, CloneInv, [Next]_vars
  PROVE  HeadInv'
<1> SUFFICES ASSUME NEW b \in DOMAIN remote', b.key # None
             PROVE  Holds(b)' \/ (Behind(b)' /\ \A pr \in prs' : pr.head # b)
  BY Zenon DEF HeadInv
<1>1. CASE Stays(b)
  <2>1. CASE Holds(b)
    BY Zenon, <1>1, <2>1 DEF Stays, Holds, TagAt, Writes
  <2>2. CASE Behind(b) /\ \A pr \in prs : pr.head # b
    BY Zenon, <1>1, <2>2, BehindStays
  <2> QED BY Zenon, <1>1, <2>1, <2>2 DEF Stays, HeadInv
<1>2. CASE Pushed(b)
  BY Zenon, <1>2, PushedHolds
<1>3. CASE Referred(b)
  BY Zenon, <1>3, ReferredBehind
<1>4. b \notin BaseBranches
  BY Zenon, BaseHasNoKey
<1> QED BY Zenon, <1>1, <1>2, <1>3, <1>4, BranchMoves DEF PushedByHand, MergedInto

\* Every step keeps the requests: with one base per target a head is deleted with
\* the last request from it.
LEMMA RequestStep ==
  ASSUME ApiTargetsAgree, TypeOK, RequestInv, [Next]_vars
  PROVE  RequestInv'
<1> SUFFICES ASSUME NEW pr \in prs'
             PROVE  /\ \E a \in Apps : /\ Config[a].pr /\ pr.head.key = WriteBackTargetKey(a)
                                       /\ pr.base = checkOutBranch(a)
                    /\ ApiOf(pr.head) # {} => pr.head \in DOMAIN remote'
  BY Zenon
  DEF RequestInv, Exists, ApiOf, WriteBackTargetKey, checkOutBranch, Unresolved, configuredBranch
<1>1. CASE pr \in prs
  <2>1. PICK a \in Apps : /\ Config[a].pr /\ pr.head.key = WriteBackTargetKey(a)
                          /\ pr.base = checkOutBranch(a)
    BY Zenon, <1>1 DEF RequestInv
  <2>2. ASSUME NEW x \in ApiOf(pr.head), pr.head \notin DOMAIN remote' PROVE FALSE
    <3>1. pr.head \in DOMAIN remote
      BY Zenon, <1>1, <2>2 DEF RequestInv, Exists
    <3>2. PICK q \in prs : q.head = pr.head /\ prs' = prs \ {q}
      BY Zenon, <2>2, <3>1, DeletedHead
    <3>3. PICK d \in Apps : /\ Config[d].pr /\ q.head.key = WriteBackTargetKey(d)
                            /\ q.base = checkOutBranch(d)
      BY Zenon, <3>2 DEF RequestInv
    <3>4. /\ x \in Apps /\ Config[x].pr /\ Config[x].api
          /\ WriteBackTargetKey(x) = WriteBackTargetKey(a)
          /\ WriteBackTargetKey(x) = WriteBackTargetKey(d)
      BY Zenon, <2>1, <2>2, <3>2, <3>3 DEF ApiOf
    <3>5. q.base = pr.base
      BY Zenon, <2>1, <3>3, <3>4 DEF ApiTargetsAgree
    <3>6. q = pr
      <4> DEFINE H == {b \in Branches : b.key # None}
      <4>1. q \in [head : H, base : BaseBranches] /\ pr \in [head : H, base : BaseBranches]
        BY Zenon, <1>1, <3>2 DEF TypeOK
      <4> HIDE DEF H
      <4> QED BY <3>2, <3>5, <4>1
    <3> QED BY Zenon, <3>2, <3>6
  <2> QED BY Zenon, <2>1, <2>2
<1>2. CASE pr \notin prs
  <2>1. PICK w \in Workers : Opens(w) /\ pr = PullRequest(w)
    BY Zenon, <1>2, RequestMoves DEF Opens
  <2>2. pc[w] \in Critical /\ Config[AppOf(w)].pr
    BY <2>1 DEF Opens, Critical, TypeOK
  <2>3. pr.head = Push(w) /\ pr.base = checkOutBranch(AppOf(w))
    BY <2>1 DEF PullRequest, Base
  <2>4. AppOf(w) \in Apps /\ pr.head.key = WriteBackTargetKey(AppOf(w))
    BY Zenon, <2>2, <2>3, BusyTypes, PusherOfHead
  <2>5. pr.head \in DOMAIN remote'
    BY Zenon, <2>1, <2>3 DEF Opens, Openable, Exists
  <2> QED BY Zenon, <2>2, <2>3, <2>4, <2>5
<1> QED BY <1>1, <1>2

\* Every step keeps the clones.
LEMMA CloneStep ==
  ASSUME ApiTargetsAgree, TypeOK, TypeOK', CloneInv, [Next]_vars
  PROVE  CloneInv'
<1> SUFFICES ASSUME NEW w \in Workers
             PROVE  /\ chg'[w] # None => chg'[w].image = Config[AppOf(w)].image
                    /\ created'[w] => pc'[w] \in {"write", "push", "ref", "commit", "create"}
                    /\ pc'[w] = "ref" => created'[w] /\ Config[AppOf(w)].api
                    /\ created'[w] /\ Config[AppOf(w)].pr /\ Config[AppOf(w)].api
                         => ToSet(clone'[w]) \subseteq ToSet(remote'[Base(w)])
  BY Zenon DEF CloneInv, FromBase, Base, checkOutBranch, Unresolved, configuredBranch
<1>0. /\ chg[w] # None => chg[w].image = Config[AppOf(w)].image
      /\ created[w] => pc[w] \in {"write", "push", "ref", "commit", "create"}
      /\ pc[w] = "ref" => created[w] /\ Config[AppOf(w)].api
      /\ created[w] /\ Config[AppOf(w)].pr /\ Config[AppOf(w)].api
           => ToSet(clone[w]) \subseteq ToSet(remote[Base(w)])
  BY Zenon DEF CloneInv, FromBase
<1>1. chg'[w] # None => chg'[w].image = Config[AppOf(w)].image
  BY Zenon, <1>0, ChangeMoves
<1>2. Config[AppOf(w)].pr /\ Config[AppOf(w)].api
        => ToSet(remote[Base(w)]) \subseteq ToSet(remote'[Base(w)])
  BY Zenon, WorkerType, ApiBaseGrows DEF Base
<1>3. CASE Waits(w)
  BY Zenon, <1>0, <1>1, <1>2, <1>3 DEF Waits, CloneStays
<1>4. CASE Ends(w)
  <2>1. pc'[w] # "ref" /\ ~created'[w]
    BY <1>4 DEF Ends
  <2> QED BY Zenon, <1>1, <2>1
<1>5. CASE Starts(w) \/ Prepares(w) \/ Fetched(w)
  <2>1. pc'[w] # "ref" /\ ~created'[w]
    BY <1>0, <1>5 DEF Starts, Prepares, Fetched, CloneStays
  <2> QED BY Zenon, <1>1, <2>1
<1>6. CASE Branched(w)
  <2>1. pc'[w] = "write" /\ clone'[w] = remote[Base(w)]
    BY <1>6 DEF Branched
  <2> QED BY Zenon, <1>1, <1>2, <2>1
<1>7. CASE Works(w)
  <2>1. pc'[w] \in {"write", "push", "ref", "commit", "create"}
    BY <1>7 DEF Works
  <2>2. pc'[w] = "ref" => created'[w] /\ Config[AppOf(w)].api
    BY <1>7 DEF Works, CloneStays
  <2>3. clone'[w] = clone[w] /\ created'[w] = created[w]
    BY Zenon, <1>7 DEF Works, CloneStays
  <2> QED BY Zenon, <1>0, <1>1, <1>2, <2>1, <2>2, <2>3
<1> QED BY Zenon, <1>3, <1>4, <1>5, <1>6, <1>7, PlaceMoves

\* An open pull request always proposes the tag its branch is named after, with
\* any number of runs, applications and people.  Where the GitHub API is used this
\* takes one base branch per target: CreateRef may otherwise make a head that was
\* merged and deleted anew, without its commit, under a request to another base.
THEOREM RequestsHoldTheirChange ==
  ASSUME ApiTargetsAgree
  PROVE  Spec => []RequestHoldsItsChange
<1>1. Init => HeadInv /\ RequestInv /\ CloneInv
  <2>1. Init => HeadInv /\ RequestInv
    BY BaseHasNoKey DEF Init, HeadInv, RequestInv
  <2>2. Init => CloneInv
    BY DEF Init, CloneInv, FromBase
  <2> QED BY <2>1, <2>2
<1>2. /\ TypeOK /\ TypeOK' /\ HeadInv /\ RequestInv /\ CloneInv /\ [Next]_vars
      => HeadInv' /\ RequestInv' /\ CloneInv'
  BY Zenon, HeadStep, RequestStep, CloneStep
<1>3. TypeOK /\ HeadInv => RequestHoldsItsChange
  <2> SUFFICES ASSUME TypeOK, HeadInv, NEW pr \in prs, Exists(pr.head) PROVE Holds(pr.head)
    BY Zenon DEF RequestHoldsItsChange, Holds
  <2>1. pr.head.key # None
    BY DEF TypeOK
  <2> QED BY Zenon, <2>1 DEF HeadInv, Exists
<1> QED
  BY <1>1, <1>2, <1>3, TypeCorrect, PTL DEF Spec

=============================================================================
