-------------------------- MODULE WriteBackProofs --------------------------
(* Proofs about WriteBack, for every set of runs, applications and           *)
(* repositories and every configuration.                                     *)
EXTENDS WriteBack, TLAPS, FiniteSetTheorems, SequenceTheorems, WellFoundedInduction

\* A worker is a run and one of its applications.
LEMMA WorkerType ==
  ASSUME NEW w \in Workers
  PROVE  /\ RunOf(w) \in Runs /\ AppOf(w) \in Apps
         /\ Config[AppOf(w)] \in ConfigType /\ Repo(w) \in Repos
         /\ Slot(AppOf(w)) \in Slots
<1>1. RunOf(w) \in Runs /\ AppOf(w) \in Apps
  BY ConfigAssumption DEF Workers, RunOf, AppOf
<1>2. Config[AppOf(w)] \in ConfigType
  BY <1>1, ConfigAssumption
<1> QED
  BY Zenon, <1>1, <1>2 DEF ConfigType, Repo, Slot, Slots

\* The branches and the target key of an application are of their types, whatever
\* the configuration.
LEMMA BranchTypes ==
  ASSUME NEW a \in Apps
  PROVE  /\ checkOutBranch(a) \in Branches
         /\ checkOutBranch(a) \in BaseBranches
         /\ WriteBackTargetKey(a) \in Keys
         /\ \A c \in Changes : pushBranch(a, c) \in Branches
<1>1. Config[a] \in ConfigType
  BY ConfigAssumption
<1>2. checkOutBranch(a) \in Branches
  BY Zenon, <1>1, ConfigAssumption
  DEF ConfigType, checkOutBranch, configuredBranch, Unresolved, Branches
<1>3. WriteBackTargetKey(a) \in Keys
  BY Zenon, <1>1 DEF ConfigType, WriteBackTargetKey, Keys
<1>4. ASSUME NEW c \in Changes PROVE pushBranch(a, c) \in Branches
  <2>1. CASE Config[a].pr
    BY Zenon, <2>1, <1>1, <1>3, ConfigAssumption
    DEF ConfigType, pushBranch, TemplateBranchName, PRBranchTemplate, Branches
  <2>2. CASE ~Config[a].pr /\ Config[a].gitWriteBranch # None
    BY Zenon, <2>2, <1>1 DEF ConfigType, Template, pushBranch, TemplateBranchName, Branches
  <2>3. CASE ~Config[a].pr /\ Config[a].gitWriteBranch = None
    BY <2>3, <1>2 DEF pushBranch
  <2> QED BY <2>1, <2>2, <2>3
<1> QED
  BY <1>2, <1>3, <1>4 DEF BaseBranches

\* The branch of a pull request carries its target key, so it is never a base branch.
LEMMA HeadHasKey ==
  ASSUME NEW a \in Apps, NEW c \in Changes, Config[a].pr
  PROVE  pushBranch(a, c).key # None
  BY BranchTypes, NoneAssumption DEF pushBranch, TemplateBranchName, PRBranchTemplate

\* A nonempty set of positions of a sequence has a greatest element.
LEMMA GreatestPosition ==
  ASSUME NEW n \in Nat, NEW T, T \subseteq 1 .. n, T # {}
  PROVE  Max(T) \in T /\ \A k \in T : Max(T) >= k
<1> DEFINE D == {n - k : k \in T}
           R == OpToRel(<, Nat)
<1>1. D \subseteq Nat /\ D # {}
  <2>1. PICK k \in T : TRUE
    BY Zenon
  <2>2. n - k \in D
    OBVIOUS
  <2> QED BY <2>2
<1>2. IsWellFoundedOn(R, Nat)
  BY Zenon, NatLessThanWellFounded
<1>3. PICK x \in D : \A y \in D : ~(<<y, x>> \in R)
  <2> HIDE DEF D, R
  <2> QED BY <1>1, <1>2, WFMin, Zenon
<1>4. \A y \in D : ~(y < x)
  BY Zenon, <1>1, <1>3 DEF OpToRel
<1>5. PICK m \in T : x = n - m
  OBVIOUS
<1>6. \A k \in T : m >= k
  <2> TAKE k \in T
  <2>1. n - k \in D
    OBVIOUS
  <2>2. ~(n - k < n - m)
    BY <2>1, <1>4, <1>5
  <2> QED BY <2>2
<1> QED BY Zenon, <1>5, <1>6 DEF Max

\* The tag a history holds for a slot is a tag.
LEMMA TagAtType ==
  ASSUME NEW h \in Seq(Commits), NEW x
  PROVE  TagAt(h, x) \in Tags
<1>1. CASE Writes(h, x) = {}
  BY <1>1, BoundsAssumption DEF TagAt, Tags
<1>2. CASE Writes(h, x) # {}
  <2>1. Writes(h, x) \subseteq 1 .. Len(h) /\ Len(h) \in Nat
    BY DEF Writes
  <2>2. Max(Writes(h, x)) \in Writes(h, x)
    BY <2>1, <1>2, GreatestPosition
  <2>3. h[Max(Writes(h, x))] \in Commits
    BY <2>1, <2>2
  <2> QED
    BY <2>3, <1>2 DEF TagAt, Commits
<1> QED BY <1>1, <1>2

\* Extending a branch keeps the commits it had: a history is a prefix of itself
\* and of what appending or merging makes of it.
LEMMA HistoryPrefix ==
  ASSUME NEW S, NEW h \in Seq(S)
  PROVE  /\ IsPrefix(h, h)
         /\ \A e \in S : IsPrefix(h, Append(h, e))
         /\ \A t \in Seq(S) : IsPrefix(h, h \o t)
<1>1. IsPrefix(h, h)
  BY LenProperties DEF IsPrefix
<1>2. \A e \in S : IsPrefix(h, Append(h, e))
  BY LenProperties, AppendProperties DEF IsPrefix
<1>3. \A t \in Seq(S) : IsPrefix(h, h \o t)
  BY LenProperties, ConcatProperties DEF IsPrefix
<1> QED BY <1>1, <1>2, <1>3

\* The number of applications published for an image is a number.
LEMMA RecentType ==
  ASSUME TypeOK, NEW r \in Runs
  PROVE  buildRecentUpdates(r) \in
           SUBSET [image : Images, newVersion : Tags, applicationsUpdated : Nat]
<1> DEFINE changed == {w \in WorkersOf(r) : chg[w] # None}
           Same(w) == {v \in changed : chg[v].image = chg[w].image /\ chg[v].new = chg[w].new}
<1>1. IsFiniteSet(WorkersOf(r))
  <2>1. IsFiniteSet({r} \X AppsOf[r])
    BY Zenon, ConfigAssumption, FiniteAssumption, FS_Singleton, FS_Subset, FS_Product
  <2>2. WorkersOf(r) \subseteq {r} \X AppsOf[r]
    BY DEF WorkersOf, Workers, RunOf
  <2> QED BY <2>1, <2>2, FS_Subset
<1>2. ASSUME NEW w \in changed PROVE Cardinality(Same(w)) \in Nat
  <2>1. Same(w) \subseteq WorkersOf(r)
    OBVIOUS
  <2> QED BY <1>1, <2>1, FS_Subset, FS_CardinalityType
<1>3. ASSUME NEW w \in changed PROVE chg[w] \in Changes
  BY DEF TypeOK, WorkersOf
<1>4. ASSUME NEW w \in changed
      PROVE  [image |-> chg[w].image, newVersion |-> chg[w].new,
              applicationsUpdated |-> Cardinality(Same(w))]
               \in [image : Images, newVersion : Tags, applicationsUpdated : Nat]
  BY <1>2, <1>3 DEF Changes
<1>5. buildRecentUpdates(r) =
        {[image |-> chg[w].image, newVersion |-> chg[w].new,
          applicationsUpdated |-> Cardinality(Same(w))] : w \in changed}
  BY DEF buildRecentUpdates
<1> HIDE DEF Same, changed
<1> QED BY <1>4, <1>5

\* A worker that returns leaves every worker variable and the locks in their types.
LEMMA ReturnType ==
  ASSUME TypeOK, NEW w \in Workers, NEW o \in Outcomes, Return(w, o)
  PROVE  /\ pc' \in [Workers -> PCs] /\ outcome' \in [Workers -> Outcomes]
         /\ clone' \in [Workers -> Seq(Commits)] /\ created' \in [Workers -> BOOLEAN]
         /\ lock' \in [Runs -> [Repos -> Workers \cup {None}]]
         /\ \A v \in Workers : pc'[v] = IF v = w THEN "done" ELSE pc[v]
<1>1. Unlocked(w, o) \in [Repos -> Workers \cup {None}]
  BY WorkerType DEF TypeOK, Unlocked
<1>2. lock' \in [Runs -> [Repos -> Workers \cup {None}]]
  BY <1>1, WorkerType DEF TypeOK, Return
<1>3. <<>> \in Seq(Commits) /\ "done" \in PCs
  BY DEF PCs
<1> QED
  BY <1>2, <1>3 DEF TypeOK, Return, Goto

\* A worker that goes on changes only its position.
LEMMA ContinueType ==
  ASSUME TypeOK, NEW w \in Workers, NEW l \in PCs, Continue(w, l)
  PROVE  /\ pc' \in [Workers -> PCs] /\ outcome' \in [Workers -> Outcomes]
         /\ clone' \in [Workers -> Seq(Commits)] /\ created' \in [Workers -> BOOLEAN]
         /\ lock' \in [Runs -> [Repos -> Workers \cup {None}]]
         /\ \A v \in Workers : pc'[v] = IF v = w THEN l ELSE pc[v]
  BY DEF TypeOK, Continue, Goto

\* The conjuncts of TypeOK about the server's branches, and about the place of a worker.
RemoteOK ==
  /\ DOMAIN remote \subseteq Branches /\ BaseBranches \subseteq DOMAIN remote
  /\ \A b \in DOMAIN remote : remote[b] \in Seq(Commits)
PlaceOK ==
  \A w \in Workers : /\ pc[w] # "done" => phase[RunOf(w)] = "running"
                     /\ pc[w] \in Critical \cup {"lock"} => chg[w] # None
                     /\ pc[w] \in {"exists", "create"} => Config[AppOf(w)].pr
                     /\ pc[w] = "push" => ~Config[AppOf(w)].api

\* A worker of a started run that has its change may go to any place of its mode.
LEMMA GotoPlace ==
  ASSUME TypeOK, NEW w \in Workers, NEW l \in PCs, Goto(w, l), UNCHANGED phase,
         phase[RunOf(w)] = "running", chg'[w] # None,
         \A v \in Workers \ {w} : chg'[v] = chg[v],
         l \in {"exists", "create"} => Config[AppOf(w)].pr,
         l = "push" => ~Config[AppOf(w)].api
  PROVE  pc' \in [Workers -> PCs] /\ PlaceOK'
<1>1. pc \in [Workers -> PCs] /\ PlaceOK
  BY Zenon DEF TypeOK, PlaceOK
<1>2. pc' \in [Workers -> PCs] /\ pc'[w] = l /\ \A v \in Workers \ {w} : pc'[v] = pc[v]
  BY Zenon, <1>1 DEF Goto
<1>3. PlaceOK'
  <2> SUFFICES ASSUME NEW v \in Workers
               PROVE  /\ pc'[v] # "done" => phase[RunOf(v)] = "running"
                      /\ pc'[v] \in Critical \cup {"lock"} => chg'[v] # None
                      /\ pc'[v] \in {"exists", "create"} => Config[AppOf(v)].pr
                      /\ pc'[v] = "push" => ~Config[AppOf(v)].api
    BY Zenon DEF PlaceOK
  <2>1. CASE v = w
    BY Zenon, <1>2, <2>1
  <2>2. CASE v # w
    BY Zenon, <1>1, <1>2, <2>2 DEF PlaceOK
  <2> QED BY Zenon, <2>1, <2>2
<1> QED BY Zenon, <1>2, <1>3

\* A worker that goes on, and changes at most the server's branches, keeps the types.
LEMMA ContinueTypeOK ==
  ASSUME TypeOK, NEW w \in Workers, NEW l \in PCs, Continue(w, l),
         phase[RunOf(w)] = "running", chg[w] # None,
         l \in {"exists", "create"} => Config[AppOf(w)].pr,
         l = "push" => ~Config[AppOf(w)].api,
         RemoteOK', faults' \in 0 .. MaxFaults,
         UNCHANGED <<prs, phase, seen, recent, chg, prCreated, newest, live, human>>
  PROVE  TypeOK'
<1>1. pc' \in [Workers -> PCs] /\ PlaceOK'
  BY Zenon, GotoPlace DEF Continue
<1> QED
  BY Zenon, <1>1 DEF TypeOK, PlaceOK, RemoteOK, Continue

\* A count that grows by at most one, below its bound, stays in its range.
LEMMA CountType ==
  ASSUME NEW n \in Nat, NEW x \in 0 .. n, NEW y, y = x \/ (x < n /\ y = x + 1)
  PROVE  y \in 0 .. n
  OBVIOUS

\* The commits of a history after some position are a history.
LEMMA TailType ==
  ASSUME NEW h \in Seq(Commits), NEW n \in 0 .. Len(h)
  PROVE  SubSeq(h, n + 1, Len(h)) \in Seq(Commits)
  OBVIOUS

\* A branch that is made to point at a history keeps the server well typed.
LEMMA PointToType ==
  ASSUME TypeOK, NEW b \in Branches, NEW h \in Seq(Commits), remote' = PointTo(b, h)
  PROVE  /\ RemoteOK'
         /\ DOMAIN remote' = DOMAIN remote \cup {b}
         /\ remote'[b] = h
         /\ \A x \in DOMAIN remote : x # b => remote'[x] = remote[x]
<1>1. RemoteOK
  BY Zenon DEF TypeOK, RemoteOK
<1> QED
  BY <1>1 DEF RemoteOK, PointTo

\* What a busy worker works with: its change, branches and commit.
LEMMA BusyTypes ==
  ASSUME TypeOK, NEW w \in Workers, pc[w] \in Critical \cup {"lock"}
  PROVE  /\ chg[w] \in Changes /\ Push(w) \in Branches /\ Base(w) \in BaseBranches
         /\ NewCommit(w) \in Commits
         /\ Append(clone[w], NewCommit(w)) \in Seq(Commits)
         /\ Config[AppOf(w)].pr => Push(w).key # None
<1>1. chg[w] \in Changes
  BY DEF TypeOK
<1>2. AppOf(w) \in Apps /\ Slot(AppOf(w)) \in Slots
  BY WorkerType
<1>3. NewCommit(w) \in Commits
  BY <1>1, <1>2 DEF NewCommit, Commits, Changes
<1>4. clone[w] \in Seq(Commits)
  BY DEF TypeOK
<1>5. Append(clone[w], NewCommit(w)) \in Seq(Commits)
  BY <1>3, <1>4, AppendProperties
<1>6. Base(w) \in BaseBranches
  BY <1>2, BranchTypes DEF Base
<1>7. Push(w) \in Branches
  BY <1>1, <1>2, BranchTypes DEF Push
<1>8. ASSUME Config[AppOf(w)].pr PROVE Push(w).key # None
  BY <1>1, <1>2, <1>8, HeadHasKey DEF Push
<1> QED
  BY <1>1, <1>3, <1>5, <1>6, <1>7, <1>8

\* The first states are well typed.
LEMMA InitTypeOK == Init => TypeOK
<1> SUFFICES ASSUME Init PROVE TypeOK
  OBVIOUS
<1>1. BaseBranches \subseteq Branches
  BY BranchTypes DEF BaseBranches
<1>2. <<>> \in Seq(Commits) /\ 0 \in Tags /\ "done" \in PCs /\ "none" \in Outcomes
  BY BoundsAssumption DEF Tags, PCs, Outcomes
<1>3. 0 \in 0 .. MaxFaults /\ 0 \in 0 .. MaxHuman
  BY BoundsAssumption
<1> QED
  BY <1>1, <1>2, <1>3 DEF Init, TypeOK, Critical

\* The run's own steps keep the types.
LEMMA RunTypeOK ==
  ASSUME TypeOK, NEW r \in Runs, RunImageUpdater(r) \/ updateStatusAfterReconcile(r)
  PROVE  TypeOK'
<1>1. CASE RunImageUpdater(r)
  BY <1>1 DEF TypeOK, RunImageUpdater, PCs, Critical, syncState, envVars
<1>2. CASE updateStatusAfterReconcile(r)
  <2>1. recent' \in [Runs -> SUBSET [image : Images, newVersion : Tags, applicationsUpdated : Nat]]
    BY Zenon, <1>2, RecentType DEF TypeOK, updateStatusAfterReconcile
  <2>2. \A w \in Workers : pc[w] # "done" => RunOf(w) # r
    BY <1>2 DEF updateStatusAfterReconcile, Waited, WorkersOf
  <2>3. 0 \in Tags
    BY BoundsAssumption DEF Tags
  <2> QED
    <3>1. /\ phase' \in [Runs -> {"idle", "running"}] /\ seen' \in [Runs -> [Apps -> Tags]]
          /\ lock' \in [Runs -> [Repos -> Workers \cup {None}]]
          /\ prCreated' \in [Runs -> SUBSET Keys]
      BY Zenon, <1>2, <2>3 DEF TypeOK, updateStatusAfterReconcile
    <3>2. chg' \in [Workers -> Changes \cup {None}] /\ outcome' \in [Workers -> Outcomes]
      <4>1. "none" \in Outcomes
        BY DEF Outcomes
      <4> QED BY Zenon, <1>2, <4>1 DEF TypeOK, updateStatusAfterReconcile
    <3>3. \A w \in Workers : RunOf(w) # r => phase'[RunOf(w)] = phase[RunOf(w)] /\ chg'[w] = chg[w]
      BY Zenon, <1>2, WorkerType DEF TypeOK, updateStatusAfterReconcile
    <3>4. UNCHANGED <<remote, prs, pc, clone, created, newest, live, human, faults>>
      BY Zenon, <1>2 DEF updateStatusAfterReconcile, envVars
    <3>5. PlaceOK'
      <4>1. \A w \in Workers : pc[w] = "done" \/ RunOf(w) # r
        BY Zenon, <2>2
      <4>2. "done" \notin Critical \cup {"lock", "exists", "create", "push"}
        BY DEF Critical
      <4> QED BY Zenon, <3>3, <3>4, <4>1, <4>2 DEF TypeOK, PlaceOK
    <3> QED BY Zenon, <2>1, <3>1, <3>2, <3>4, <3>5 DEF TypeOK, PlaceOK
<1> QED BY <1>1, <1>2

\* A crash keeps the types.
LEMMA CrashTypeOK ==
  ASSUME TypeOK, Crash
  PROVE  TypeOK'
<1>1. <<>> \in Seq(Commits) /\ 0 \in Tags /\ "done" \in PCs /\ "none" \in Outcomes
  BY BoundsAssumption DEF Tags, PCs, Outcomes
<1>2. faults' \in 0 .. MaxFaults
  BY BoundsAssumption DEF TypeOK, Crash
<1> QED
  BY <1>1, <1>2 DEF Crash, TypeOK, Critical, envVars

\* The steps of a worker before its critical section keep the types.
LEMMA UpdateTypeOK ==
  ASSUME TypeOK, NEW w \in Workers,
         UpdateApplication(w) \/ UpdateApplicationFails(w) \/ commitChangesLocked(w)
  PROVE  TypeOK'
<1> USE DEF runVars, envVars
<1>0. "failed" \in Outcomes /\ "current" \in Outcomes /\ "dryrun" \in Outcomes /\ "deduped" \in Outcomes
  BY DEF Outcomes, Counted
<1>1. CASE UpdateApplicationFails(w)
  <2>1. Return(w, "failed") /\ faults' \in 0 .. MaxFaults
    BY <1>1, BoundsAssumption DEF TypeOK, UpdateApplicationFails
  <2> QED
    BY Zenon, <1>0, <1>1, <2>1, ReturnType DEF TypeOK, UpdateApplicationFails, Critical
<1>2. CASE UpdateApplication(w)
  <2> DEFINE c == [image |-> Config[AppOf(w)].image, old |-> seen[RunOf(w)][AppOf(w)],
                   new |-> newest[Config[AppOf(w)].image]]
  <2>1. c \in Changes /\ c # None
    <3>1. RunOf(w) \in Runs /\ AppOf(w) \in Apps /\ Config[AppOf(w)].image \in Images
      BY Zenon, WorkerType DEF ConfigType
    <3>2. c \in Changes
      <4>1. seen[RunOf(w)][AppOf(w)] \in Tags /\ newest[Config[AppOf(w)].image] \in Tags
        BY Zenon, <3>1 DEF TypeOK
      <4> QED BY <3>1, <4>1 DEF Changes
    <3> QED BY <3>2, NoneAssumption
  <2>2. phase[RunOf(w)] = "running"
    BY Zenon, <1>2 DEF TypeOK, UpdateApplication
  <2>3. CASE Return(w, "current") /\ UNCHANGED chg
    BY Zenon, <1>0, <1>2, <2>3, ReturnType DEF TypeOK, UpdateApplication, Critical
  <2>4. CASE chg' = [chg EXCEPT ![w] = c] /\ Return(w, "dryrun")
    BY Zenon, <1>0, <1>2, <2>1, <2>4, ReturnType DEF TypeOK, UpdateApplication, Critical
  <2>5. CASE chg' = [chg EXCEPT ![w] = c] /\ Continue(w, "lock")
    <3>1. "lock" \in PCs
      BY DEF PCs
    <3>2. /\ chg' \in [Workers -> Changes \cup {None}] /\ chg'[w] # None
          /\ \A v \in Workers \ {w} : chg'[v] = chg[v]
      BY Zenon, <2>1, <2>5 DEF TypeOK
    <3>3. pc' \in [Workers -> PCs] /\ PlaceOK'
      BY Zenon, <1>2, <2>2, <2>5, <3>1, <3>2, GotoPlace DEF Continue, UpdateApplication
    <3> QED
      BY Zenon, <1>2, <2>5, <3>1, <3>2, <3>3 DEF TypeOK, PlaceOK, Continue, UpdateApplication
  <2> QED
    BY Zenon, <1>2, <2>3, <2>4, <2>5 DEF UpdateApplication, Commit
<1>3. CASE commitChangesLocked(w)
  <2>1. CASE AlreadyMarked(w)
    BY Zenon, <1>0, <1>3, <2>1, ReturnType DEF TypeOK, commitChangesLocked, Critical
  <2>2. CASE ~AlreadyMarked(w)
    <3>1. Marked(w) \in SUBSET Keys
      BY Zenon, WorkerType, BranchTypes DEF TypeOK, Marked
    <3>2. prCreated' \in [Runs -> SUBSET Keys]
      BY Zenon, <1>3, <2>2, <3>1, WorkerType DEF TypeOK, commitChangesLocked
    <3>3. lock' \in [Runs -> [Repos -> Workers \cup {None}]]
      <4>1. lock' = [lock EXCEPT ![RunOf(w)] = [lock[RunOf(w)] EXCEPT ![Repo(w)] = w]]
        BY <1>3, <2>2 DEF commitChangesLocked
      <4>2. lock[RunOf(w)] \in [Repos -> Workers \cup {None}]
        BY WorkerType DEF TypeOK
      <4> QED BY <4>1, <4>2, WorkerType DEF TypeOK
    <3>4. pc[w] = "lock" /\ phase[RunOf(w)] = "running"
      BY <1>3 DEF TypeOK, commitChangesLocked
    <3>5. pc' = [pc EXCEPT ![w] = IF Config[AppOf(w)].pr THEN "exists" ELSE "fetch"]
      BY <1>3, <2>2 DEF commitChangesLocked, Goto
    <3> QED
      BY Zenon, <1>3, <2>2, <3>2, <3>3, <3>4, <3>5
      DEF TypeOK, commitChangesLocked, Critical, PCs
  <2> QED BY <2>1, <2>2
<1> QED BY <1>1, <1>2, <1>3

\* The steps of the critical section that leave the server alone keep the types.
LEMMA PrepareTypeOK ==
  ASSUME TypeOK, NEW w \in Workers,
         skipIfPRExists(w) \/ ShallowFetch(w) \/ Branch(w) \/ write(w) \/ CommitFails(w)
  PROVE  TypeOK'
<1> USE DEF runVars, envVars, syncState
<1>0. /\ "failed" \in Outcomes /\ "updated" \in Outcomes
      /\ {"fetch", "fetchBase", "write", "push", "ref", "commit", "create"} \subseteq PCs
  BY DEF Outcomes, Counted, PCs, Critical
<1>1. CASE CommitFails(w)
  <2>1. Return(w, "failed") /\ faults' \in 0 .. MaxFaults
    BY <1>1, BoundsAssumption DEF TypeOK, CommitFails
  <2> QED
    BY Zenon, <1>0, <1>1, <2>1, ReturnType DEF TypeOK, CommitFails, Critical
<1>2. CASE skipIfPRExists(w)
  <2>1. phase[RunOf(w)] = "running" /\ chg[w] # None
    BY Zenon, <1>2 DEF TypeOK, skipIfPRExists, Critical
  <2>2. faults' \in 0 .. MaxFaults
    <3>1. faults \in 0 .. MaxFaults /\ (faults' = faults \/ (faults < MaxFaults /\ faults' = faults + 1))
      BY Zenon, <1>2 DEF TypeOK, skipIfPRExists
    <3> QED BY Zenon, <3>1, CountType, BoundsAssumption
  <2>3. CASE Return(w, "updated")
    BY Zenon, <1>0, <1>2, <2>2, <2>3, ReturnType DEF TypeOK, skipIfPRExists, Critical
  <2>4. CASE Continue(w, "fetch")
    BY Zenon, <1>0, <1>2, <2>1, <2>2, <2>4, ContinueTypeOK DEF TypeOK, RemoteOK, skipIfPRExists
  <2> QED
    BY <1>2, <2>3, <2>4 DEF skipIfPRExists
<1>3. CASE ShallowFetch(w)
  <2>1. phase[RunOf(w)] = "running" /\ chg[w] # None
    BY Zenon, <1>3 DEF TypeOK, ShallowFetch, Critical
  <2>2. faults' \in 0 .. MaxFaults
    <3>1. faults \in 0 .. MaxFaults /\ (faults' = faults \/ (faults < MaxFaults /\ faults' = faults + 1))
      BY Zenon, <1>3 DEF TypeOK, ShallowFetch
    <3> QED BY Zenon, <3>1, CountType, BoundsAssumption
  <2>3. clone' \in [Workers -> Seq(Commits)]
    BY Zenon, <1>3 DEF TypeOK, ShallowFetch, Exists
  <2>4. (Goto(w, "write") \/ Goto(w, "fetchBase")) /\ UNCHANGED <<phase, chg>>
    BY Zenon, <1>3 DEF ShallowFetch
  <2>5. pc' \in [Workers -> PCs] /\ PlaceOK'
    BY Zenon, <1>0, <2>1, <2>4, GotoPlace
  <2> QED
    BY Zenon, <1>3, <2>2, <2>3, <2>5 DEF TypeOK, PlaceOK, ShallowFetch
<1>4. CASE Branch(w)
  <2>1. phase[RunOf(w)] = "running" /\ chg[w] # None /\ pc[w] \in Critical
    BY <1>4 DEF TypeOK, Branch, Critical
  <2>2. clone' \in [Workers -> Seq(Commits)]
    BY Zenon, <1>4, <2>1, BusyTypes DEF TypeOK, Branch
  <2> QED
    BY Zenon, <1>0, <1>4, <2>1, <2>2 DEF TypeOK, Branch, Goto, Critical
<1>5. CASE write(w)
  <2>1. phase[RunOf(w)] = "running" /\ chg[w] # None
    BY Zenon, <1>5 DEF TypeOK, write, Critical
  <2>2. CASE Return(w, "updated")
    BY Zenon, <1>0, <1>5, <2>2, ReturnType DEF TypeOK, write, Critical
  <2>3. CASE Config[AppOf(w)].pr /\ Continue(w, "create")
    BY Zenon, <1>0, <1>5, <2>1, <2>3, ContinueTypeOK DEF TypeOK, RemoteOK, write
  <2>4. CASE ~Config[AppOf(w)].api /\ Continue(w, "push")
    BY Zenon, <1>0, <1>5, <2>1, <2>4, ContinueTypeOK DEF TypeOK, RemoteOK, write
  <2>5. CASE Continue(w, "ref") \/ Continue(w, "commit")
    BY Zenon, <1>0, <1>5, <2>1, <2>5, ContinueTypeOK DEF TypeOK, RemoteOK, write
  <2> QED
    BY Zenon, <1>5, <2>2, <2>3, <2>4, <2>5 DEF write, Skipped
<1> QED BY <1>1, <1>2, <1>3, <1>4, <1>5

\* A commit that arrived, by push or through the API, keeps the types.
LEMMA CommitTypeOK ==
  ASSUME TypeOK, NEW w \in Workers, CommitAndPush(w) \/ createCommitOnBranch(w)
  PROVE  TypeOK'
<1> DEFINE Arrives == remote' = PointTo(Push(w), Append(clone[w], NewCommit(w)))
<1>0. /\ "failed" \in Outcomes /\ "updated" \in Outcomes /\ "create" \in PCs
      /\ pc[w] \in Critical \ {"create"}
  BY Zenon DEF Outcomes, Counted, PCs, Critical, CommitAndPush, createCommitOnBranch
<1>1. /\ phase[RunOf(w)] = "running" /\ chg[w] # None
      /\ Push(w) \in Branches /\ Append(clone[w], NewCommit(w)) \in Seq(Commits)
  BY Zenon, <1>0, BusyTypes DEF TypeOK, Critical
<1>2. /\ Arrives \/ UNCHANGED remote
      /\ Return(w, "failed") \/ Return(w, "updated")
         \/ (Config[AppOf(w)].pr /\ Continue(w, "create"))
      /\ UNCHANGED <<prs, phase, seen, recent, chg, prCreated, newest, live, human>>
      /\ faults' \in 0 .. MaxFaults
  <2>1. /\ Arrives \/ UNCHANGED remote
        /\ Return(w, "failed") \/ Return(w, "updated")
           \/ (Config[AppOf(w)].pr /\ Continue(w, "create"))
        /\ UNCHANGED <<prs, phase, seen, recent, chg, prCreated, newest, live, human>>
    BY Zenon DEF CommitAndPush, createCommitOnBranch, Committed, runVars, envVars
  <2>2. faults \in 0 .. MaxFaults /\ (faults' = faults \/ (faults < MaxFaults /\ faults' = faults + 1))
    BY Zenon DEF TypeOK, CommitAndPush, createCommitOnBranch
  <2> QED BY Zenon, <2>1, <2>2, CountType, BoundsAssumption
<1>3. RemoteOK'
  BY Zenon, <1>1, <1>2, PointToType DEF TypeOK, RemoteOK
<1>4. CASE Return(w, "failed") \/ Return(w, "updated")
  BY Zenon, <1>0, <1>2, <1>3, <1>4, ReturnType DEF TypeOK, RemoteOK, Critical
<1>5. CASE Config[AppOf(w)].pr /\ Continue(w, "create")
  BY Zenon, <1>0, <1>1, <1>2, <1>3, <1>5, ContinueTypeOK
<1> QED BY <1>2, <1>4, <1>5

\* A branch created through the API keeps the types.
LEMMA CreateRefTypeOK ==
  ASSUME TypeOK, NEW w \in Workers, CreateRef(w)
  PROVE  TypeOK'
<1>0. "commit" \in PCs /\ pc[w] \in Critical
  BY Zenon DEF PCs, Critical, CreateRef
<1>1. /\ phase[RunOf(w)] = "running" /\ chg[w] # None
      /\ Push(w) \in Branches /\ clone[w] \in Seq(Commits)
  BY Zenon, <1>0, BusyTypes DEF TypeOK, Critical
<1>2. remote' = PointTo(Push(w), clone[w]) \/ UNCHANGED remote
  BY Zenon DEF CreateRef
<1>3. RemoteOK'
  BY Zenon, <1>1, <1>2, PointToType DEF TypeOK, RemoteOK
<1> QED
  BY Zenon, <1>0, <1>1, <1>3, ContinueTypeOK DEF TypeOK, CreateRef, runVars, envVars

\* A pull request that is opened keeps the types.
LEMMA CreateTypeOK ==
  ASSUME TypeOK, NEW w \in Workers, create(w)
  PROVE  TypeOK'
<1>0. "failed" \in Outcomes /\ "updated" \in Outcomes /\ pc[w] \in Critical
  BY DEF Outcomes, Counted, Critical, create
<1>1. Config[AppOf(w)].pr
  BY Zenon DEF TypeOK, create
<1>2. PullRequest(w) \in [head : {b \in Branches : b.key # None}, base : BaseBranches]
  <2>1. Push(w) \in {b \in Branches : b.key # None} /\ Base(w) \in BaseBranches
    BY Zenon, <1>0, <1>1, BusyTypes
  <2> QED BY <2>1 DEF PullRequest
<1>3. prs' = prs \/ prs' = prs \cup {PullRequest(w)}
  BY Zenon DEF create
<1>4. prs' \subseteq [head : {b \in Branches : b.key # None}, base : BaseBranches]
  BY <1>2, <1>3 DEF TypeOK
<1>5. faults' \in 0 .. MaxFaults
  <2>1. faults \in 0 .. MaxFaults /\ (faults' = faults \/ (faults < MaxFaults /\ faults' = faults + 1))
    BY Zenon DEF TypeOK, create
  <2> QED BY Zenon, <2>1, CountType, BoundsAssumption
<1>6. Return(w, "failed") \/ Return(w, "updated")
  BY DEF create
<1> QED
  BY Zenon, <1>0, <1>4, <1>5, <1>6, ReturnType DEF TypeOK, create, Critical, runVars, envVars

\* The registry, Argo CD and the people who push or merge keep the types.
LEMMA EnvironmentTypeOK ==
  ASSUME TypeOK,
         \/ \E i \in Images : Release(i)
         \/ \E a \in Apps : Sync(a)
         \/ \E b \in BaseBranches : HumanPush(b)
         \/ \E pr \in prs : Merge(pr)
  PROVE  TypeOK'
<1> USE DEF runVars, workerVars, syncState, envVars
<1>1. ASSUME NEW i \in Images, Release(i) PROVE TypeOK'
  <2>1. newest' \in [Images -> Tags]
    <3>1. newest[i] + 1 \in Tags
      <4>1. newest[i] \in Tags /\ newest[i] < MaxTag
        BY Zenon, <1>1 DEF TypeOK, Release
      <4> QED BY <4>1, BoundsAssumption DEF Tags
    <3> QED BY Zenon, <1>1, <3>1 DEF TypeOK, Release
  <2> QED BY Zenon, <1>1, <2>1 DEF TypeOK, Release
<1>2. ASSUME NEW a \in Apps, Sync(a) PROVE TypeOK'
  <2>1. remote[checkOutBranch(a)] \in Seq(Commits)
    BY Zenon, BranchTypes DEF TypeOK
  <2>2. live' \in [Apps -> Tags]
    BY Zenon, <1>2, <2>1, TagAtType DEF TypeOK, Sync
  <2> QED BY Zenon, <1>2, <2>2 DEF TypeOK, Sync
<1>3. ASSUME NEW b \in BaseBranches, HumanPush(b) PROVE TypeOK'
  <2> DEFINE e == [by |-> None, slot |-> None, tag |-> 0]
  <2>1. e \in Commits /\ b \in Branches /\ b \in DOMAIN remote
    BY BoundsAssumption DEF TypeOK, Commits, Tags
  <2>2. Append(remote[b], e) \in Seq(Commits)
    BY Zenon, <2>1, AppendProperties DEF TypeOK
  <2>3. RemoteOK'
    BY Zenon, <1>3, <2>1, <2>2, PointToType DEF HumanPush
  <2>4. human' \in 0 .. MaxHuman
    <3>1. human \in 0 .. MaxHuman /\ human < MaxHuman /\ human' = human + 1
      BY Zenon, <1>3 DEF TypeOK, HumanPush
    <3> QED BY Zenon, <3>1, CountType, BoundsAssumption
  <2> QED BY Zenon, <1>3, <2>3, <2>4 DEF TypeOK, RemoteOK, HumanPush
<1>4. ASSUME NEW pr \in prs, Merge(pr) PROVE TypeOK'
  <2>1. /\ pr.head \in Branches /\ pr.head.key # None /\ pr.base \in BaseBranches
        /\ pr.head \in DOMAIN remote /\ pr.base \in DOMAIN remote
    BY Zenon, <1>4 DEF TypeOK, Merge, Exists
  <2>2. pr.head \notin BaseBranches
    <3>1. \A a \in Apps : checkOutBranch(a).key = None
      BY DEF checkOutBranch
    <3> QED BY Zenon, <2>1, <3>1 DEF BaseBranches
  <2>3. remote[pr.head] \in Seq(Commits) /\ remote[pr.base] \in Seq(Commits)
    BY <2>1 DEF TypeOK
  <2>4. PICK n \in 0 .. Len(remote[pr.head]) :
          LET merged == remote[pr.base] \o SubSeq(remote[pr.head], n + 1, Len(remote[pr.head])) IN
          \/ remote' = PointTo(pr.base, merged)
          \/ remote' = [b \in DOMAIN remote \ {pr.head} |->
                          IF b = pr.base THEN merged ELSE remote[b]]
    BY Zenon, <1>4 DEF Merge
  <2> DEFINE merged == remote[pr.base] \o SubSeq(remote[pr.head], n + 1, Len(remote[pr.head]))
  <2>5. merged \in Seq(Commits)
    <3>1. SubSeq(remote[pr.head], n + 1, Len(remote[pr.head])) \in Seq(Commits)
      BY Zenon, <2>3, <2>4, TailType
    <3> QED BY <2>3, <3>1, ConcatProperties
  <2> HIDE DEF merged
  <2>6. RemoteOK'
    <3>1. CASE remote' = PointTo(pr.base, merged)
      BY Zenon, <2>1, <2>5, <3>1, PointToType DEF TypeOK
    <3>2. CASE remote' = [b \in DOMAIN remote \ {pr.head} |->
                            IF b = pr.base THEN merged ELSE remote[b]]
      BY Zenon, <2>1, <2>2, <2>5, <3>2 DEF TypeOK, RemoteOK
    <3> QED BY Zenon, <2>4, <3>1, <3>2 DEF merged
  <2> QED BY Zenon, <1>4, <2>6 DEF TypeOK, RemoteOK, Merge
<1> QED BY <1>1, <1>2, <1>3, <1>4

\* A step that changes nothing keeps the types.
LEMMA StutterTypeOK ==
  ASSUME TypeOK, UNCHANGED vars
  PROVE  TypeOK'
  BY Zenon DEF TypeOK, vars, runVars, workerVars, syncState, envVars

\* Every variable of the write-back has its type in every reachable state, for
\* every number of runs, applications, repositories and releases.
THEOREM TypeCorrect == Spec => []TypeOK
<1>1. TypeOK /\ [Next]_vars => TypeOK'
  <2> SUFFICES ASSUME TypeOK, [Next]_vars PROVE TypeOK'
    OBVIOUS
  <2>1. ASSUME NEW w \in Workers, WorkerStep(w) PROVE TypeOK'
    BY <2>1, UpdateTypeOK, PrepareTypeOK, CommitTypeOK, CreateRefTypeOK, CreateTypeOK
    DEF WorkerStep
  <2> QED
    BY <2>1, RunTypeOK, CrashTypeOK, EnvironmentTypeOK, StutterTypeOK DEF Next
<1> QED
  BY <1>1, InitTypeOK, PTL DEF Spec

-----------------------------------------------------------------------------
(* The repository lock and the marks of a run. *)

\* A worker in its critical section holds the lock of its repository.
LockHeld == \A w \in Workers : InCritical(w) => lock[RunOf(w)][Repo(w)] = w

\* Worker w got past MarkPRCreated for its target.
PastMark(w) == Config[AppOf(w)].pr /\ (InCritical(w) \/ outcome[w] = "updated")

\* Such a worker has its target key in the run's set.
KeyMarked ==
  \A w \in Workers : PastMark(w) => WriteBackTargetKey(AppOf(w)) \in prCreated[RunOf(w)]

\* The three ways a step of worker w treats lock and marks.
Leaves(w) ==
  \E o \in Outcomes : Return(w, o) /\ UNCHANGED prCreated /\ (o = "updated" => InCritical(w))
Enters(w) ==
  /\ LockFree(w) /\ ~AlreadyMarked(w)
  /\ lock' = [lock EXCEPT ![RunOf(w)][Repo(w)] = w]
  /\ prCreated' = [prCreated EXCEPT ![RunOf(w)] = Marked(w)]
  /\ \E l \in PCs : Goto(w, l)
  /\ UNCHANGED outcome
Moves(w) ==
  /\ \E l \in PCs : Goto(w, l) /\ (l \in Critical => InCritical(w))
  /\ UNCHANGED <<lock, prCreated, outcome>>

\* Every step of a worker returns, enters the critical section or moves inside.
LEMMA StepShape ==
  ASSUME TypeOK, NEW w \in Workers, WorkerStep(w)
  PROVE  Leaves(w) \/ Enters(w) \/ Moves(w)
<1> USE DEF runVars, envVars, syncState
<1>0. Counted \cup {"none", "current", "failed"} = Outcomes /\ {"updated", "deduped", "dryrun"} = Counted
  BY DEF Outcomes, Counted
<1>1. CASE UpdateApplication(w)
  <2>1. UNCHANGED prCreated /\ (Return(w, "current") \/ Return(w, "dryrun") \/ Continue(w, "lock"))
    BY Zenon, <1>1 DEF UpdateApplication, Commit
  <2>2. "lock" \in PCs \ Critical /\ {"current", "dryrun"} \subseteq Outcomes \ {"updated"}
    BY <1>0 DEF PCs, Critical
  <2> QED BY Zenon, <2>1, <2>2 DEF Leaves, Moves, Continue
<1>2. CASE UpdateApplicationFails(w) \/ CommitFails(w)
  BY <1>0, <1>2 DEF UpdateApplicationFails, CommitFails, Leaves
<1>3. CASE commitChangesLocked(w)
  BY <1>0, <1>3 DEF commitChangesLocked, Leaves, Enters, PCs, Critical
<1>4. CASE skipIfPRExists(w)
  BY <1>0, <1>4 DEF skipIfPRExists, Leaves, Moves, Continue, PCs, Critical, InCritical
<1>5. CASE ShallowFetch(w) \/ Branch(w)
  BY Zenon, <1>5 DEF ShallowFetch, Branch, Moves, PCs, Critical, InCritical
<1>6. CASE write(w)
  BY Zenon, <1>0, <1>6 DEF write, Skipped, Leaves, Moves, Continue, PCs, Critical, InCritical
<1>7. CASE CommitAndPush(w) \/ createCommitOnBranch(w)
  BY Zenon, <1>0, <1>7
  DEF CommitAndPush, createCommitOnBranch, Committed, Leaves, Moves, Continue, PCs, Critical, InCritical
<1>8. CASE CreateRef(w)
  BY Zenon, <1>8 DEF CreateRef, Moves, Continue, PCs, Critical, InCritical
<1>9. CASE create(w)
  BY <1>0, <1>9 DEF create, Leaves, Critical, InCritical
<1> QED
  BY <1>1, <1>2, <1>3, <1>4, <1>5, <1>6, <1>7, <1>8, <1>9 DEF WorkerStep

\* A step of a worker keeps the lock with the workers in their critical sections.
LEMMA WorkerLockHeld ==
  ASSUME TypeOK, LockHeld, NEW w \in Workers, WorkerStep(w)
  PROVE  LockHeld'
<1> SUFFICES ASSUME NEW v \in Workers, InCritical(v)' PROVE lock'[RunOf(v)][Repo(v)] = v
  BY Zenon DEF LockHeld, Repo
<1>0. /\ RunOf(v) \in Runs /\ Repo(v) \in Repos /\ RunOf(w) \in Runs /\ Repo(w) \in Repos
      /\ lock \in [Runs -> [Repos -> Workers \cup {None}]]
      /\ pc \in [Workers -> PCs]
      /\ v # None
  BY Zenon, WorkerType, NoneAssumption DEF TypeOK
<1>1. CASE Leaves(w)
  <2>1. pc'[w] = "done" /\ (v # w => pc'[v] = pc[v])
    BY <1>0, <1>1 DEF Leaves, Return, Goto
  <2>2. v # w /\ InCritical(v)
    BY <2>1 DEF InCritical, Critical
  <2>3. lock[RunOf(v)][Repo(v)] = v
    BY <2>2 DEF LockHeld
  <2>4. PICK o : lock' = [lock EXCEPT ![RunOf(w)] = Unlocked(w, o)]
    BY Zenon, <1>1 DEF Leaves, Return
  <2> QED
    BY <1>0, <2>2, <2>3, <2>4 DEF Unlocked
<1>2. CASE Enters(w)
  <2>1. lock[RunOf(w)][Repo(w)] = None
    BY <1>2 DEF Enters, LockFree
  <2>2. lock' = [lock EXCEPT ![RunOf(w)] = [lock[RunOf(w)] EXCEPT ![Repo(w)] = w]]
    BY <1>2 DEF Enters
  <2>3. lock[RunOf(w)] \in [Repos -> Workers \cup {None}]
    BY <1>0
  <2>4. CASE v = w
    BY <1>0, <2>2, <2>3, <2>4
  <2>5. CASE v # w
    <3>1. InCritical(v)
      BY <1>0, <1>2, <2>5 DEF Enters, Goto, InCritical
    <3>2. lock[RunOf(v)][Repo(v)] = v
      BY <3>1 DEF LockHeld
    <3> QED BY <1>0, <2>1, <2>2, <2>3, <3>2
  <2> QED BY <2>4, <2>5
<1>3. CASE Moves(w)
  BY <1>0, <1>3 DEF Moves, Goto, InCritical, LockHeld
<1> QED BY <1>1, <1>2, <1>3, StepShape

\* The workers in their critical sections hold their locks in every reachable state.
LEMMA LocksHeld == Spec => []LockHeld
<1>1. Init => LockHeld
  BY DEF Init, LockHeld, InCritical, Critical
<1>2. TypeOK /\ LockHeld /\ [Next]_vars => LockHeld'
  <2> SUFFICES ASSUME TypeOK, LockHeld, [Next]_vars PROVE LockHeld'
    OBVIOUS
  <2> USE DEF runVars, workerVars, syncState, envVars
  <2>1. ASSUME NEW w \in Workers, WorkerStep(w) PROVE LockHeld'
    BY <2>1, WorkerLockHeld
  <2>2. ASSUME NEW r \in Runs, RunImageUpdater(r) PROVE LockHeld'
    BY Zenon, <2>2 DEF RunImageUpdater, LockHeld, InCritical, Critical, Repo
  <2>3. ASSUME NEW r \in Runs, updateStatusAfterReconcile(r) PROVE LockHeld'
    <3>1. \A w \in Workers : InCritical(w)' => InCritical(w) /\ RunOf(w) # r
      BY Zenon, <2>3 DEF updateStatusAfterReconcile, Waited, WorkersOf, InCritical, Critical
    <3>2. \A x \in Runs \ {r} : lock'[x] = lock[x]
      BY Zenon, <2>3 DEF updateStatusAfterReconcile, TypeOK
    <3> QED BY Zenon, <3>1, <3>2, WorkerType DEF LockHeld, Repo
  <2>4. ASSUME Crash PROVE LockHeld'
    BY Zenon, <2>4 DEF Crash, LockHeld, InCritical, Critical
  <2>5. CASE UNCHANGED <<pc, lock>>
    BY <2>5 DEF LockHeld, InCritical, Repo
  <2> QED
    BY Zenon, <2>1, <2>2, <2>4, <2>5, <2>3
    DEF Next, Release, Sync, HumanPush, Merge, vars
<1> QED
  BY <1>1, <1>2, TypeCorrect, PTL DEF Spec

\* In every behaviour the lock of a SyncIterationState excludes: no two workers
\* of one run are in the critical section of one repository.
THEOREM Exclusion == Spec => []RepoExclusive
<1>1. LockHeld => RepoExclusive
  BY DEF LockHeld, RepoExclusive
<1> QED
  BY <1>1, LocksHeld, PTL

\* A step of a worker marks the key of every worker past the mark, and lets a
\* second worker past it for no key.
LEMMA WorkerMarks ==
  ASSUME TypeOK, KeyMarked, OnePerTarget, NEW w \in Workers, WorkerStep(w)
  PROVE  KeyMarked' /\ OnePerTarget'
<1>0. \A v \in Workers : RunOf(v) \in Runs
  BY WorkerType
<1>1. \A v \in Workers \ {w} : PastMark(v)' => PastMark(v)
  <2>1. \A v \in Workers \ {w} : pc'[v] = pc[v] /\ outcome'[v] = outcome[v]
    <3>1. CASE Leaves(w)
      BY <3>1 DEF TypeOK, Leaves, Return, Goto
    <3>2. CASE Enters(w) \/ Moves(w)
      BY Zenon, <3>2 DEF TypeOK, Enters, Moves, Goto
    <3> QED BY Zenon, <3>1, <3>2, StepShape
  <2> QED BY Zenon, <2>1 DEF PastMark, InCritical
<1>2. CASE Leaves(w) \/ Moves(w)
  <2>1. PastMark(w)' => PastMark(w)
    <3>1. pc \in [Workers -> PCs] /\ outcome \in [Workers -> Outcomes] /\ "done" \notin Critical
      BY Zenon DEF TypeOK, Critical
    <3>2. CASE Leaves(w)
      BY Zenon, <3>1, <3>2 DEF PastMark, InCritical, Leaves, Return, Goto
    <3>3. CASE Moves(w)
      BY Zenon, <3>1, <3>3 DEF PastMark, InCritical, Moves, Goto
    <3> QED BY Zenon, <1>2, <3>2, <3>3
  <2>2. UNCHANGED prCreated
    BY <1>2 DEF Leaves, Moves
  <2>3. \A v \in Workers : PastMark(v)' => PastMark(v)
    BY <1>1, <2>1
  <2> QED
    BY Zenon, <2>2, <2>3 DEF KeyMarked, OnePerTarget, PastMark
<1>3. CASE Enters(w)
  <2>1. prCreated' = [prCreated EXCEPT ![RunOf(w)] = Marked(w)]
    BY <1>3 DEF Enters
  <2>2. \A r \in Runs : prCreated[r] \subseteq prCreated'[r]
    BY Zenon, <1>0, <2>1 DEF TypeOK, Marked
  <2>3. ASSUME Config[AppOf(w)].pr
        PROVE  /\ WriteBackTargetKey(AppOf(w)) \in prCreated'[RunOf(w)]
               /\ WriteBackTargetKey(AppOf(w)) \notin prCreated[RunOf(w)]
    <3>1. prCreated'[RunOf(w)] = Marked(w)
      BY Zenon, <1>0, <2>1 DEF TypeOK
    <3>2. Marked(w) = prCreated[RunOf(w)] \cup {WriteBackTargetKey(AppOf(w))}
      BY Zenon, <2>3 DEF Marked
    <3>3. WriteBackTargetKey(AppOf(w)) \notin prCreated[RunOf(w)]
      BY Zenon, <1>3, <2>3 DEF Enters, AlreadyMarked
    <3> QED BY <3>1, <3>2, <3>3
  <2>4. KeyMarked'
    BY Zenon, <1>0, <1>1, <2>2, <2>3 DEF KeyMarked, PastMark
  <2>5. \A v \in Workers \ {w} :
          PastMark(v)' /\ RunOf(v) = RunOf(w) /\ Config[AppOf(w)].pr
          => WriteBackTargetKey(AppOf(v)) # WriteBackTargetKey(AppOf(w))
    BY Zenon, <1>1, <2>3 DEF KeyMarked
  <2>6. OnePerTarget'
    BY Zenon, <1>1, <2>5 DEF OnePerTarget, PastMark
  <2> QED BY <2>4, <2>6
<1> QED BY <1>2, <1>3, StepShape

\* In every behaviour MarkPRCreated lets at most one worker of a run through for
\* a write-back target: a run opens at most one pull request per target.
THEOREM OneWorkerPerTarget == Spec => []OnePerTarget
<1>1. Init => KeyMarked /\ OnePerTarget
  BY DEF Init, KeyMarked, OnePerTarget, PastMark, InCritical, Critical
<1>2. TypeOK /\ KeyMarked /\ OnePerTarget /\ [Next]_vars => (KeyMarked /\ OnePerTarget)'
  <2> SUFFICES ASSUME TypeOK, KeyMarked, OnePerTarget, [Next]_vars
               PROVE  KeyMarked' /\ OnePerTarget'
    OBVIOUS
  <2> USE DEF runVars, workerVars, syncState, envVars
  <2>1. ASSUME NEW w \in Workers, WorkerStep(w) PROVE KeyMarked' /\ OnePerTarget'
    BY <2>1, WorkerMarks
  <2>2. ASSUME NEW r \in Runs, RunImageUpdater(r) PROVE KeyMarked' /\ OnePerTarget'
    <3>1. UNCHANGED <<outcome, prCreated>> /\ \A w \in Workers : InCritical(w)' => InCritical(w)
      BY <2>2 DEF RunImageUpdater, InCritical, Critical
    <3>2. \A w \in Workers : PastMark(w)' => PastMark(w)
      BY <3>1 DEF PastMark
    <3> QED BY Zenon, <3>1, <3>2 DEF KeyMarked, OnePerTarget, PastMark
  <2>3. ASSUME NEW r \in Runs, updateStatusAfterReconcile(r) PROVE KeyMarked' /\ OnePerTarget'
    <3>1. \A w \in Workers : PastMark(w)' => PastMark(w) /\ RunOf(w) # r
      BY Zenon, <2>3 DEF updateStatusAfterReconcile, PastMark, InCritical, Critical, Waited, WorkersOf
    <3>2. \A x \in Runs \ {r} : prCreated'[x] = prCreated[x]
      BY Zenon, <2>3 DEF updateStatusAfterReconcile, TypeOK
    <3> QED BY Zenon, <3>1, <3>2, WorkerType DEF KeyMarked, OnePerTarget, PastMark
  <2>4. ASSUME Crash PROVE KeyMarked' /\ OnePerTarget'
    BY Zenon, <2>4 DEF Crash, KeyMarked, OnePerTarget, PastMark, InCritical, Critical
  <2>5. CASE UNCHANGED <<pc, outcome, prCreated>>
    BY Zenon, <2>5 DEF KeyMarked, OnePerTarget, PastMark, InCritical
  <2> QED
    BY Zenon, <2>1, <2>2, <2>3, <2>4, <2>5 DEF Next, Release, Sync, HumanPush, Merge, vars
<1> QED
  BY <1>1, <1>2, TypeCorrect, PTL DEF Spec

-----------------------------------------------------------------------------
(* The server's branches. *)

\* Branch b is either given up to forced pushes, or keeps its commits in a step.
Kept(b) == b \in ForcedBranches \/ IsPrefix(remote[b], remote'[b])

\* A commit, pushed or made through the API, keeps what is on the branch unless
\* the branch is one that is pushed with force.
LEMMA CommitKeeps ==
  ASSUME TypeOK, NEW w \in Workers, CommitAndPush(w) \/ createCommitOnBranch(w),
         NEW b \in DOMAIN remote
  PROVE  Kept(b)
<1>0. /\ pc[w] \in Critical /\ remote[b] \in Seq(Commits) /\ clone[w] \in Seq(Commits)
      /\ AppOf(w) \in Apps
  BY Zenon, WorkerType DEF TypeOK, CommitAndPush, createCommitOnBranch, Critical
<1>1. /\ chg[w] \in Changes /\ Push(w) \in Branches /\ NewCommit(w) \in Commits
      /\ Append(clone[w], NewCommit(w)) \in Seq(Commits)
  BY Zenon, <1>0, BusyTypes
<1>2. CASE UNCHANGED remote
  BY Zenon, <1>0, <1>2, HistoryPrefix DEF Kept
<1>3. CASE remote' = PointTo(Push(w), Append(clone[w], NewCommit(w))) /\ b # Push(w)
  BY Zenon, <1>0, <1>1, <1>3, PointToType, HistoryPrefix DEF Kept
<1>4. CASE /\ remote' = PointTo(Push(w), Append(clone[w], NewCommit(w))) /\ b = Push(w)
           /\ remote[b] = clone[w]
  <2>1. remote'[b] = Append(remote[b], NewCommit(w))
    BY Zenon, <1>1, <1>4, PointToType
  <2> QED BY Zenon, <1>0, <1>1, <2>1, HistoryPrefix DEF Kept
<1>5. CASE Push(w) # Base(w) /\ b = Push(w) /\ ~Config[AppOf(w)].api
  <2>1. <<AppOf(w), chg[w]>> \in Apps \X Changes
    BY Zenon, <1>0, <1>1
  <2> DEFINE y == <<AppOf(w), chg[w]>>
  <2>2. y[1] = AppOf(w) /\ y[2] = chg[w]
    OBVIOUS
  <2> HIDE DEF y
  <2>3. y \in {x \in Apps \X Changes : /\ ~Config[x[1]].api
                                      /\ pushBranch(x[1], x[2]) # checkOutBranch(x[1])}
    BY Zenon, <1>5, <2>1, <2>2 DEF Push, Base, y
  <2> QED BY Zenon, <1>5, <2>2, <2>3 DEF Kept, ForcedBranches, Push
<1>6. CASE createCommitOnBranch(w)
  BY Zenon, <1>2, <1>3, <1>4, <1>6 DEF createCommitOnBranch, ExpectedHead, HeadIs
<1>7. CASE CommitAndPush(w)
  <2>1. ~Config[AppOf(w)].api
    BY Zenon, <1>7 DEF TypeOK, CommitAndPush
  <2>2. CASE UNCHANGED remote
    BY <2>2, <1>2
  <2>3. CASE /\ remote' = PointTo(Push(w), Append(clone[w], NewCommit(w)))
             /\ Accepts(Push(w), clone[w], ForcePush(w))
    BY Zenon, <1>3, <1>4, <1>5, <2>1, <2>3 DEF Accepts, Exists, ForcePush
  <2> QED BY Zenon, <1>7, <2>2, <2>3 DEF CommitAndPush
<1> QED BY <1>6, <1>7

\* A merge keeps what is on the branches it leaves.
LEMMA MergeKeeps ==
  ASSUME TypeOK, NEW pr \in prs, Merge(pr), NEW b \in DOMAIN remote \cap DOMAIN remote'
  PROVE  IsPrefix(remote[b], remote'[b])
<1>1. /\ pr.base \in BaseBranches /\ pr.base \in Branches
      /\ pr.head \in DOMAIN remote /\ pr.base \in DOMAIN remote
  BY Zenon DEF TypeOK, Merge, Exists
<1>2. /\ remote[pr.head] \in Seq(Commits) /\ remote[pr.base] \in Seq(Commits)
      /\ remote[b] \in Seq(Commits)
  BY Zenon, <1>1 DEF TypeOK
<1>3. PICK n \in 0 .. Len(remote[pr.head]) :
        LET merged == remote[pr.base] \o SubSeq(remote[pr.head], n + 1, Len(remote[pr.head])) IN
        \/ remote' = PointTo(pr.base, merged)
        \/ remote' = [x \in DOMAIN remote \ {pr.head} |->
                        IF x = pr.base THEN merged ELSE remote[x]]
  BY Zenon DEF Merge
<1> DEFINE tail == SubSeq(remote[pr.head], n + 1, Len(remote[pr.head]))
<1>4. tail \in Seq(Commits)
  BY Zenon, <1>2, <1>3, TailType
<1>5. remote'[b] = IF b = pr.base THEN remote[pr.base] \o tail ELSE remote[b]
  BY Zenon, <1>1, <1>3 DEF PointTo
<1> HIDE DEF tail
<1> QED BY Zenon, <1>2, <1>4, <1>5, HistoryPrefix

\* Every step keeps what is on the branches it leaves, forced pushes apart.
LEMMA StepKeeps ==
  ASSUME TypeOK, [Next]_vars, NEW b \in DOMAIN remote \cap DOMAIN remote'
  PROVE  Kept(b)
<1>0. remote[b] \in Seq(Commits)
  BY Zenon DEF TypeOK
<1>1. CASE UNCHANGED remote
  BY <1>0, <1>1, HistoryPrefix DEF Kept
<1>2. ASSUME NEW w \in Workers, WorkerStep(w) PROVE Kept(b)
  <2>1. CASE CommitAndPush(w) \/ createCommitOnBranch(w)
    BY Zenon, <2>1, CommitKeeps
  <2>2. CASE CreateRef(w)
    <3>1. CASE ~Exists(Push(w))
      <4>1. remote'[b] = remote[b]
        BY <2>2, <3>1 DEF CreateRef, PointTo, Exists
      <4> QED BY <4>1, <1>0, HistoryPrefix DEF Kept
    <3> QED BY <1>1, <2>2, <3>1 DEF CreateRef
  <2> QED
    BY Zenon, <1>1, <1>2, <2>1, <2>2
    DEF WorkerStep, UpdateApplication, UpdateApplicationFails, commitChangesLocked,
        skipIfPRExists, ShallowFetch, Branch, write, create, CommitFails
<1>3. ASSUME NEW x \in BaseBranches, HumanPush(x) PROVE Kept(b)
  <2>1. [by |-> None, slot |-> None, tag |-> 0] \in Commits
    BY BoundsAssumption DEF Commits, Tags
  <2>2. remote'[b] = remote[b] \/ \E e \in Commits : remote'[b] = Append(remote[b], e)
    BY <1>3, <2>1 DEF HumanPush, PointTo
  <2> QED BY Zenon, <1>0, <2>2, HistoryPrefix DEF Kept
<1>4. ASSUME NEW pr \in prs, Merge(pr) PROVE Kept(b)
  BY <1>4, MergeKeeps DEF Kept
<1> QED
  BY Zenon, <1>1, <1>2, <1>3, <1>4
  DEF Next, vars, RunImageUpdater, updateStatusAfterReconcile, Crash, Release, Sync

\* In every behaviour a commit on a branch that nobody pushes with force stays on
\* it: the fast-forward check and expectedHeadOid are enough, whatever the runs,
\* the people and the failures do.
THEOREM CommitsStay == Spec => CommitsKept
<1> DEFINE Keeps == \A b \in (DOMAIN remote \cap DOMAIN remote') \ ForcedBranches :
                      IsPrefix(remote[b], remote'[b])
<1>1. TypeOK /\ [Next]_vars => [Keeps]_vars
  BY Zenon, StepKeeps DEF Kept
<1> QED
  BY <1>1, TypeCorrect, PTL DEF Spec, CommitsKept

=============================================================================
