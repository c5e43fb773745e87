---------------------------- MODULE MCWriteBack ----------------------------
(* Instances of WriteBack for TLC. *)
EXTENDS WriteBack

CONSTANTS r1, r2, a1, a2, i1, i2, t1, t2

MCNames == {"main", "dev", "image-updater", "updates"}

\* Write-back straight to the branch the application tracks.
Direct(t, i) ==
  [repo |-> "repo", gitBranch |-> "", targetRevision |-> "main", gitWriteBranch |-> None,
   target |-> t, image |-> i, pr |-> FALSE, api |-> FALSE, scmOK |-> TRUE]

\* "main:updates": one write branch for every application.
Static(t, i) ==
  [Direct(t, i) EXCEPT !.gitBranch = "main", !.gitWriteBranch = [name |-> "updates", uses |-> {}]]

PR(t, i) == [Direct(t, i) EXCEPT !.pr = TRUE]

Api(cfg) == [cfg EXCEPT !.api = TRUE]

\* Two resources with an application each.
Apart == (r1 :> {a1}) @@ (r2 :> {a2})

\* One resource with both applications; or two runs, of which the second, a
\* webhook run, matches one of them.
OneRun == (r1 :> {a1, a2})
TwoRuns == (r1 :> {a1, a2}) @@ (r2 :> {a2})
\* Two applications that share a branch; one commits through the GitHub API.
DirectConfig == (a1 :> Direct(t1, i1)) @@ (a2 :> Api(Direct(t2, i2)))
StaticConfig == (a1 :> Static(t1, i1)) @@ (a2 :> Api(Static(t2, i2)))
\* Two applications that share a write-back target.
SharedPRConfig == (a1 :> PR(t1, i1)) @@ (a2 :> PR(t1, i1))

=============================================================================
