SPECIFICATION FairSpec
CONSTANTS
  r1 = r1  r2 = r2  a1 = a1  a2 = a2  i1 = i1  i2 = i2  t1 = t1  t2 = t2
  None = None
  Runs = {r1, r2}
  Apps = {a1, a2}
  AppsOf <- TwoRuns
  Config <- SharedPRConfig
  Repos = {"repo"}
  Names <- MCNames
  Images = {i1, i2}
  Targets = {t1, t2}
  MaxConcurrentApps = 2
  DryRun = FALSE
  WarmUps = {r2}
  MaxTag = 1
  MaxFaults = 1
  MaxHuman = 0
INVARIANTS OnePerTarget DryRunWritesNothing
PROPERTIES PRConverges
