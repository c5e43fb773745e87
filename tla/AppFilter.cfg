SPECIFICATION Spec
CONSTANTS
  None = None
  Blank = Blank
  Lower <- MCLower
  Secrets = {"s1", "s2"}
  KeyValues = {"k1", "k2"}
  Configurations <- MCConfigurations
INVARIANTS
  TypeOK
  NobodyForgotten
  InnermostWins
  VerificationKept
  OneProvider
  PushReaches
