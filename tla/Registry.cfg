SPECIFICATION FairSpec
CONSTANTS
  w1 = w1
  w2 = w2
  pull = pull
  own = own
  None = None
  Workers = {w1, w2}
  Images <- MCImages
  Prefixes <- MCPrefixes
  Configured <- MCConfigured
  Credentials <- MCCredentials
  Expires <- MCExpires
  Sources = {pull, own}
  DefaultPrefix <- Private
  DockerHub <- Hub
  TagNames = {"a", "b"}
  TagList <- MCTagList
  Responses <- MCResponses
  MaxMetadataConcurrency = 1
  MaxRotations <- MCRotations
  MaxBuild = 2
  MaxFaults = 1
INVARIANTS
  TypeOK
  RightCredentials
  SingleFetch
PROPERTIES
  Recovers
  DigestCurrent
