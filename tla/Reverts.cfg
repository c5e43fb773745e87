SPECIFICATION Spec
CONSTANTS
  None = None
  Latest = Latest
  NoDigest = NoDigest
  Garbled = Garbled
  Tags <- MCTags
  SemVer <- MCSemVer
  Unsafe <- MCUnsafe
  Params <- MCParams
  Path <- MCPath
  Keys <- MCKeys
  DefaultHelmImageName = "image.name"
  DefaultHelmImageTag = "image.tag"
  Updaters = {1, 2}
  Configs <- MCPreset
  DefaultRetry = 2
  MaxPushes = 2
  MaxEdits = 1
  MaxFaults = 1
PROPERTIES
  AllImagesWritten
