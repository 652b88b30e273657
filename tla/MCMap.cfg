SPECIFICATION SceneSpec
CONSTANTS
  MapFiles <- MCAllMaps
  ModelFiles <- MCModelFiles
  Jobs <- MCJobs
  SignBit <- MCSignBit
  Levels = 4
  Scaled <- MCScaled
INVARIANTS
  StreamsReadBack
  ViewsTile
  SceneTypeOK
  AsListed
  MeshesReadBack
  InstancesReadBack
  SceneIsTree
  ViewsOfShared
PROPERTIES
  Extracted
  Converts
