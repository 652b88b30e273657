SPECIFICATION SceneSpec
CONSTANTS
  MapFiles <- MCAllMaps
  ModelFiles <- MCModelFiles
  Jobs <- MCJobs
  SignBit <- MCSignBit
  Levels = 4
  Scaled <- MCScaled
INVARIANTS
  PackedReadBack
