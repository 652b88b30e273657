SPECIFICATION ToolsSpec
CONSTANTS
  Files <- MCFiles
  Textures <- MCTextures
  Fonts <- MCFonts
  ShaderFiles <- MCShaderFiles
  ModelGraphs <- MCModelGraphs
  KnownTypes <- MCKnownTypes
  Builds = {FALSE, TRUE}
  None = None
INVARIANTS
  CutsRight
  DrsmComplete
  HighestGroupWins
  NothingLost
  MixedByLateHeader
  TexelsRead
  ReadsRight
  ShadersRight
PROPERTIES
  EveryFileEnds
