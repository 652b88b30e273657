SPECIFICATION ToolsSpec
CONSTANTS
  Files <- MCFiles
  Textures <- MCTextures
  Fonts <- MCFonts
  ShaderFiles <- MCShaderFiles
  ModelGraphs <- MCModelGraphs
  KnownTypes <- MCKnownTypes
  Builds = {TRUE}
  None = None
INVARIANTS
  EveryVersionExtracts
