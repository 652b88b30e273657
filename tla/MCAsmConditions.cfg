SPECIFICATION Spec
CONSTANTS
  Names = {a, b}
  Nodes = {x, y, z}
  Graphs <- MCGraphs
  Whole = Whole
INVARIANTS
  FirstsRight
PROPERTIES
  MeaningKept
