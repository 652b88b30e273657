SPECIFICATION Spec
CONSTANTS
  Models <- MCModels
  None = None
  RowRange = 6
INVARIANTS
  NodesRight
  PrimitivesReadBack
  WeightsRight
PROPERTIES
  Converts
