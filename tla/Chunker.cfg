CONSTANTS
  Longest = 8
  LongestWide = 6
  Texts <- MCTexts
  Sizes <- MCSizes
  Overlaps <- MCOverlaps
  DefaultChunkSize = 5
  DefaultChunkOverlap = 1
SPECIFICATION Spec
INVARIANTS
  TypeOK
  Covered
  PiecesFit
  EndsInOrder
PROPERTIES
  Progress
CHECK_DEADLOCK FALSE
