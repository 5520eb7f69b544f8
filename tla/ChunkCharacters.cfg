CONSTANTS
  Longest = 3
  LongestWide = 5
  Texts <- MCTexts
  Sizes <- MCSizes
  Overlaps <- MCOverlaps
  DefaultChunkSize = 5
  DefaultChunkOverlap = 1
SPECIFICATION Spec
INVARIANT
  WholeCharacters
CHECK_DEADLOCK FALSE
