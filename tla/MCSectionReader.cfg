SPECIFICATION MCSpec
CONSTANTS
  MaxParts = 4
  MaxElements = 2
  SegmentTypes = {0, 1, 2, 3, 4, 5}
INVARIANTS
  SectionTypeOK
  StaysInStep
  ReadAsWritten
  MapsPointHome
  EverySegmentRead
PROPERTIES
  EndsUnlessCut
