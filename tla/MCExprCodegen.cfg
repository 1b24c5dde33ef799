SPECIFICATION Spec
CONSTANTS
  Named = {"bool", "int", "text"}
  MaxStars = 1
  MaxNodes = 2
INVARIANTS
  CodegenTypeOK
  AnnouncedIsGenerated
  WellTypedCompiles
