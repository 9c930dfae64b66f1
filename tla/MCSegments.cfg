SPECIFICATION Spec
CONSTANTS
  Word = 32
  MinAlign = 4
  Layouts <- MCLayouts
INVARIANTS
  TypeOK
  Placement
  Aligned
  ImageLoaded
  FetchSeesCode
CHECK_DEADLOCK FALSE
