SPECIFICATION Spec
CONSTANTS
  Chars = {a, b}
  NoChar = NoChar
  MaxList = 2
  PageSize = 1
  Contexts = {c1, c2}
  NoContext = NoContext
  NoElement = NoElement
  Configs <- MCConfigs
  MaxQueued = 1
  MaxFaults = 1
SYMMETRY MCSymmetry
INVARIANTS
  TypeOK
  UiShowsTheList
  PrintingKeysLand
  ClaimedKeysActOnce
PROPERTIES
  OnlyLateSessionsPartFromEngine
  OnlyAbandonedTextDoubles
  NothingTypedVanishes
