SPECIFICATION Spec
CONSTANTS
  Chars = {a, b}
  NoChar = NoChar
  MaxList = 2
  PageSize = 1
  Contexts = {c1, c2}
  NoContext = NoContext
  NoElement = NoElement
  Configs <- MCConfigs
  MaxQueued = 0
  MaxFaults = 0
SYMMETRY MCSymmetry
PROPERTIES
  FocusLossCommits
