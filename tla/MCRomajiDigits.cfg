SPECIFICATION Spec
CONSTANTS
  Table <- MCTable
  Lower <- MCLower
  Vowels = {"a", "i", "u", "e", "o"}
  N = "n"
  Y = "y"
  Apostrophe = "'"
  SmallTsu = "tsu_"
  Hatsuon = "NN"
  Glyphs <- MCGlyphs
  Conversion <- MCConversion
  Keys = {"1", "2"}
  Digits = {"1", "2"}
  MaxText = 4
INVARIANT
  DigitsAreShown
