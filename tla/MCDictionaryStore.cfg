SPECIFICATION Spec
CONSTANTS
  Words = {a, b}
  Entries = {x}
  NoWord = NoWord
  Owner = owner
  Blockers = {owner}
  MaxCommits = 2
  MaxDepth = 1
  Missing = Missing
  Corrupt = Corrupt
  Nothing = Nothing
INVARIANTS
  KeptIsOnDisk
  LookupIsCurrent
PROPERTIES
  StartsFromFile
  UnreadableIsKept
