SPECIFICATION Spec
CONSTANTS
  a = a
  b = b
  c = c
  Entities = {a, b, c}
  NoOne = NoOne
  Cards <- CardsContainment
  Families <- NoFamily
  Labels = {}
  Pairs <- PairsContainment
  Walked = {c}
  Mortal = {c}
  MaxTables = 1
  JournalLimit = 4
  UndoDepth = 1
  QuietUndo = TRUE
INVARIANTS
  Mirrored
  CacheFresh
  Restored
  WalksAgree
PROPERTIES
  ImplementsRowStore
