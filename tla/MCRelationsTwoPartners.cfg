SPECIFICATION Spec
CONSTANTS
  a = a
  b = b
  c = c
  Entities = {a, b, c}
  NoOne = NoOne
  Cards <- CardsContainment
  Families <- NoFamily
  Labels = {}
  Pairs <- PairsContainment
  Walked = {c}
  Mortal = {}
  MaxTables = 1
  JournalLimit = 4
  UndoDepth = 2
  QuietUndo = FALSE
INVARIANTS
  CardinalityKept
