SPECIFICATION Spec
CONSTANTS
  a = a
  b = b
  c = c
  Entities = {a, b}
  NoOne = NoOne
  Cards <- CardsLinksAndDoor
  Families <- SecondIsFamily
  Labels = {1}
  Pairs <- PairsDoor
  Walked = {}
  Mortal = {}
  MaxTables = 3
  JournalLimit = 3
  UndoDepth = 1
  QuietUndo = TRUE
INVARIANTS
  SavesRestore
PROPERTIES
  SetCompletes
