SPECIFICATION Spec
CONSTANTS
  Nil = Nil
  Absent = Absent
  aKey = aKey
  Field = "field"
  Games <- TurnTables
INVARIANTS
  WorldClosed
