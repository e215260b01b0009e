SPECIFICATION Spec
CONSTANTS
  Nil = Nil
  Absent = Absent
  aKey = aKey
  Field = "field"
  Games <- ObjectsAndContainers
INVARIANTS
  StoreOK
  WorldClosed
  RestoreExact
  Restored
  HandledLives
PROPERTIES
  NoRevival
  HeldLives
