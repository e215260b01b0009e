SPECIFICATION Spec
CONSTANTS
  Nil = Nil
  Absent = Absent
  aKey = aKey
  Field = "field"
  Games <- FieldContainers
INVARIANTS
  NeverAborted
