CONSTANTS
  Series = {"PN"}
  ByNumber = {"PN"}
  Requests = {p1}
  Base = 10
  Width = 1
  MaxRows = 11
  MaxBatch = 1
  MaxTime = 0
SPECIFICATION Spec
INVARIANTS
  NumbersAreNew
CHECK_DEADLOCK FALSE
