CONSTANTS
  Series = {"PX", "PN"}
  ByNumber = {"PN"}
  Requests = {p1, p2}
  Base = 3
  Width = 1
  MaxRows = 4
  MaxBatch = 2
  MaxTime = 2
  BomIds = {x1, x2, x3}
  BomClerks = {p1, p2}
  BomPayloads <- MCBomPayloads
  Variants = {x1, x2, x3}
  Editors = {p1, p2}
  SessionIds = {x1, x2, x3}
  Devices = {p1, p2}
  MaxResets = 2
  MaxTokens = 2
  Users = {p1, p2}
  Calls = {x1, x2, x3}
  MaxChanges = 2
SYMMETRY MCSymmetry
SPECIFICATION SideSpec
INVARIANTS
  NumbersAreNewUnlessMisled
  NoCycles
  ChildrenApprovedFirst
  ModelsComplete
  ChildrenLiveUnlessRaced
  PublishedIsSound
  ActiveIsPublished
  OneSessionUnlessTwins
  ResetEndsSessions
  RightsAreCurrent
PROPERTIES
  ApprovedIsFrozen
  ServedUntilReplaced
  EndedStaysEnded
CHECK_DEADLOCK FALSE
