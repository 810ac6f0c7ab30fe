CONSTANTS
  w1 = w1
  w2 = w2
  m1 = m1
  prj1 = prj1
  prj2 = prj2
  a1 = a1
  Warehouses = {w1, w2}
  Materials = {m1}
  Requests = {p1, p2, p3}
  Clerks = {p2, p3}
  Projects = {prj1, prj2}
  Docs = {d1}
  NoDoc = NoDoc
  Allocs = {a1, a2}
  ProjectOf <- MCProjectOf
  AllocPayloads <- MCAllocPayloads
  LotIds <- MCLotIds
  Payloads <- MCPayloads
  Operations = {"confirm"}
  OpeningLots <- MCOpeningLots
  OpeningBalance <- MCOpeningBalance
  OpeningCost = 4
  Demand <- MCDemand
  LotDate <- MCLotDate
  LotSize <- MCLotSize
  SalesDates = {1, 2}
  Batches = {1, 2, 3}
  Askers = {c1, c2}
  MaxLoose = 1
  ActionIds = {y1, y2}
  Scanned = {"k1"}
  Reviewers = {c1, c2}
  MaxEdits = 1
  MaxMade = 2
  Callers = {c1, c2}
  MaxOpen = 1
  MaxIssued = 3
SYMMETRY MCSymmetry
SPECIFICATION SideSpec
INVARIANTS
  SuggestionIsFifo
  DraftsFitUnlessLoose
  OffersOnlyMissingUnlessShared
  RowsTellWhatWasDone
  OneProposalUnlessScansCrossed
  CredentialHolds
  AllocationsPostOnce
  StockMatchesAllocations
PROPERTIES
  ImplementsBook
CHECK_DEADLOCK FALSE
