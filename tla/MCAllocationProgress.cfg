CONSTANTS
  w1 = w1
  w2 = w2
  m1 = m1
  prj1 = prj1
  prj2 = prj2
  a1 = a1
  Warehouses = {w1, w2}
  Materials = {m1}
  Requests = {p1, p2, p3}
  Clerks = {p2, p3}
  Projects = {prj1, prj2}
  Docs = {d1}
  NoDoc = NoDoc
  Allocs = {a1}
  ProjectOf <- MCProjectOf
  AllocPayloads <- MCAllocPayloads
  LotIds <- MCLotIds
  Payloads <- MCOnePayload
  Operations = {"confirm"}
  OpeningLots <- MCOpeningLots
  OpeningBalance <- MCOpeningBalance
  OpeningCost = 4
SPECIFICATION AllocFairSpec
PROPERTIES
  AllRequestsEnd
CHECK_DEADLOCK FALSE
