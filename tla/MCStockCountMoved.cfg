CONSTANTS
  w1 = w1
  w2 = w2
  m1 = m1
  Warehouses = {w1, w2}
  Materials = {m1}
  Requests = {p1, p2}
  Projects = {}
  Docs = {d1}
  NoDoc = NoDoc
  LotIds <- MCLotIds
  Payloads <- MCPayloads
  Operations = {"confirm", "update"}
  OpeningLots <- MCOpeningLots
  OpeningBalance <- MCOpeningBalance
  OpeningCost = 4
SPECIFICATION Spec
INVARIANTS
  CountsKnowTheirWarehouse
CHECK_DEADLOCK FALSE
