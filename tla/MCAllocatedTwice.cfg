CONSTANTS
  Demand <- MCDemand
  LotDate <- MCOneLotDate
  LotSize <- MCOneLotSize
  SalesDates = {1}
  Batches = {y1, y2}
  Askers = {c1}
  MaxLoose = 0
SPECIFICATION FifoSpec
INVARIANTS
  OffersOnlyMissing
CHECK_DEADLOCK FALSE
