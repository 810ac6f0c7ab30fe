CONSTANTS
  prj = prj
  ctr = ctr
  quo = quo
  Projects = {prj}
  Contracts = {ctr}
  Quotes = {quo}
  HomeOf <- MCHomeOf
  Requests = {p1, p2}
  Amounts = {1, 2}
  Values = {0, 2}
  MaxPaid = 1
SPECIFICATION FairSpec
INVARIANTS
  PaidWithinPeak
PROPERTIES
  DirectPaymentsFitUnlessOvertaken
  PaymentsEnd
CHECK_DEADLOCK FALSE
