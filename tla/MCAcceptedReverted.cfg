CONSTANTS
  prj = prj
  q1 = q1
  q2 = q2
  r1 = r1
  r2 = r2
  Projects = {prj}
  Quotes = {q1}
  HomeOf <- MCHomeOf
  Requests = {r1, r2}
  QuoteWishes = {"DRAFT", "ACCEPTED"}
  ContractWishes = {"ACTIVE"}
  StageWishes = {"SURVEY"}
  MaxOvertaken = 0
  MaxRemoved = 1
SPECIFICATION Spec
PROPERTIES
  AcceptedStays
CHECK_DEADLOCK FALSE
