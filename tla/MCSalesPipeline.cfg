CONSTANTS
  prj = prj
  q1 = q1
  q2 = q2
  r1 = r1
  r2 = r2
  Projects = {prj}
  Quotes = {q1, q2}
  HomeOf <- MCHomeOf
  Requests = {r1, r2}
  QuoteWishes = {"DRAFT", "ACCEPTED"}
  ContractWishes = {"ACTIVE", "CANCELLED"}
  StageWishes = {"SURVEY"}
  MaxOvertaken = 0
  MaxRemoved = 1
SYMMETRY Symmetry
SPECIFICATION Spec
INVARIANTS
  DatesMatchStatus
  ChosenItemsExist
  VersionsDistinct
  ContractFromAcceptedQuote
  StageFollowsContract
  StampedUnlessOvertaken
PROPERTIES
  AcceptedStaysUnlessOvertaken
CHECK_DEADLOCK FALSE
