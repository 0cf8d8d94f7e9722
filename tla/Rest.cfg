SPECIFICATION FairRestSpec
CONSTANTS
  MaxLambdas = 2
  SignBit = 2
  n1 = n1
  empty = empty
  ShortNames = {n1}
  FullNames = {}
  BadNames = {empty}
  EmptyName = empty
  Types = {"INT", "STRING"}
  Policies = {"ON_TIMEOUT", "NO_CACHE"}
  Args <- MCArgs
  Null = Null
  LineBound = 1
  Lossy = TRUE
  HttpThread = http
  CoapThread = coap
  Callers = {http, coap}
  Requests <- MCRequests
  Leftovers <- Junk
  FreedTypes = {"INT", "STRING"}
  SpuriousWakeups = FALSE
  ConnectorRestarts = FALSE
  Offers <- MCOffers
  Asks <- MCAsks
  PeerErrors = FALSE
  PeerUnregisters = TRUE
  PeerPushes = FALSE
  MaxProduced = 1
INVARIANTS RestTypeOK AnswersDescribeTheCalled ShownValuesAreMade UnknownTypesStayOffTheLine DiesOfMissingLambda
PROPERTIES ListingsComplete RequestsAnswered
CHECK_DEADLOCK FALSE
