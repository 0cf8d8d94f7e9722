SPECIFICATION Spec
CONSTANTS
  MaxLambdas = 1
  SignBit = 1
  n1 = n1
  f1 = f1
  ShortNames = {n1}
  FullNames = {f1}
  BadNames = {}
  Types = {"INT", "STRING"}
  Policies = {"NO_CACHE", "CALL_ONCE", "CACHE_ONLY", "ON_TIMEOUT"}
  Args <- MCArgs
  Null = Null
  LineBound = 1
  Lossy = FALSE
  Callers = {c1}
  Requests <- OneRequest
  Leftovers <- Junk
  FreedTypes = {"INT", "STRING", "UNKNOWN"}
  SpuriousWakeups = FALSE
  ConnectorRestarts = FALSE
  Offers <- AnyLambda
  PeerErrors = TRUE
  PeerUnregisters = FALSE
  PeerPushes = FALSE
  MaxProduced = 1
PROPERTY SuccessIsNoError
