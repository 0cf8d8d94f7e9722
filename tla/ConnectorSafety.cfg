SPECIFICATION Spec
CONSTANTS
  MaxLambdas = 1
  SignBit = 2
  n1 = n1
  f1 = f1
  ShortNames = {n1}
  FullNames = {f1}
  BadNames = {}
  Types = {"INT", "STRING"}
  Policies = {"NO_CACHE", "CALL_ONCE", "CACHE_ONLY", "ON_TIMEOUT"}
  Args <- MCArgs
  Null = Null
  LineBound = 1
  Lossy = FALSE
  Callers = {c1, c2}
  Requests <- NamedRequest
  Leftovers <- Junk
  FreedTypes = {"INT", "STRING", "UNKNOWN"}
  SpuriousWakeups = TRUE
  ConnectorRestarts = TRUE
  Offers <- AnyLambda
  PeerErrors = TRUE
  PeerUnregisters = TRUE
  PeerPushes = TRUE
  MaxProduced = 1
INVARIANTS ConnectorTypeOK MutexHeld CodesFitPolicies JunkReportedOnce
PROPERTIES CacheOnlyNeverCalled RepliesCarryValues
SYMMETRY CallerSymmetry
