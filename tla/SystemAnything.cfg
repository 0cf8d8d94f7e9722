SPECIFICATION Spec
CONSTANTS
  MaxLambdas = 2
  SignBit = 2
  n1 = n1
  n2 = n2
  ShortNames = {n1}
  FullNames = {}
  BadNames = {}
  Types = {"INT"}
  Policies = {"NO_CACHE", "CACHE_ONLY"}
  Args <- MCArgs
  Null = Null
  Func = Func
  LineBound = 1
  Lossy = TRUE
  Callers = {c1}
  Requests <- FirstInt
  Leftovers <- Junk
  FreedTypes = {"INT", "UNKNOWN"}
  SpuriousWakeups = FALSE
  ConnectorRestarts = TRUE
  Scope = {"unregister", "rename", "early", "restart", "local"}
  MaxProduced = 1
INVARIANTS TypeOK RegistriesWellFormed
