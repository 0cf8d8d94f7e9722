SPECIFICATION Spec
CONSTANTS
  MaxLambdas = 1
  SignBit = 1
  n1 = n1
  n2 = n2
  ShortNames = {n1}
  FullNames = {}
  BadNames = {}
  Types = {"INT"}
  Policies = {"NO_CACHE"}
  Args <- MCArgs
  Null = Null
  Func = Func
  LineBound = 2
  Lossy = FALSE
  Callers = {c1}
  Requests <- EachId
  Leftovers <- Junk
  FreedTypes = {"INT", "UNKNOWN"}
  SpuriousWakeups = FALSE
  ConnectorRestarts = FALSE
  Scope = {"unregister"}
  MaxProduced = 1
INVARIANT UnregistrationsArrive
