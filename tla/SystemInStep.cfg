SPECIFICATION FairSpec
CONSTANTS
  MaxLambdas = 2
  SignBit = 2
  n1 = n1
  n2 = n2
  ShortNames = {n1, n2}
  FullNames = {}
  BadNames = {}
  Types = {"INT", "STRING"}
  Policies = {"NO_CACHE", "CACHE_ONLY"}
  Args <- MCArgs
  Null = Null
  Func = Func
  LineBound = 1
  Lossy = FALSE
  Callers = {c1}
  Requests <- TwoRequests
  Leftovers <- Junk
  FreedTypes = {"INT", "STRING", "UNKNOWN"}
  SpuriousWakeups = FALSE
  ConnectorRestarts = FALSE
  Scope = {"unregister", "push"}
  MaxProduced = 1
INVARIANTS IdsAgree ResultsFitTheirLambda NullNeverCalled
PROPERTY LambdasArrive
CHECK_DEADLOCK FALSE
