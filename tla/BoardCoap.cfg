SPECIFICATION Spec
CONSTANTS
  MaxLambdas = 2
  SignBit = 2
  n1 = n1
  n2 = n2
  f1 = f1
  ShortNames = {n1, n2}
  FullNames = {f1}
  BadNames = {}
  Types = {"INT", "STRING"}
  Policies = {"NO_CACHE", "CACHE_ONLY"}
  Func = Func
  Null = Null
  Args <- MCArgs
  UnknownType = UnknownType
  Missing = Missing
  ListRoom = 1
  Requests <- MCRequests
INVARIANTS BoardCoapTypeOK NeverReadsRaw DiesOnlyOf
PROPERTY ImplementsDirectory
CHECK_DEADLOCK FALSE
