SPECIFICATION Spec
CONSTANTS
  MaxLambdas = 3
  SignBit = 2
  ShortNames = {s1, s2}
  FullNames = {f1}
  BadNames = {b1}
  Types = {int, string}
  Policies = {noCache}
  Args = {a1}
  Null = Null
INVARIANT NoNameTwice
