SPECIFICATION Spec
CONSTANTS
  Thread = {t1}
  Reader = {r1}
  Transaction = {x1}
  x1 = x1
  x2 = x2
  r1 = r1
  r2 = r2
  Entry = {1}
  Markable = {}
  Copies = 1
  Outcome = {"cached", "unmodified", "unspecified"}
  MaxTime = 1
INVARIANTS
  EveryReadSatisfiesBound
