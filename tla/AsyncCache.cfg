SPECIFICATION MCSpec
CONSTANTS
  Thread = {t1, t2}
  Reader = {r1, r2}
  Transaction = {x1, x2}
  x1 = x1
  x2 = x2
  r1 = r1
  r2 = r2
  Entry = {1, 2}
  Markable = {1}
  Copies = 2
  Outcome = {"cached", "unmodified", "unspecified"}
  MaxTime = 2
INVARIANTS
  WritebackInTurn
  ReadSatisfiesBound
  CallbacksOnce
  NoLostWakeup
PROPERTIES
  ReadTimeMonotone
  CommitsComplete
  ReadsComplete
