CONSTANTS
  t1 = t1
  t2 = t2
  t3 = t3
  Tags = {t1, t2, t3}
  Null = Null
  Private = {t2}
  Failures = TRUE
  Key <- TwoPlcs
SPECIFICATION ListSpec
INVARIANTS PlcOrError
CHECK_DEADLOCK FALSE
