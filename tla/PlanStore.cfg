SPECIFICATION Spec
\* Every process makes a bounded number of calls.
CHECK_DEADLOCK FALSE
CONSTANTS
  None = None
  Verdict = Verdict
  p1 = p1
  p2 = p2
  p3 = p3
  one = one
  two = two
  Plans = {p1, p2, p3}
  Procs = {one, two}
  Labels = {1, 2}
  Setups <- Agreeing
INVARIANTS
  BesideItsPlan
  AnswersNoWorse
  RetentionWhole
PROPERTIES
  PlanKept
