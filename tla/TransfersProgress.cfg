SPECIFICATION FairSpec
\* A plan is finite: the runtime stops when it is done.
CHECK_DEADLOCK FALSE
CONSTANTS
  weight = weight
  gradient = gradient
  Objects = {weight, gradient}
  Plans <- Finishing
  None = None
PROPERTIES
  ActionsComplete
