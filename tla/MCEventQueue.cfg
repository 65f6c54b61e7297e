\* Every interleaving of five pushes at three timestamps with any pops.
\* A run of pushes ends with an empty heap: nothing is left to do.
SPECIFICATION Spec
CONSTANTS
  Timestamps = {1, 2, 3}
  Kinds = {a, b}
  MaxPushes = 5
CHECK_DEADLOCK FALSE
PROPERTIES ImplementsStableQueue
