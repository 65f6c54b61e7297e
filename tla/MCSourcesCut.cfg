\* An L3 file without a seq column in two record batches, next to a tick.
SPECIFICATION FairSpec
CONSTANTS
  Files <- CutFiles
  Readaheads = {1}
CHECK_DEADLOCK FALSE
PROPERTIES ImplementsMerge
