\* Every combination of the files of MCSources.tla; a channel that hands over
\* and one that holds a batch.  The system stops when the feed is at its end
\* or the engine is gone; FeedEnds and ThreadsEnd say that it stops nowhere
\* else.
SPECIFICATION FairSpec
CONSTANTS
  Files <- MixedFiles
  Readaheads = {0, 1}
CHECK_DEADLOCK FALSE
INVARIANTS EndIsComplete
PROPERTIES ImplementsMerge FeedEnds ThreadsEnd
