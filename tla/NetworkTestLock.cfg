SPECIFICATION FairSpec
CONSTANT Retries = 1
PROPERTY DebounceEnds
\* The test ends.
CHECK_DEADLOCK FALSE
