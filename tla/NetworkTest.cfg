SPECIFICATION TestSpec
CONSTANT Retries = 2
CONSTANT Retry = 1
CONSTANT Quota = 4
CONSTANT Reserve = 1
INVARIANT TypeOK
INVARIANT NothingMissed
INVARIANT EventsFollow
INVARIANT ToldLast
INVARIANT RecognisedIsBilled
INVARIANT NothingOverlooked
PROPERTY SetWhenPassed
PROPERTY WaitsEnd
\* The test ends.
CHECK_DEADLOCK FALSE
