SPECIFICATION FairSpec
CONSTANTS
    Reqs = {r1, r2}
    Failures = TRUE
    MaxEdits = 1
    None = None
CHECK_DEADLOCK FALSE
INVARIANTS TypeOK CachesTruthful GuestsGetPublished
PROPERTY HiddenInTheEnd
