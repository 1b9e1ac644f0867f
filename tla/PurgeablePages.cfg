SPECIFICATION ListingSpec
CONSTANTS
    MaxKey = 2
    PageSizes = {1}
    Filters = {{1, 2}}
    MaxChanges = 0
INVARIANTS PurgeableOnce
\* A listing ends.
CHECK_DEADLOCK FALSE
