\* A create that needs a bucket more than MaxBuckets stops there.
CONSTANTS
    Slots = 4
    MaxBuckets = 2
    Handle = {h1, h2}
    NoItem = NoItem
SYMMETRY Pointers
SPECIFICATION Spec
INVARIANTS TypeOK NoAliasInFirstBucket GuardStaysFree WordsTellTheirHolders
CHECK_DEADLOCK FALSE
