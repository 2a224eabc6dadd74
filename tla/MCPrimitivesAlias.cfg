\* A create that needs a bucket more than MaxBuckets stops there.
CONSTANTS
    Slots = 5
    MaxBuckets = 2
    Handle = {h1}
    NoItem = NoItem
SPECIFICATION Spec
INVARIANT NoAlias
CHECK_DEADLOCK FALSE
