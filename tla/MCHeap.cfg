CONSTANTS
    Header = 2
    Align = 2
    Capacity = 15
    MaxSize = 3
    Owner = {o1, o2, o3}
    None = None
SPECIFICATION FairSpec
INVARIANTS TypeOK ObjectsAreApart
PROPERTY CallsEnd
\* A program gone astray takes no further step.
CHECK_DEADLOCK FALSE
