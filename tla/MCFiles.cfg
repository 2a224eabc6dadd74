CONSTANTS
    Places = 7
    d1 = d1
    d2 = d2
    d3 = d3
    Devices = {d1, d2, d3}
    NoDevice = NoDevice
    Null = Null
    Root <- MCRoot
    Paths <- MCPaths
SYMMETRY MCSymmetry
SPECIFICATION Spec
INVARIANT DevicesAreReachable
PROPERTIES FilesStayUntilSet
