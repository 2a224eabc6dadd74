CONSTANTS
    Addresses = 5
    Byte = {0, 1}
    Cells = 4
    LineSize = 2
SPECIFICATION MCSpec
INVARIANTS CopiesAreMoves FillsStayInside DeviceSeesWrites ProgramSeesAnswer
