CONSTANTS
    Slots = 4
    Methods = {"read", "ioctl"}
SPECIFICATION IosSpec
PROPERTIES OpenComesBack
CHECK_DEADLOCK FALSE
