SPECIFICATION BusSpec
CONSTANTS
    Insts = {i1, i2}
    BusRooms = {b1}
    MaxBaselines = 1
    MaxNumber = 3
    MaxSent = 3
    MaxLost = 0
    MaxInstRestarts = 0
PROPERTY GapsAreLosses
CHECK_DEADLOCK FALSE
