CONSTANTS
    Recipients = {u1}
    AckDevices = {c1}
    MaxMessage = 1
    MaxAcks = 2
    MaxMoves = 0
    MaxBreaks = 1
SPECIFICATION ReceiptSpec
PROPERTY ShownOnlyForward
CHECK_DEADLOCK FALSE
