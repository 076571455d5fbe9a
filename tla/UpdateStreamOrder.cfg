\* A subscription whose replay and whose broadcasts share the buffer.
SPECIFICATION Spec
CONSTANTS
    MaxLines = 3
    MaxCrash = 0
    MaxTrouble = 0
    MaxAttempts = 1
    Buffer = 3
INVARIANT StreamInOrder
CHECK_DEADLOCK FALSE
