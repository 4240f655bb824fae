SPECIFICATION Spec
CONSTANTS
    MaxEvents = 3
    MaxBatch = 2
    MaxFaults = 2
    hold_repeat = TRUE
INVARIANTS NewestKeyDelivered KeysInOrder
PROPERTY WholeMessage
CHECK_DEADLOCK FALSE
