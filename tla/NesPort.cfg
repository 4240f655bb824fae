SPECIFICATION Spec
CONSTANTS
    Modes = {0, 1, 2, 3}
    Rows = 3
    RowSize = 1
    Cells = {0, 1}
    Bits = 2
    Lag = {"OUT0", "OUT1", "OUT2"}
    LagModes = {0, 1, 3}
    Patience = 3
INVARIANTS RowShown NextBitShown
