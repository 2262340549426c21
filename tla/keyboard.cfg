SPECIFICATION Spec
CONSTANTS
    Lettered = {A}
    Plain = {ENTER}
    PastShift = {ENTER, CAPS, ACK}
    PastBoth = {ACK}
    Extended = {ENTER}
    Shifts = {SHIFT}
    CAPS = CAPS
    ACK = ACK
    FIFO_SIZE = 3
    WireSize = 2
INVARIANTS
    TypeOK
    NoStuckShift
PROPERTIES
    TypesText
