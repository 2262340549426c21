SPECIFICATION Spec
CONSTANTS
    Tasks = {t1, t2, idle}
    Boot = {t1, idle}
    First = t1
    IDLE = idle
    NONE = NONE
    Words = {0, 1}
    PcMod = 2
    MaxFrames = 2
INVARIANTS TypeOK StacksBalanced
PROPERTIES ProcessorPerTask
