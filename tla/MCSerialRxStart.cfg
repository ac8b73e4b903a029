CONSTANTS BufSz = 4  FifoSz = 2  SemMax = 2  MaxSent = 9
SPECIFICATION Spec
INVARIANTS RxFifoThere
CHECK_DEADLOCK FALSE
