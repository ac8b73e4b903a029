CONSTANTS BufSz = 4  FifoSz = 2  SemMax = 2  MaxSent = 9
SPECIFICATION FairSpec
INVARIANTS TypeOK FullMeansFull NoLostWakeUp
PROPERTIES QueueSpec EveryByteLeaves
CHECK_DEADLOCK FALSE
