SPECIFICATION Spec
CONSTANTS
  MaxCalls = 2
INVARIANTS CallsWhatItWasGiven
CHECK_DEADLOCK FALSE
