SPECIFICATION GuardFairSpec
CONSTANTS
  PageNum = 3
  Pages = {0, 1, 2}
  Styles = {"slide", "slide_scale", "popup"}
  HeapFails = TRUE
INVARIANTS CurrentShown
PROPERTIES BusyClears
CHECK_DEADLOCK FALSE
