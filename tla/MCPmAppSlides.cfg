SPECIFICATION AppSpec
CONSTANTS
  PageNum = 3
  Pages = {0, 1}
  Styles = {"slide"}
  HeapFails = FALSE
  Targets = {"new", "reset"}
  Typed = {0, 1}
  MaxRequests = 4
INVARIANTS CurrentVisible CurrentOnScreen LeftPagesHidden
CHECK_DEADLOCK FALSE
