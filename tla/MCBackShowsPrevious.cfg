SPECIFICATION AppSpec
CONSTANTS
  PageNum = 3
  Pages = {0, 1}
  Styles = {"none"}
  HeapFails = FALSE
  Targets = {"new"}
  Typed = {0, 1}
  MaxRequests = 2
PROPERTIES BackShowsPrevious
CHECK_DEADLOCK FALSE
