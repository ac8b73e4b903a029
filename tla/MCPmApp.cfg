SPECIFICATION AppFairSpec
CONSTANTS
  PageNum = 3
  Pages = {0, 1}
  Styles = {"none"}
  HeapFails = FALSE
  Targets = {"new"}
  Typed = {0, 1, 2, 3, 257}
  MaxRequests = 3
INVARIANTS AppTypeOK OnlyCurrentShown HistoryStaysShort
PROPERTIES RequestsHandled OpensTypedPage
