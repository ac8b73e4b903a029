SPECIFICATION FairSpec
CONSTANTS
  PageNum = 3
  Pages = {0, 1}
  Styles = {"slide", "popup"}
  HeapFails = FALSE
INVARIANTS TypeOK HistoryCreated ReleasePolicy
PROPERTIES NavSpec LeftPageReleased
