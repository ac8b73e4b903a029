SPECIFICATION FairSpec
CONSTANTS
  MaxTouch = 3
  Timeout = 2
INVARIANTS TypeOK ShownIsTouched
PROPERTIES FrameDecides ReleasedWhenLifted
