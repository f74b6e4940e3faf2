SPECIFICATION Spec
CONSTANTS
  Users = {me, ann}
  Me = me
  None = None
  Blank = Blank
  MaxScreens = 5
  MaxCrashes = 1
INVARIANTS ShowsOwn EditsOpened ActsOnShown PictureIsMine
CHECK_DEADLOCK FALSE
