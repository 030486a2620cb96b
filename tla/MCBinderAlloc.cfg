CONSTANTS
  Page = 4
  Header = 3
  NumPages = 5
  Sizes <- MCSizes
SPECIFICATION Spec
INVARIANTS AreaIsTiled PagesAreNeeded NoAssertionFails AsyncSpaceIsAccounted
CHECK_DEADLOCK FALSE
