SPECIFICATION Spec
CONSTANTS
  Artists = {}
  Titles = {}
  People = {actor}
  PageSize = 2
  MaxLog = 3
  MaxStream = 1
  Attempts <- AttemptsFeed
  Limits <- LimitsPerson
INVARIANTS
  PersonChangeNotLost
CHECK_DEADLOCK FALSE
