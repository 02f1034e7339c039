SPECIFICATION FairSpec
CONSTANTS
  Artists = {artist}
  Titles = {film}
  People = {actor}
  PageSize = 2
  MaxLog = 3
  MaxStream = 2
  Attempts <- AttemptsFeed
  Limits <- LimitsFeed
INVARIANTS
  TypeOK
  ChangeNotLost
  TopTracksNotLost
  RowsMatchCheckpoint
PROPERTIES
  FeedSettles
CHECK_DEADLOCK FALSE
