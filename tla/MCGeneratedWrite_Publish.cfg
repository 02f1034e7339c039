SPECIFICATION Spec
CONSTANTS
  Writers = {w1, w2}
  Janitors = {}
  Scanners = {s1}
  User = {u1, u2}
  Heya = {h1, h2}
  None = None
  Limits <- LimitsPublish
INVARIANTS
  TypeOK
  UserHasLastWord
  OwnFilesKnown
CHECK_DEADLOCK FALSE
SYMMETRY Symmetry
PROPERTIES
  OwnerSpec
