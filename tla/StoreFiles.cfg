SPECIFICATION Spec
CONSTANTS
  Keys = {"entry", "record"}
  Values = {v1, v2}
  Procs = {p1, p2, p3}
  Records = {"record"}
  Holds <- MCHolds
  Inodes = {i1, i2, i3, i4}
  NoFile = NoFile
  Parts = 2
  MaxCalls = 3
  Blank = Blank
  Binary = Binary
  Damages = {Blank, Binary}
  NoBlob = NoBlob
  NotTaken = NotTaken
  NoCall = NoCall
  Miss = Miss
  Done = Done
  Raised = Raised
  Pending = Pending
SYMMETRY Symmetry
INVARIANT TypeOK
INVARIANT RecordsWholeAtRest
PROPERTY ActsAsBlobStore
PROPERTY CacheReadsRaiseOnBytesOnly
CHECK_DEADLOCK FALSE
