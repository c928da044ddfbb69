\* A document of three blocks in pages of two, and commands of up to two lines
\* over pipes of one, with answers cut after one line.
SPECIFICATION Spec
CONSTANTS
  Capacity = 1
  MaxToolLines = 1
  MaxLines = 2
  LogMayFail = TRUE
  Blocks = 3
  Limit = 2
INVARIANTS
  AnswerComplete
  ModelSeesWhatClientsSee
  PagesAdjoin
  CommentAnchored
PROPERTIES
  CallEnds
