SPECIFICATION Spec
CONSTANTS
  Process = {w1, w2}
  w1 = w1
  w2 = w2
  Path = {"a.md", "b.md"}
  Edited = {"a.md"}
  New = {"b.md"}
  Content <- FileContents
  Scores <- ChunkScores
  Queries <- OneOrTwo
  Limit = 2
  QuietFiles = TRUE
  MaxEdits = 1
  MaxCalls = 3
  MaxCrashes = 1
SYMMETRY Alike
INVARIANTS
  AnswersAreCurrent
  ReadableIsAnswered
PROPERTIES
  FilesAreKept
CHECK_DEADLOCK FALSE
