SPECIFICATION GuideSpec
CONSTANTS
  c1 = c1
  c2 = c2
  NULL = NULL
  Chat <- TwoChats
  Location <- Places
  Script <- TwoScripts
  Window = 1
  Database <- Databases
  Rect <- Corners
  Points = 2
INVARIANTS
  TypeOK
  AnswersExact
  NotesInOrder
  ListExact
  SummaryExact
PROPERTIES
  IterationStable
  EveryClientEnds
CHECK_DEADLOCK FALSE
