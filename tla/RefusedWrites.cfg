SPECIFICATION SpecRefusing
CONSTANTS
  Name <- Names
  Free = "FREE"
  Entrants <- Three
  VisibleRows = 2
  MaxLists = 3
  MaxUnsent = 2
  MaxRefused = 1
INVARIANTS EveryoneAccountedFor ScreenIsOfTheDocument
PROPERTY HostLearnsTheOutcome
