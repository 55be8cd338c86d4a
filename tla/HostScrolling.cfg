SPECIFICATION Spec
CONSTANTS
  Name <- Names
  Free = "FREE"
  Entrants <- Three
  VisibleRows = 1
  MaxLists = 4
  MaxUnsent = 1
INVARIANTS TypeOK NeverTraps EveryoneAccountedFor
