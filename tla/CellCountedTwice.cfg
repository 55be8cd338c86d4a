SPECIFICATION Spec
CONSTANTS
  Name <- Names
  Free = "FREE"
  Entrants <- Three
  VisibleRows = 1
  MaxLists = 3
  MaxUnsent = 2
PROPERTY OnlyNewWinnersCount
