SPECIFICATION SSpecWithoutNo
CONSTANTS
  Name <- Names
  Free = "FREE"
  Entrants <- Five
  VisibleRows = 4
  MaxLists = 3
  MaxUnsent = 1
  Viewer = {v1}
  Nothing = Nothing
  MaxViews = 1
  MaxPosted = 1
INVARIANT EveryRoundHasATable
