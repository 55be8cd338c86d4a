SPECIFICATION SSpecWithoutNo
CONSTANTS
  Name <- Names
  Free = "FREE"
  Entrants <- Three
  VisibleRows = 2
  MaxLists = 4
  MaxUnsent = 2
  Viewer = {v1}
  Nothing = Nothing
  MaxViews = 2
  MaxPosted = 2
INVARIANTS STypeOK NoTraceOfTheWay BracketsFollowTheCache
PROPERTIES RoundsShownInOrder DeletedForGood ViewersCatchUp
