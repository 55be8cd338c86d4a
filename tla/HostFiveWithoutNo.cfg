SPECIFICATION SpecWithoutNo
CONSTANTS
  Name <- Names
  Free = "FREE"
  Entrants <- Five
  VisibleRows = 4
  MaxLists = 5
  MaxUnsent = 2
INVARIANTS NeverTraps RibbonsAgree AlertMeansRoundDecided StoredRoundsPlayedOff
PROPERTIES PublicKnockout YesOpensNextRound
