SPECIFICATION Spec
CONSTANTS
  Phone = {"h", "j"}
  Hosts = {"h"}
  Joiners = {"j"}
  Code = {"a", "b"}
  Empty = ""
  Name = {"A", "B"}
  Free = "FREE"
  MaxDraws = 1
  MaxLookups = 2
  MaxWaiting = 1
PROPERTY JoinedWasFound
