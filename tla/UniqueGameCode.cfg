SPECIFICATION Spec
CONSTANTS
  Phone = {"g", "h"}
  Hosts = {"g", "h"}
  Joiners = {}
  Code = {"a"}
  Empty = ""
  Name = {"A", "B"}
  Free = "FREE"
  MaxDraws = 2
  MaxLookups = 1
  MaxWaiting = 1
PROPERTY UniqueGameCode
