SPECIFICATION Spec
CONSTANTS
  Phone = {"h", "j"}
  Hosts = {"h"}
  Joiners = {"j"}
  Code = {"a"}
  Empty = ""
  Name = {"A", "B"}
  Free = "FREE"
  MaxDraws = 1
  MaxLookups = 1
  MaxWaiting = 2
INVARIANTS TypeOK StoredFieldsAreFields OnlyItsHostWrites HostedIffStored
PROPERTY HostedIsPublished
