SPECIFICATION Spec
CONSTANTS
  Mine = {"m"}
  Theirs = {"t"}
  MaxJoined = 2
  MaxVisits = 2
  MaxPosted = 1
INVARIANTS TypeOK TouchedRowIsMeant OnlyOwnAsHost
PROPERTY EverythingListed
