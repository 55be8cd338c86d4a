SPECIFICATION Spec
CONSTANTS
  Mine = {}
  Theirs = {"t"}
  MaxJoined = 1
  MaxVisits = 1
  MaxPosted = 1
INVARIANT OnlyCodesOfThePhone
